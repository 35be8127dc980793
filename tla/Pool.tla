-------------------------------- MODULE Pool --------------------------------
(***************************************************************************)
(* The Rust connection pool of crates/service-proxy/src/upstream/pool.rs:  *)
(* Pool::get, Pool::put and their caller forward_pooled, run concurrently  *)
(* by the request tasks of one upstream.                                   *)
(*                                                                         *)
(* Every step of the model is one access to state the tasks share: one     *)
(* critical section of the idle mutex, one atomic read-modify-write of     *)
(* `outstanding`, one operation on the Notify.  Between two of them any    *)
(* other task may run.  A request future may also be dropped while it is   *)
(* suspended: in mode grpc, hyper drops the handler when the client resets *)
(* its stream, and nothing in pool.rs runs on drop.                        *)
(***************************************************************************)
EXTENDS Integers, Sequences, FiniteSets

CONSTANTS
  Tasks,           \* request tasks that use this pool
  Conns,           \* identities of TCP connections to the upstream
  NoConn,          \* "holds no connection"
  MaxSize,         \* Pool::max_size, i.e. POOL_SIZE_PER_UPSTREAM
  Scenarios        \* the scenarios considered: who asks, and what can happen

ASSUME PoolAssumption ==
  /\ IsFiniteSet(Tasks)
  /\ NoConn \notin Conns
  /\ MaxSize \in Nat

VARIABLES
  scenario,     \* [tasks, faults] of this behaviour
  idle,         \* Pool::idle, a Vec used as a stack: the last element is on top
  outstanding,  \* Pool::outstanding; an Int, so that wrapping below 0 would show
  permit,       \* the single stored permit of Pool::notify
  waiters,      \* the tasks queued in Pool::notify, oldest first
  conn,         \* conn[t]: the TcpStream task t owns, or NoConn
  pc            \* pc[t]: where task t is

vars == <<scenario, idle, outstanding, permit, waiters, conn, pc>>

\* What can happen: "dial" returns Err (refused, or its 5s timeout), "forward"
\* returns Err, the client may "cancel" (reset its stream, mode grpc; a panic inside
\* forward, in any mode, leaves the pool in the same state), and a task that is done
\* may serve "again".
May(f) == f \in scenario.faults

\* Where a request task can be; the line is the next one of pool.rs to run.
PC == {"ready",      \* no request yet
       "pop",        \* get:34      idle.lock().await
       "reserve",    \* get:40      outstanding.fetch_add
       "dial",       \* get:42      dial().await
       "unreserve",  \* get:50      outstanding.fetch_sub
       "wait",       \* get:52      notify.notified(), not polled yet
       "waiting",    \* get:52      queued in the Notify
       "woken",      \* get:52      notified, not polled again yet
       "forward",    \* forward_pooled:98  forward().await
       "put",        \* put:64      idle.lock().await
       "evict",      \* put:58, 71  drop(conn)
       "release",    \* put:59, 72  outstanding.fetch_sub
       "notify",     \* put:60, 68, 73  notify.notify_one()
       "done"}       \* the request has its response or its error

\* The states with an await in them: a dropped future is dropped in one of these.
Suspended == {"pop", "dial", "waiting", "woken", "forward", "put"}

Goto(t, l) == [pc EXCEPT ![t] = l]

(***************************************************************************)
(* tokio's Notify.  notify_one wakes the oldest queued task or, if there   *)
(* is none, stores a permit; a second permit is not stored.  `next` is pc  *)
(* with the caller's own move already made.                                *)
(***************************************************************************)
NotifyOne(next) ==
  \/ /\ waiters = <<>>
     /\ permit' = TRUE
     /\ pc' = next
     /\ UNCHANGED waiters
  \/ /\ waiters # <<>>
     /\ pc' = [next EXCEPT ![Head(waiters)] = "woken"]
     /\ waiters' = Tail(waiters)
     /\ UNCHANGED permit

-----------------------------------------------------------------------------
IdleConns == {idle[i] : i \in DOMAIN idle}
Open == IdleConns \cup ({conn[t] : t \in Tasks} \ {NoConn})

\* The tasks that own one unit of `outstanding` for a connection, and the
\* tasks whose fetch_add found the pool full and is still to be undone.
SlotHolders == {t \in Tasks : pc[t] \in {"dial", "forward", "put", "evict", "release"}}
Overshoot   == {t \in Tasks : pc[t] = "unreserve"}

-----------------------------------------------------------------------------
(* Plausible mistakes in pool.rs, each of which some property must catch.   *)

\* The error path hands the connection it has closed back as a healthy one.
ForwardErrPutsClosed(t) ==
  /\ May("forward")
  /\ pc[t] = "forward"
  /\ conn' = [conn EXCEPT ![t] = NoConn]
  /\ pc' = Goto(t, "put")
  /\ UNCHANGED <<idle, outstanding, permit, waiters>>

\* `prev <= max_size` instead of `prev < max_size`.
HasRoomOffByOne == outstanding <= MaxSize

\* get reads the top of the stack without taking it off.
RestPeeks == idle

\* A fetch_sub is left out, or done twice.
FetchSubForgotten == outstanding
FetchSubTwice == outstanding - 2

\* put returns a healthy connection without notifying.
AfterPutDone == "done"

-----------------------------------------------------------------------------
Init ==
  /\ scenario \in Scenarios
  /\ idle = <<>>
  /\ outstanding = 0
  /\ permit = FALSE
  /\ waiters = <<>>
  /\ conn = [t \in Tasks |-> NoConn]
  /\ pc = [t \in Tasks |-> "ready"]

\* A client request reaches forward_pooled, which calls get.
Arrive(t) ==
  /\ t \in scenario.tasks
  /\ pc[t] = "ready"
  /\ pc' = Goto(t, "pop")
  /\ UNCHANGED <<idle, outstanding, permit, waiters, conn>>

\* The idle stack without its top.
Rest == SubSeq(idle, 1, Len(idle) - 1)

\* get: lock the idle stack; take its top connection if it has one.
PopIdle(t) ==
  /\ pc[t] = "pop"
  /\ \/ /\ idle # <<>>
        /\ conn' = [conn EXCEPT ![t] = idle[Len(idle)]]
        /\ idle' = Rest
        /\ pc' = Goto(t, "forward")
     \/ /\ idle = <<>>
        /\ pc' = Goto(t, "reserve")
        /\ UNCHANGED <<idle, conn>>
  /\ UNCHANGED <<outstanding, permit, waiters>>

HasRoom == outstanding < MaxSize
FetchSub == outstanding - 1

\* get: count this task in, and decide on the count that was there before.
Reserve(t) ==
  /\ pc[t] = "reserve"
  /\ outstanding' = outstanding + 1
  /\ pc' = Goto(t, IF HasRoom THEN "dial" ELSE "unreserve")
  /\ UNCHANGED <<idle, permit, waiters, conn>>

\* get: the dial succeeds with a connection that was not open before.
DialOk(t) ==
  /\ pc[t] = "dial"
  /\ \E c \in Conns \ Open : conn' = [conn EXCEPT ![t] = c]
  /\ pc' = Goto(t, "forward")
  /\ UNCHANGED <<idle, outstanding, permit, waiters>>

\* get: the dial fails; the reservation is undone and the error returned.
\* No task is notified that there is room again.
DialErr(t) ==
  /\ May("dial")
  /\ pc[t] = "dial"
  /\ outstanding' = FetchSub
  /\ pc' = Goto(t, "done")
  /\ UNCHANGED <<idle, permit, waiters, conn>>

\* get: the pool was full; undo the fetch_add.
Unreserve(t) ==
  /\ pc[t] = "unreserve"
  /\ outstanding' = FetchSub
  /\ pc' = Goto(t, "wait")
  /\ UNCHANGED <<idle, permit, waiters, conn>>

Permitted == permit

\* get: first poll of notified(): consume the stored permit, or queue.
Wait(t) ==
  /\ pc[t] = "wait"
  /\ \/ /\ Permitted
        /\ permit' = FALSE
        /\ pc' = Goto(t, "pop")
        /\ UNCHANGED waiters
     \/ /\ ~Permitted
        /\ waiters' = Append(waiters, t)
        /\ pc' = Goto(t, "waiting")
        /\ UNCHANGED permit
  /\ UNCHANGED <<idle, outstanding, conn>>

\* get: a notified task runs again and goes round the loop.
Resume(t) ==
  /\ pc[t] = "woken"
  /\ pc' = Goto(t, "pop")
  /\ UNCHANGED <<idle, outstanding, permit, waiters, conn>>

\* forward_pooled: the exchange on the connection ends; put(conn, healthy)
\* is called with healthy saying whether it ended without an error.
ForwardOk(t) ==
  /\ pc[t] = "forward"
  /\ pc' = Goto(t, "put")
  /\ UNCHANGED <<idle, outstanding, permit, waiters, conn>>

ForwardErr(t) ==
  /\ May("forward")
  /\ pc[t] = "forward"
  /\ pc' = Goto(t, "evict")
  /\ UNCHANGED <<idle, outstanding, permit, waiters, conn>>

AfterPut == "notify"

\* put, healthy: lock the idle stack and push, or drop if it is full.
Put(t) ==
  /\ pc[t] = "put"
  /\ IF Len(idle) < MaxSize
     THEN /\ idle' = Append(idle, conn[t])
          /\ conn' = [conn EXCEPT ![t] = NoConn]
          /\ pc' = Goto(t, AfterPut)
     ELSE /\ pc' = Goto(t, "evict")
          /\ UNCHANGED <<idle, conn>>
  /\ UNCHANGED <<outstanding, permit, waiters>>

\* put, unhealthy or full: close the connection, ...
Evict(t) ==
  /\ pc[t] = "evict"
  /\ conn' = [conn EXCEPT ![t] = NoConn]
  /\ pc' = Goto(t, "release")
  /\ UNCHANGED <<idle, outstanding, permit, waiters>>

\* ... then give its slot back.
Release(t) ==
  /\ pc[t] = "release"
  /\ outstanding' = FetchSub
  /\ pc' = Goto(t, "notify")
  /\ UNCHANGED <<idle, permit, waiters, conn>>

\* put: every path ends by waking one waiter.
Notify(t) ==
  /\ pc[t] = "notify"
  /\ NotifyOne(Goto(t, "done"))
  /\ UNCHANGED <<idle, outstanding, conn>>

\* The request's task is over; its identity is used for a later request.
Recycle(t) ==
  /\ May("again")
  /\ pc[t] = "done"
  /\ pc' = Goto(t, "ready")
  /\ UNCHANGED <<idle, outstanding, permit, waiters, conn>>

-----------------------------------------------------------------------------
(***************************************************************************)
(* The client resets its stream and the request future is dropped at an    *)
(* await.  An owned TcpStream closes; a queued Notified leaves the queue;  *)
(* a Notified that was woken but not polled passes its wake-up on.         *)
(* `outstanding` is left as it is: neither get nor forward_pooled has a    *)
(* drop guard.                                                             *)
(***************************************************************************)
CancelRunning(t) ==
  /\ May("cancel")
  /\ pc[t] \in Suspended \ {"waiting", "woken"}
  /\ conn' = [conn EXCEPT ![t] = NoConn]
  /\ pc' = Goto(t, "done")
  /\ UNCHANGED <<idle, outstanding, permit, waiters>>

CancelWaiting(t) ==
  /\ May("cancel")
  /\ pc[t] = "waiting"
  /\ \E i \in DOMAIN waiters :
       /\ waiters[i] = t
       /\ waiters' = SubSeq(waiters, 1, i - 1) \o SubSeq(waiters, i + 1, Len(waiters))
  /\ pc' = Goto(t, "done")
  /\ UNCHANGED <<idle, outstanding, permit, conn>>

CancelWoken(t) ==
  /\ May("cancel")
  /\ pc[t] = "woken"
  /\ NotifyOne(Goto(t, "done"))
  /\ UNCHANGED <<idle, outstanding, conn>>

-----------------------------------------------------------------------------
Get(t) ==
  \/ PopIdle(t) \/ Reserve(t) \/ DialOk(t) \/ DialErr(t)
  \/ Unreserve(t) \/ Wait(t) \/ Resume(t)

PutBack(t) == Put(t) \/ Evict(t) \/ Release(t) \/ Notify(t)

ForwardPooled(t) == Get(t) \/ ForwardOk(t) \/ ForwardErr(t) \/ PutBack(t)

Cancel(t) == CancelRunning(t) \/ CancelWaiting(t) \/ CancelWoken(t)

\* Any number of requests, at most |Tasks| of them at a time.
TaskNext(t) == Arrive(t) \/ ForwardPooled(t) \/ Cancel(t) \/ Recycle(t)

Next == (\E t \in Tasks : TaskNext(t)) /\ UNCHANGED scenario

Spec == Init /\ [][Next]_vars

\* The runtime polls every task that can move.  dial() ends by its timeout;
\* forward() has none, so that it ends is an assumption on the upstream.
FairSpec == Spec /\ \A t \in Tasks : WF_vars(ForwardPooled(t) /\ UNCHANGED scenario)

-----------------------------------------------------------------------------
TypeOK ==
  /\ scenario \in Scenarios
  /\ idle \in Seq(Conns)
  /\ outstanding \in Int
  /\ permit \in BOOLEAN
  /\ waiters \in Seq(Tasks)
  /\ conn \in [Tasks -> Conns \cup {NoConn}]
  /\ pc \in [Tasks -> PC]

\* At most max_size connections exist, counting the idle ones, the ones in
\* use, the ones being dialed and the ones not yet given back ("Bounded
\* per-upstream connection pool", pool.rs:1), although the test at
\* pool.rs:41 and the dial it guards are not atomic and cancelled requests
\* never return their slot.
SlotsBounded == Len(idle) + Cardinality(SlotHolders) <= MaxSize

\* `outstanding` never counts less than the slots in use: fetch_sub at
\* pool.rs:45, 50, 59 and 72 never wraps, and the test at pool.rs:41 never
\* lets one dial too many through.
SlotsCovered ==
  outstanding >= Len(idle) + Cardinality(SlotHolders) + Cardinality(Overshoot)

\* `outstanding` counts exactly the slots in use and the reservations still to
\* be undone: a connection that is closed frees its slot (pool.rs:40-50, 56-75).
\* It holds as long as no request is cancelled; a request dropped in dial,
\* forward or put takes its slot with it.
NoSlotLost ==
  May("cancel") \/ outstanding = Len(idle) + Cardinality(SlotHolders) + Cardinality(Overshoot)

\* put never meets a full idle stack: the else branch at pool.rs:69-74 is
\* dead code, as the Go twin says ("shouldn't happen if accounting is correct").
PutFindsRoom == \A t \in Tasks : pc[t] = "put" => Len(idle) < MaxSize

\* No wake-up that somebody needs is lost, although put pushes and notifies in two
\* steps, a Notify stores a single permit, and get looks at the idle stack, counts
\* itself in and queues in three (pool.rs:34-52, 64-68).  As long as nothing fails
\* and nothing is cancelled, a task sleeps only while every connection is made, and
\* then another task is on its way to notify: it has a connection or is about to
\* call notify_one, or it is about to take one of the idle ones.
WakerOnItsWay ==
  scenario.faults \subseteq {"again"} /\ waiters # <<>> =>
    /\ Len(idle) + Cardinality(SlotHolders) = MaxSize
    /\ MaxSize > 0 => \E t \in Tasks :
         \/ pc[t] \in {"dial", "forward", "put", "notify"}
         \/ idle # <<>> /\ pc[t] \in {"woken", "pop"}

\* The pool keeps the promise of BoundedPool: every step of get, put and a
\* dropped request is a step of the abstract pool (pool.rs:31-108).
Abstract == INSTANCE BoundedPool WITH idle <- IdleConns, held <- conn

ImplementsBoundedPool == Abstract!Spec

\* Every request of a burst gets its connection and ends: get does not wait
\* for ever (pool.rs:31-54).
GetReturns == \A t \in Tasks : pc[t] = "pop" ~> pc[t] = "done"

\* It does end as long as nothing is cut short: wake-ups that coincide are lost
\* to the single permit, the requests they were for are not (pool.rs:52, 68).
HealthyBurstCompletes ==
  \A t \in Tasks : scenario.faults = {} /\ pc[t] = "pop" ~> pc[t] = "done"
=============================================================================
