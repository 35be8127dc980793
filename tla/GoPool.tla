------------------------------- MODULE GoPool -------------------------------
(***************************************************************************)
(* The Go connection pool of go/internal/upstream/pool.go: Pool.Get,       *)
(* Pool.Put and ForwardPooled, run concurrently by the goroutines of one   *)
(* upstream.                                                               *)
(*                                                                         *)
(* Idle connections live in a buffered channel of capacity maxSize, and a  *)
(* Get that finds no room blocks on a receive from it.  The context handed *)
(* to Get is context.Background() (pool.go:139): it is never done, and a   *)
(* goroutine is never cut short.  Every step is one channel operation or   *)
(* one atomic Add.                                                         *)
(***************************************************************************)
EXTENDS Integers, Sequences, FiniteSets

CONSTANTS
  Tasks,           \* goroutines that use this pool
  Conns,           \* identities of TCP connections to the upstream
  NoConn,          \* "holds no connection"
  MaxSize,         \* Pool.maxSize, i.e. POOL_SIZE_PER_UPSTREAM
  Faults           \* what may fail: "dial" (Dial), "forward" (Forward)

ASSUME GoPoolAssumption ==
  /\ IsFiniteSet(Tasks)
  /\ NoConn \notin Conns
  /\ MaxSize \in Nat
  /\ Faults \subseteq {"dial", "forward"}

VARIABLES
  faults,       \* what does fail in this behaviour, a part of Faults
  conns,        \* the buffer of Pool.conns, oldest first
  recvq,        \* the goroutines blocked receiving from Pool.conns, oldest first
  outstanding,  \* Pool.outstanding
  conn,         \* conn[t]: the connection goroutine t holds, or NoConn
  pc            \* pc[t]: where goroutine t is

vars == <<faults, conns, recvq, outstanding, conn, pc>>

\* Where a goroutine can be; the line is the next one of pool.go to run.
PC == {"ready",      \* no request yet
       "tryRecv",    \* Get:35   select with default
       "reserve",    \* Get:41   outstanding.Add(1)
       "dial",       \* Get:42   Dial
       "unreserve",  \* Get:49   outstanding.Add(-1)
       "recv",       \* Get:51   select without default, not blocked yet
       "blocked",    \* Get:51   parked in the channel's receive queue
       "forward",    \* ForwardPooled:106  Forward
       "put",        \* Put:68   select with default
       "close",      \* Put:63, 72  conn.Close()
       "release",    \* Put:64, 73  outstanding.Add(-1)
       "done"}       \* the request has its response or its error

Goto(t, l) == [pc EXCEPT ![t] = l]

IdleConns == {conns[i] : i \in DOMAIN conns}
Open == IdleConns \cup ({conn[t] : t \in Tasks} \ {NoConn})

\* The goroutines that own one unit of `outstanding` for a connection, and
\* those whose Add(1) found the pool full and is still to be undone.
SlotHolders == {t \in Tasks : pc[t] \in {"dial", "forward", "put", "close", "release"}}
Overshoot   == {t \in Tasks : pc[t] = "unreserve"}

-----------------------------------------------------------------------------
(* Plausible mistakes in pool.go, each of which some property must catch.   *)

\* The error path hands the connection it has closed back as a healthy one.
ForwardErrPutsClosed(t) ==
  /\ "forward" \in faults
  /\ pc[t] = "forward"
  /\ conn' = [conn EXCEPT ![t] = NoConn]
  /\ pc' = Goto(t, "put")
  /\ UNCHANGED <<conns, recvq, outstanding>>

\* The count before Add(1) is compared, as in the Rust code, but with <=.
HasRoomOffByOne == outstanding <= MaxSize

\* An Add(-1) is left out.
AddMinusOneForgotten == outstanding

\* `<` instead of `<=`: the last slot is never used.
HasRoomStrict == outstanding + 1 < MaxSize

\* A connection that is received stays in the channel.
RestPeeks == conns

\* ForwardPooled calls Put(conn, false) on success too.
AfterForwardClose == "close"

-----------------------------------------------------------------------------
Init ==
  /\ faults \in SUBSET Faults
  /\ conns = <<>>
  /\ recvq = <<>>
  /\ outstanding = 0
  /\ conn = [t \in Tasks |-> NoConn]
  /\ pc = [t \in Tasks |-> "ready"]

\* A request reaches ForwardPooled, which calls Get.
Arrive(t) ==
  /\ pc[t] = "ready"
  /\ pc' = Goto(t, "tryRecv")
  /\ UNCHANGED <<conns, recvq, outstanding, conn>>

Rest == Tail(conns)

\* t receives the oldest buffered connection.
Receive(t) ==
  /\ conns # <<>>
  /\ conn' = [conn EXCEPT ![t] = Head(conns)]
  /\ conns' = Rest
  /\ pc' = Goto(t, "forward")
  /\ UNCHANGED <<recvq, outstanding>>

\* Get: take an idle connection if there is one.
TryRecv(t) ==
  /\ pc[t] = "tryRecv"
  /\ \/ Receive(t)
     \/ /\ conns = <<>>
        /\ pc' = Goto(t, "reserve")
        /\ UNCHANGED <<conns, recvq, outstanding, conn>>

HasRoom == outstanding + 1 <= MaxSize
AddMinusOne == outstanding - 1

\* Get: count this goroutine in, and decide on the new count.
Reserve(t) ==
  /\ pc[t] = "reserve"
  /\ outstanding' = outstanding + 1
  /\ pc' = Goto(t, IF HasRoom THEN "dial" ELSE "unreserve")
  /\ UNCHANGED <<conns, recvq, conn>>

DialOk(t) ==
  /\ pc[t] = "dial"
  /\ \E c \in Conns \ Open : conn' = [conn EXCEPT ![t] = c]
  /\ pc' = Goto(t, "forward")
  /\ UNCHANGED <<conns, recvq, outstanding>>

\* Get: the dial fails; undo the reservation and return the error.
DialErr(t) ==
  /\ "dial" \in faults
  /\ pc[t] = "dial"
  /\ outstanding' = AddMinusOne
  /\ pc' = Goto(t, "done")
  /\ UNCHANGED <<conns, recvq, conn>>

Unreserve(t) ==
  /\ pc[t] = "unreserve"
  /\ outstanding' = AddMinusOne
  /\ pc' = Goto(t, "recv")
  /\ UNCHANGED <<conns, recvq, conn>>

\* Get: receive, or block until some Put sends; ctx.Done() never fires.
Recv(t) ==
  /\ pc[t] = "recv"
  /\ \/ Receive(t)
     \/ /\ conns = <<>>
        /\ recvq' = Append(recvq, t)
        /\ pc' = Goto(t, "blocked")
        /\ UNCHANGED <<conns, outstanding, conn>>

AfterForward == "put"

ForwardOk(t) ==
  /\ pc[t] = "forward"
  /\ pc' = Goto(t, AfterForward)
  /\ UNCHANGED <<conns, recvq, outstanding, conn>>

ForwardErr(t) ==
  /\ "forward" \in faults
  /\ pc[t] = "forward"
  /\ pc' = Goto(t, "close")
  /\ UNCHANGED <<conns, recvq, outstanding, conn>>

\* Put, healthy, somebody blocked in Get: the send hands the connection over.
PutHandOver(t) ==
  /\ pc[t] = "put"
  /\ recvq # <<>>
  /\ LET u == Head(recvq) IN
       /\ conn' = [conn EXCEPT ![u] = conn[t], ![t] = NoConn]
       /\ pc' = [pc EXCEPT ![u] = "forward", ![t] = "done"]
  /\ recvq' = Tail(recvq)
  /\ UNCHANGED <<conns, outstanding>>

NobodyBlocked == recvq = <<>>

\* Put, healthy, nobody blocked: buffer the connection, or close it if the
\* buffer is full.
PutBuffer(t) ==
  /\ pc[t] = "put"
  /\ NobodyBlocked
  /\ IF Len(conns) < MaxSize
     THEN /\ conns' = Append(conns, conn[t])
          /\ conn' = [conn EXCEPT ![t] = NoConn]
          /\ pc' = Goto(t, "done")
     ELSE /\ pc' = Goto(t, "close")
          /\ UNCHANGED <<conns, conn>>
  /\ UNCHANGED <<recvq, outstanding>>

\* Put, unhealthy or full: close the connection, ...
Close(t) ==
  /\ pc[t] = "close"
  /\ conn' = [conn EXCEPT ![t] = NoConn]
  /\ pc' = Goto(t, "release")
  /\ UNCHANGED <<conns, recvq, outstanding>>

\* ... then give its slot back.  A blocked Get does not learn of it.
Release(t) ==
  /\ pc[t] = "release"
  /\ outstanding' = AddMinusOne
  /\ pc' = Goto(t, "done")
  /\ UNCHANGED <<conns, recvq, conn>>

Recycle(t) ==
  /\ pc[t] = "done"
  /\ pc' = Goto(t, "ready")
  /\ UNCHANGED <<conns, recvq, outstanding, conn>>

-----------------------------------------------------------------------------
Get(t) ==
  TryRecv(t) \/ Reserve(t) \/ DialOk(t) \/ DialErr(t) \/ Unreserve(t) \/ Recv(t)

PutBack(t) == PutHandOver(t) \/ PutBuffer(t) \/ Close(t) \/ Release(t)

ForwardPooled(t) == Get(t) \/ ForwardOk(t) \/ ForwardErr(t) \/ PutBack(t)

\* One burst: every goroutine serves at most one request.
BurstNext == (\E t \in Tasks : Arrive(t) \/ ForwardPooled(t)) /\ UNCHANGED faults

\* Any number of requests, at most |Tasks| of them at a time.
Next == BurstNext \/ ((\E t \in Tasks : Recycle(t)) /\ UNCHANGED faults)

Spec == Init /\ [][Next]_vars

\* The scheduler runs every goroutine that can move; Dial ends by its timeout,
\* that Forward ends is an assumption on the upstream.
Fairness == \A t \in Tasks : WF_vars(ForwardPooled(t) /\ UNCHANGED faults)

BurstSpec == Init /\ [][BurstNext]_vars /\ Fairness
FairSpec  == Spec /\ Fairness

-----------------------------------------------------------------------------
TypeOK ==
  /\ faults \subseteq Faults
  /\ conns \in Seq(Conns)
  /\ recvq \in Seq(Tasks)
  /\ outstanding \in Int
  /\ conn \in [Tasks -> Conns \cup {NoConn}]
  /\ pc \in [Tasks -> PC]

\* At most maxSize connections exist, dialing and closing ones included ("up
\* to maxSize concurrently outstanding", pool.go:11), although Add(1) and the
\* dial it allows are not atomic (pool.go:41-42).
SlotsBounded == Len(conns) + Cardinality(SlotHolders) <= MaxSize

\* Every slot is accounted for in every state: none is lost on an error path
\* and none is freed twice (pool.go:41-49, 61-75).
NoSlotLost ==
  outstanding = Len(conns) + Cardinality(SlotHolders) + Cardinality(Overshoot)

\* A Get blocks only while there is nothing it could have: as long as nothing fails,
\* all maxSize connections are then with goroutines that will send one of them into
\* the channel, although Get looks at the channel, counts itself in and blocks in
\* separate steps and a reservation that is still to be undone looks like a
\* connection to everybody else (pool.go:35-52, 68).
BlocksOnlyIfExhausted ==
  faults = {} /\ recvq # <<>> =>
    Cardinality({t \in Tasks : pc[t] \in {"dial", "forward", "put"}}) = MaxSize

\* Every step of Get and Put is a step of the abstract pool (pool.go:34-114).
Abstract == INSTANCE BoundedPool WITH idle <- IdleConns, held <- conn

ImplementsBoundedPool == Abstract!Spec

\* A Get that blocks is served: it "blocks until a connection is returned"
\* (pool.go:31-33), and with every Put healthy each blocked Get has its turn,
\* however many other requests keep arriving.
BlockedIsServed ==
  \A t \in Tasks : (faults = {} /\ pc[t] = "blocked") ~> pc[t] = "forward"

\* Every request of a burst ends (ForwardPooled, pool.go:100-114).
BurstCompletes == \A t \in Tasks : pc[t] = "tryRecv" ~> pc[t] = "done"
=============================================================================
