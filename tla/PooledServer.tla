---------------------------- MODULE PooledServer ----------------------------
(***************************************************************************)
(* Mode pooled: the accept loop, the bounded job queue and the worker      *)
(* tasks of serve_pooled (crates/service-proxy/src/main.rs), each worker   *)
(* running handle_conn (crates/service-proxy/src/proxy_http.rs) on one     *)
(* client connection after the other.                                      *)
(*                                                                         *)
(* The selector is seen here through next() and release() only (module     *)
(* Balancer has its inside), and the connection pools of the upstreams     *)
(* through what BoundedPool promises: at most PoolSize forwards at a time  *)
(* per upstream (module Pool has their inside).                            *)
(***************************************************************************)
EXTENDS Integers, Sequences, FiniteSets

CONSTANTS
  Clients,     \* client connections
  Workers,     \* worker tasks (WORKER_POOL_SIZE)
  Upstreams,   \* upstream addresses
  QueueDepth,  \* WORKER_QUEUE_DEPTH
  PoolSize,    \* POOL_SIZE_PER_UPSTREAM
  None,        \* "no client", "no upstream", "no worker"
  Faults       \* what may fail, of {"accept", "length", "forward"}: the cases considered

ASSUME ServerAssumption ==
  /\ IsFiniteSet(Clients) /\ IsFiniteSet(Workers)
  /\ None \notin Clients \cup Upstreams \cup Workers
  /\ QueueDepth \in Nat \ {0}   \* mpsc::channel panics otherwise (Startup)
  /\ PoolSize \in Nat \ {0}

VARIABLES
  faults,    \* what may fail in this behaviour
  client,    \* client[c]: what client c has done on its connection
  backlog,   \* connections the kernel holds for accept(), oldest first
  accepted,  \* the connection the accept loop has in hand, or None
  queue,     \* the mpsc channel
  rxLock,    \* the worker that holds the receiver's mutex, or None
  pc,        \* pc[w]: where worker w is
  job,       \* job[w]: the client connection worker w serves, or None
  up,        \* up[w]: the upstream next() gave it, until release(), or None
  inflight,  \* the selector's gauge
  busy,      \* busy[u]: pooled connections of u in use
  answer,    \* answer[c]: what c's connection was closed with
  running,   \* FALSE once serve_pooled has returned, which ends the process
  order,     \* history: connections in the order accept() returned them
  started    \* history: connections in the order workers took them up

acceptVars == <<client, backlog, accepted, running, order>>
workerVars == <<rxLock, pc, job, up, inflight, busy, answer, started>>
vars == <<faults, queue, acceptVars, workerVars>>

Goto(w, l) == pc' = [pc EXCEPT ![w] = l]

-----------------------------------------------------------------------------
(* Plausible mistakes in main.rs and proxy_http.rs, each of which some       *)
(* property must catch.                                                      *)

\* A pooled connection is given back twice.
PutTwice(u) == [busy EXCEPT ![u] = @ - 2]

\* A connection stays in the queue when it is received.
RestPeeks == queue

\* A new connection overtakes those that wait.
SentFirst(c) == <<c>> \o queue

\* release() only after a good response.
ReleasedOnSuccess(u, good) == IF good THEN [inflight EXCEPT ![u] = @ - 1] ELSE inflight

\* The worker keeps the receiver's mutex while it serves the connection.
LockKept == rxLock

-----------------------------------------------------------------------------
Init ==
  /\ faults \in Faults
  /\ client = [c \in Clients |-> "new"]
  /\ backlog = <<>>
  /\ accepted = None
  /\ queue = <<>>
  /\ rxLock = None
  /\ pc = [w \in Workers |-> "lock"]
  /\ job = [w \in Workers |-> None]
  /\ up = [w \in Workers |-> None]
  /\ inflight = [u \in Upstreams |-> 0]
  /\ busy = [u \in Upstreams |-> 0]
  /\ answer = [c \in Clients |-> "none"]
  /\ running = TRUE
  /\ order = <<>>
  /\ started = <<>>

\* A client connects; later it sends its request or hangs up, which a read of
\* the connection ends with either way.
Connect(c) ==
  /\ client[c] = "new"
  /\ client' = [client EXCEPT ![c] = "silent"]
  /\ backlog' = Append(backlog, c)
  /\ UNCHANGED <<accepted, running, order, queue, workerVars>>

SendOrHangUp(c) ==
  /\ client[c] = "silent"
  /\ client' = [client EXCEPT ![c] = "over"]
  /\ UNCHANGED <<backlog, accepted, running, order, queue, workerVars>>

-----------------------------------------------------------------------------
\* The accept loop: take one connection, ...
Accept ==
  /\ running /\ accepted = None
  /\ backlog # <<>>
  /\ accepted' = Head(backlog)
  /\ backlog' = Tail(backlog)
  /\ order' = Append(order, Head(backlog))
  /\ UNCHANGED <<client, running, queue, workerVars>>

Sent(c) == Append(queue, c)

\* ... and block in send() until the queue has room for it.
Enqueue ==
  /\ running /\ accepted # None
  /\ Len(queue) < QueueDepth
  /\ queue' = Sent(accepted)
  /\ accepted' = None
  /\ UNCHANGED <<client, backlog, running, order, workerVars>>

\* An error of accept() ends serve_pooled, and with it the process.
AcceptError ==
  /\ "accept" \in faults
  /\ running /\ accepted = None
  /\ running' = FALSE
  /\ UNCHANGED <<client, backlog, accepted, order, queue, workerVars>>

-----------------------------------------------------------------------------
\* A worker waits for the mutex around the receiver, ...
LockRx(w) ==
  /\ running /\ pc[w] = "lock"
  /\ rxLock = None
  /\ rxLock' = w
  /\ Goto(w, "recv")
  /\ UNCHANGED <<acceptVars, queue, job, up, inflight, busy, answer, started>>

Rest == Tail(queue)
Unlocked == None

\* ... receives a connection while holding it, and lets it go.
Recv(w) ==
  /\ running /\ pc[w] = "recv"
  /\ queue # <<>>
  /\ job' = [job EXCEPT ![w] = Head(queue)]
  /\ queue' = Rest
  /\ rxLock' = Unlocked
  /\ started' = Append(started, Head(queue))
  /\ Goto(w, "read")
  /\ UNCHANGED <<acceptVars, up, inflight, busy, answer>>

\* The connection is dropped at the end of handle_conn, after which the worker loops,
\* and when a panic in handle_conn ends the worker's task.
Close(w, a, l) ==
  /\ answer' = [answer EXCEPT ![job[w]] = a]
  /\ job' = [job EXCEPT ![w] = None]
  /\ Goto(w, l)

\* handle_conn: the request cannot be read: the client hung up before the end
\* of its headers, or what it sent is not a request.
ReadErr(w) ==
  /\ running /\ pc[w] = "read"
  /\ client[job[w]] = "over"
  /\ Close(w, "dropped", "lock")
  /\ UNCHANGED <<acceptVars, queue, rxLock, up, inflight, busy, started>>

\* handle_conn: vec![0; n] panics for the length n that the client announced, longer
\* than a Vec can be.  Nobody joins or replaces a worker.
ReadPanic(w) ==
  /\ "length" \in faults
  /\ running /\ pc[w] = "read"
  /\ client[job[w]] = "over"
  /\ Close(w, "dropped", "dead")
  /\ UNCHANGED <<acceptVars, queue, rxLock, up, inflight, busy, started>>

\* handle_conn: the request has been read, without a timeout on that, and
\* selector.next() has been called.  A client that hangs up inside its body is
\* forwarded with the part it sent.
ReadOk(w) ==
  /\ running /\ pc[w] = "read"
  /\ client[job[w]] = "over"
  /\ \E u \in Upstreams :
       /\ up' = [up EXCEPT ![w] = u]
       /\ inflight' = [inflight EXCEPT ![u] = @ + 1]
  /\ Goto(w, "get")
  /\ UNCHANGED <<acceptVars, queue, rxLock, job, busy, answer, started>>

\* forwarder.forward(): get a connection of the upstream's pool, ...
PoolGet(w) ==
  /\ running /\ pc[w] = "get"
  /\ busy[up[w]] < PoolSize
  /\ busy' = [busy EXCEPT ![up[w]] = @ + 1]
  /\ Goto(w, "forward")
  /\ UNCHANGED <<acceptVars, queue, rxLock, job, up, inflight, answer, started>>

Put(u) == [busy EXCEPT ![u] = @ - 1]
Released(u, good) == [inflight EXCEPT ![u] = @ - 1]

\* ... use it and give it back; the exchange, or the dial, may have failed.
\* handle_conn calls selector.release(tok) whatever the outcome.
ForwardEnd(w) ==
  /\ running /\ pc[w] = "forward"
  /\ busy' = Put(up[w])
  /\ \E good \in {TRUE, "forward" \notin faults} :
       /\ inflight' = Released(up[w], good)
       /\ Goto(w, IF good THEN "reply" ELSE "fail")
  /\ up' = [up EXCEPT ![w] = None]
  /\ UNCHANGED <<acceptVars, queue, rxLock, job, answer, started>>

\* vec![0; n] panics for the length n that the upstream announced: neither put nor
\* release runs.
ForwardPanic(w) ==
  /\ "forward" \in faults
  /\ running /\ pc[w] = "forward"
  /\ Close(w, "dropped", "lost")
  /\ UNCHANGED <<acceptVars, queue, rxLock, up, inflight, busy, started>>

\* handle_conn: the response, or a 502; a failed write is only logged.
WriteBack(w) ==
  /\ running /\ pc[w] \in {"reply", "fail"}
  /\ Close(w, IF pc[w] = "reply" THEN "response" ELSE "bad_gateway", "lock")
  /\ UNCHANGED <<acceptVars, queue, rxLock, up, inflight, busy, started>>

-----------------------------------------------------------------------------
HandleConn(w) ==
  \/ ReadErr(w) \/ ReadPanic(w) \/ ReadOk(w)
  \/ PoolGet(w) \/ ForwardEnd(w) \/ ForwardPanic(w) \/ WriteBack(w)

Step(A) == A /\ UNCHANGED faults

Next ==
  \/ Step(Accept \/ Enqueue \/ AcceptError)
  \/ \E w \in Workers : Step(LockRx(w) \/ Recv(w) \/ HandleConn(w))
  \/ \E c \in Clients : Step(Connect(c) \/ SendOrHangUp(c))

Spec == Init /\ [][Next]_vars

\* The runtime polls every task that can move; tokio's mutex and channel are
\* fair, so a worker that waits for the receiver gets it.  A connected client
\* sends its request or hangs up: read_http11_request has no timeout of its own.
\* That a free pooled connection reaches a worker that waits for it holds when
\* no forward fails (Pool, HealthyBurstCompletes); with failures it does not.
FairSpec ==
  /\ Spec
  /\ WF_vars(Step(Accept)) /\ WF_vars(Step(Enqueue))
  /\ \A w \in Workers : /\ WF_vars(Step(HandleConn(w))) /\ WF_vars(Step(Recv(w)))
                         /\ SF_vars(Step(LockRx(w)))
  /\ \A c \in Clients : WF_vars(Step(SendOrHangUp(c)))

-----------------------------------------------------------------------------
PC == {"lock", "recv", "read", "get", "forward", "reply", "fail", "dead", "lost"}

TypeOK ==
  /\ faults \in Faults
  /\ client \in [Clients -> {"new", "silent", "over"}]
  /\ backlog \in Seq(Clients)
  /\ accepted \in Clients \cup {None}
  /\ queue \in Seq(Clients)
  /\ rxLock \in Workers \cup {None}
  /\ pc \in [Workers -> PC]
  /\ job \in [Workers -> Clients \cup {None}]
  /\ up \in [Workers -> Upstreams \cup {None}]
  /\ inflight \in [Upstreams -> Int]
  /\ busy \in [Upstreams -> 0 .. PoolSize]
  /\ answer \in [Clients -> {"none", "dropped", "response", "bad_gateway"}]
  /\ running \in BOOLEAN
  /\ order \in Seq(Clients)
  /\ started \in Seq(Clients)

Elems(s) == {s[i] : i \in DOMAIN s}

\* The places an accepted connection can be in before it is closed.
InQueue  == Elems(queue)
InHand   == {accepted} \ {None}
AtWorker == {job[w] : w \in Workers} \ {None}
Closed   == {c \in Clients : answer[c] # "none"}

\* No connection is lost or served twice between accept() and its answer: each
\* is in exactly one of the accept loop, the queue, one worker, or closed
\* (main.rs:189-211, proxy_http.rs:18-44).
OnePlaceEach ==
  /\ Elems(order) = InHand \cup InQueue \cup AtWorker \cup Closed
  /\ InHand \cap (InQueue \cup AtWorker \cup Closed) = {}
  /\ InQueue \cap (AtWorker \cup Closed) = {}
  /\ AtWorker \cap Closed = {}
  /\ \A v, w \in Workers : job[v] = job[w] /\ job[v] # None => v = w

\* Workers take connections up in the order they were accepted, although they
\* race for the receiver (main.rs:192-195).
InOrder ==
  /\ Len(started) <= Len(order)
  /\ \A i \in DOMAIN started : started[i] = order[i]

\* The gauge the selectors balance on counts exactly the requests between
\* next() and release(), on the success path and on every error path; the one of a
\* worker that panicked in between it counts for ever (proxy_http.rs:29-31).
GaugeMatchesWorkers ==
  \A u \in Upstreams : inflight[u] = Cardinality({w \in Workers : up[w] = u})

\* As long as no forward fails, every client that connects is answered or dropped,
\* unless accept() fails, which ends the process, or panics have ended the last
\* worker: no worker is stuck for ever behind the receiver, the queue or a full
\* pool, and none takes another down with it (main.rs:188-212).
EveryClientServed ==
  \A c \in Clients :
    "forward" \notin faults /\ client[c] # "new"
      ~> answer[c] # "none" \/ ~running \/ \A w \in Workers : pc[w] = "dead"
=============================================================================
