---------------------------- MODULE StreamServer ----------------------------
(***************************************************************************)
(* The server modes without a worker pool: tcp-sync and tcp-goroutine      *)
(* (serve_http, handle_conn), http2 (serve_http2, handle_hyper_request),   *)
(* grpc (serve_grpc, GrpcProxy::echo), quic and http3 (quic_proxy/mod.rs). *)
(* They differ in who runs a handler, in what a lost connection does to    *)
(* it, in the forwarder and in the answer to a failure.                    *)
(*                                                                         *)
(* hyper and tonic drop a handler whose client has reset the stream or has *)
(* gone; handlers that tokio::spawn started run to their end, unless they  *)
(* panic.  The selector is seen through its gauge, the upstream pool       *)
(* through the connections in use; one upstream is enough.  A definition   *)
(* named after one mode's code is that mode's part of the step that uses   *)
(* it.                                                                     *)
(***************************************************************************)
EXTENDS Integers, FiniteSets

CONSTANTS
  Modes,     \* the PROXY_MODE settings considered
  Links,     \* client connections
  Requests,  \* requests: streams, or the one request of a TCP connection
  Layouts,   \* the ways considered to spread the requests over connections
  Outcomes,  \* the outcomes considered of a forward
  PoolSize   \* POOL_SIZE_PER_UPSTREAM

Tcp      == {"tcp-sync", "tcp-goroutine"}
Quic     == {"quic", "http3"}
Dropping == {"http2", "grpc"}

\* A response; one that http's Builder refuses; an error; a response that announces
\* a body longer than a Vec can be.
AllOutcomes == {"good", "odd", "error", "panic"}

ASSUME StreamAssumption ==
  /\ IsFiniteSet(Requests) /\ Layouts \subseteq [Requests -> Links]
  /\ Modes \subseteq Tcp \cup Quic \cup Dropping
  /\ Outcomes \subseteq AllOutcomes
  /\ PoolSize \in Nat \ {0}

VARIABLES
  mode,      \* the configured mode
  of,        \* of[r]: the connection request r is made on
  alive,     \* FALSE once the accept loop has returned, which ends the process
  link,      \* link[k]: how far the server is with connection k
  gone,      \* the connections whose client has left or was refused
  sent,      \* sent[r]: how much of r the client has sent
  pc,        \* pc[r]: where r's handler is
  answer,    \* answer[r]: what the client has seen of r's answer
  inflight,  \* the selector's gauge
  slots      \* pooled connections in use, and those lost with their handler

vars == <<mode, of, alive, link, gone, sent, pc, answer, inflight, slots>>
held == <<inflight, slots>>

UsesPool == mode \in {"grpc", "quic", "http3"}
Gone(r) == sent[r] = "reset" \/ of[r] \in gone
On(k) == {r \in Requests : of[r] = k}
Goto(r, l) == pc' = [pc EXCEPT ![r] = l]
In(S) == Cardinality({r \in Requests : pc[r] \in S})

-----------------------------------------------------------------------------
(* Plausible mistakes, each of which some property must catch.              *)

\* selector.release(tok), or put, only after a good response.
GivenBackOnSuccess(got) == IF got = "error" THEN 0 ELSE 1

\* put gives the slot back a second time.
GivenBackTwice(got) == 2

\* The end of what a client sends is not noticed.
BadOnly(r) == sent[r] = "bad"

\* The loop of a connection is left after its first stream.
FirstOnly(r) == \A s \in On(of[r]) : pc[s] = "none"

-----------------------------------------------------------------------------
Init ==
  /\ mode \in Modes
  /\ of \in Layouts
  /\ alive = TRUE
  /\ link = [k \in Links |-> "waiting"]
  /\ gone = {}
  /\ sent = [r \in Requests |-> "no"]
  /\ pc = [r \in Requests |-> "none"]
  /\ answer = [r \in Requests |-> "none"]
  /\ inflight = 0
  /\ slots = 0

\* A client begins a request (its only one on a TCP connection, where it may come
\* before the server has accepted), ...
Ask(r) ==
  /\ alive /\ ~Gone(r)
  /\ link[of[r]] = "open" \/ (link[of[r]] = "waiting" /\ mode \in Tcp)
  /\ \A s \in On(of[r]) : sent[s] = "no" \/ (s # r /\ mode \notin Tcp)
  /\ sent' = [sent EXCEPT ![r] = "part"]
  /\ UNCHANGED <<alive, link, gone, pc, answer, held>>

\* ... completes it, maybe with something that is no request: no HTTP, a frame or
\* a message cut short; or, over HTTP/1.1, announces a body longer than a Vec can
\* be, ...
FinishAsking(r) ==
  /\ alive /\ sent[r] = "part" /\ ~Gone(r)
  /\ \E s \in {"all", "bad"} \cup IF mode \in Tcp THEN {"over"} ELSE {} : sent' = [sent EXCEPT ![r] = s]
  /\ UNCHANGED <<alive, link, gone, pc, answer, held>>

\* ... resets its stream, ...
Reset(r) ==
  /\ alive /\ mode \notin Tcp
  /\ sent[r] \in {"part", "all"} /\ answer[r] = "none" /\ ~Gone(r)
  /\ sent' = [sent EXCEPT ![r] = "reset"]
  /\ UNCHANGED <<alive, link, gone, pc, answer, held>>

\* ... or leaves, or is lost.
Leave(k) ==
  /\ alive /\ link[k] \in {"waiting", "open"} /\ k \notin gone
  /\ gone' = gone \cup {k}
  /\ UNCHANGED <<alive, link, sent, pc, answer, held>>

-----------------------------------------------------------------------------
\* tcp-sync handles a connection before it accepts the next.
AcceptorFree == mode = "tcp-sync" => \A k \in Links : link[k] # "open"

Opened(k) == link' = [link EXCEPT ![k] = "open"] /\ UNCHANGED gone
Refused(k) == link' = [link EXCEPT ![k] = "closed"] /\ gone' = gone \cup {k}

\* The accept loops.  The handshake of an HTTP/2 or QUIC connection may fail,
\* which ends that connection only.
ServeHttp(k) == mode \in Tcp /\ AcceptorFree /\ Opened(k)
ServeHttp2(k) == mode = "http2" /\ (Opened(k) \/ Refused(k))
ServeGrpc(k) == mode = "grpc" /\ (Opened(k) \/ Refused(k))
ServeQuic(k) == mode = "quic" /\ (Opened(k) \/ Refused(k))
ServeHttp3(k) == mode = "http3" /\ (Opened(k) \/ Refused(k))

Accept(k) ==
  /\ alive /\ link[k] = "waiting"
  /\ ServeHttp(k) \/ ServeHttp2(k) \/ ServeGrpc(k) \/ ServeQuic(k) \/ ServeHttp3(k)
  /\ UNCHANGED <<alive, sent, pc, answer, held>>

\* An error of accept() ends serve_http and serve_http2, the loss of its endpoint
\* serve_quic and serve_http3, and with them main; tonic goes on.
AcceptError ==
  /\ alive /\ AcceptorFree
  /\ mode # "grpc"
  /\ alive' = FALSE
  /\ UNCHANGED <<link, gone, sent, pc, answer, held>>

\* The client has left: the loop over its streams ends, or handle_conn finds
\* end of file where the request should begin.
EndLink(k) ==
  /\ alive /\ link[k] = "open" /\ k \in gone
  /\ mode \in Tcp => \A r \in On(k) : sent[r] = "no"
  /\ link' = [link EXCEPT ![k] = "closed"]
  /\ UNCHANGED <<alive, gone, sent, pc, answer, held>>

\* The loop over the streams of a connection has no end but the client's.
Looping(r) == TRUE

\* A handler starts on a request.
Start(r) ==
  /\ alive /\ link[of[r]] = "open" /\ Looping(r)
  /\ pc[r] = "none" /\ sent[r] # "no"
  /\ Goto(r, "read")
  /\ UNCHANGED <<alive, link, gone, sent, answer, held>>

\* A handler ends.  A TCP connection is closed when its handle_conn returns.
Over(r, l) ==
  /\ Goto(r, l)
  /\ link' = IF mode \in Tcp THEN [link EXCEPT ![of[r]] = "closed"] ELSE link

\* What was sent is no request, or the client left inside it.
Unreadable(r) == sent[r] = "bad" \/ Gone(r)

\* The client, if it is there, sees what came of its request.
Tell(r, what) == answer' = IF Gone(r) THEN answer ELSE [answer EXCEPT ![r] = what]

\* What a client is told of a request that cannot be read: its connection or its
\* stream ends, but for the 400 of handle_hyper_request and tonic's own status.
Refusal == CASE mode = "http2" -> "400"
             [] mode = "grpc"  -> "unavailable"
             [] OTHER          -> "cut"

ReadErr(r) ==
  /\ alive /\ pc[r] = "read" /\ Unreadable(r)
  /\ Tell(r, Refusal)
  /\ Over(r, "done")
  /\ UNCHANGED <<alive, gone, sent, held>>

\* A panic ends the task of the handler, and in tcp-sync that is main's.
Panic(r, l) ==
  /\ Tell(r, "cut")
  /\ Over(r, l)
  /\ alive' = (mode # "tcp-sync")
  /\ UNCHANGED <<gone, sent, held>>

\* parse_request cannot have a Vec for the body that is announced.
ReadPanic(r) ==
  /\ alive /\ pc[r] = "read" /\ sent[r] = "over"
  /\ Panic(r, "done")

\* What each handler needs before it goes on: read_http11_request takes a body
\* that the client cut short, too; the others insist on its end.
Http11Read(r) == mode \in Tcp /\ (sent[r] = "all" \/ (sent[r] = "part" /\ Gone(r)))
BodyCollected(r) == mode = "http2" /\ sent[r] = "all"
EchoCalled(r) == mode = "grpc" /\ sent[r] = "all"
FrameRead(r) == mode = "quic" /\ sent[r] = "all"
DataReceived(r) == mode = "http3" /\ sent[r] = "all"

\* The request is read and selector.next() called.
ReadOk(r) ==
  /\ alive /\ pc[r] = "read"
  /\ Http11Read(r) \/ BodyCollected(r) \/ EchoCalled(r) \/ FrameRead(r) \/ DataReceived(r)
  /\ inflight' = inflight + 1
  /\ Goto(r, IF UsesPool THEN "get" ELSE "forward")
  /\ UNCHANGED <<alive, link, gone, sent, answer, slots>>

\* forwarder.forward(): a slot of the upstream's pool, ...
Get(r) ==
  /\ alive /\ pc[r] = "get"
  /\ slots < PoolSize
  /\ slots' = slots + 1
  /\ Goto(r, "forward")
  /\ UNCHANGED <<alive, link, gone, sent, answer, inflight>>

GivenBack(got) == 1

\* ... the exchange, put, and selector.release(tok), whatever the outcome.
ForwardEnd(r, got) ==
  /\ alive /\ pc[r] = "forward"
  /\ slots' = IF UsesPool THEN slots - GivenBack(got) ELSE slots
  /\ inflight' = inflight - GivenBack(got)
  /\ Goto(r, got)
  /\ UNCHANGED <<alive, link, gone, sent, answer>>

\* read_response cannot have a Vec for the body: neither put nor release runs.
ForwardPanic(r) ==
  /\ alive /\ pc[r] = "forward" /\ "panic" \in Outcomes
  /\ Panic(r, "leaked")

\* What a client is told.  In mode quic an error is not: the stream is dropped,
\* which ends it, and the client reads an empty answer.  A response that Builder
\* refuses panics in http2 and is the handler's own error in http3; either way the
\* stream ends.
HandleConnSays(got) == IF got = "error" THEN "502" ELSE "response"
HyperSays(got) == CASE got = "good" -> "response" [] got = "error" -> "502" [] got = "odd" -> "cut"
EchoSays(got) == IF got = "error" THEN "unavailable" ELSE "response"
QuicSays(got) == IF got = "error" THEN "empty" ELSE "response"
Http3Says(got) == CASE got = "good" -> "response" [] got = "error" -> "502" [] got = "odd" -> "cut"

Says(got) ==
  CASE mode \in Tcp    -> HandleConnSays(got)
    [] mode = "http2" -> HyperSays(got)
    [] mode = "grpc"  -> EchoSays(got)
    [] mode = "quic"  -> QuicSays(got)
    [] mode = "http3" -> Http3Says(got)

\* The answer is written; a client that is gone does not see it.
Reply(r) ==
  /\ alive /\ pc[r] \in {"good", "odd", "error"}
  /\ Tell(r, Says(pc[r]))
  /\ Over(r, IF pc[r] = "error" THEN "failed" ELSE "done")
  /\ UNCHANGED <<alive, gone, sent, held>>

\* hyper drops the handler of a client that is gone, at its await: release does not
\* run, and neither does put when it was in the exchange.
Drop(r) ==
  /\ alive /\ mode \in Dropping
  /\ Gone(r) /\ pc[r] \in {"get", "forward"}
  /\ Goto(r, IF pc[r] = "forward" THEN "leaked" ELSE "dropped")
  /\ UNCHANGED <<alive, link, gone, sent, answer, held>>

-----------------------------------------------------------------------------
Handler(r) ==
  \/ Start(r) \/ ReadErr(r) \/ ReadPanic(r) \/ ReadOk(r)
  \/ \E got \in Outcomes \ {"panic"} : ForwardEnd(r, got)
  \/ ForwardPanic(r) \/ Reply(r) \/ Drop(r)

Client(k) == Leave(k) \/ \E r \in On(k) : Ask(r) \/ FinishAsking(r) \/ Reset(r)

Step(A) == A /\ UNCHANGED <<mode, of>>

Next ==
  \/ \E r \in Requests : Step(Handler(r) \/ Get(r))
  \/ \E k \in Links : Step(Accept(k) \/ EndLink(k) \/ Client(k))
  \/ Step(AcceptError)

Spec == Init /\ [][Next]_vars

\* A client that the server is waiting for, because it has begun a request or, on an
\* accepted TCP connection, has not: nothing limits that wait.
Awaited(k) ==
  /\ k \notin gone
  /\ \/ \E r \in On(k) : sent[r] = "part"
     \/ mode \in Tcp /\ link[k] = "open" /\ \A r \in On(k) : sent[r] = "no"

\* A forward has failed, or its connection was lost with the handler, or a handler
\* was dropped that may have been woken.
SlotUnannounced == \E r \in Requests : pc[r] \in {"error", "failed", "dropped", "leaked"}

\* The runtime polls what can run.  Pool::get returns as long as no forward has
\* failed: then a waiter need not be woken (Pool, GetReturns).  That a client
\* goes on with what it began, or leaves, is assumed; nobody who waits for an
\* answer has to leave.
FairSpec ==
  /\ Spec
  /\ \A r \in Requests : WF_vars(Step(Handler(r))) /\ WF_vars(Step(~SlotUnannounced /\ Get(r)))
  /\ \A k \in Links : WF_vars(Step(Accept(k))) /\ WF_vars(Step(EndLink(k)))
  /\ \A k \in Links : WF_vars(Step(Awaited(k) /\ Client(k)))

-----------------------------------------------------------------------------
TypeOK ==
  /\ mode \in Modes
  /\ of \in Layouts
  /\ alive \in BOOLEAN
  /\ link \in [Links -> {"waiting", "open", "closed"}]
  /\ gone \subseteq Links
  /\ sent \in [Requests -> {"no", "part", "all", "bad", "over", "reset"}]
  /\ pc \in [Requests -> {"none", "read", "get", "forward", "good", "odd", "error",
                          "done", "failed", "dropped", "leaked"}]
  /\ answer \in [Requests -> {"none", "response", "400", "502", "unavailable", "empty", "cut"}]
  /\ inflight \in Nat
  /\ slots \in 0 .. PoolSize

\* The gauge counts the handlers between next() and release(), and the pool the
\* connections in use; beyond them exactly what handlers took with them that were
\* dropped there or panicked in the exchange.  No error path, lost connection or
\* reset stream of a spawned handler leaves anything behind (proxy_http.rs:29-31,
\* 192-201, grpc_proxy.rs:35-54, quic_proxy/mod.rs:73-91, 189-203, pool.rs:97-107).
HeldExactly ==
  /\ inflight = In({"get", "forward", "dropped", "leaked"})
  /\ slots = IF UsesPool THEN In({"forward", "leaked"}) ELSE 0

\* When no handler runs any more the proxy holds nothing: the gauge is "requests
\* currently outstanding" (balancer.go:70), and no slot is taken.
NothingHeldWhenIdle ==
  In({"get", "forward"}) = 0 => inflight = 0 /\ slots = 0

\* r waits in Pool::get for a slot that was lost or not announced.
Stuck(r) == pc[r] = "get" /\ SlotUnannounced

\* A complete request of a client that stays is answered, or sees its stream end,
\* whatever the other connections, streams and forwards come to, as long as the
\* process runs; Pool::get is the only place where it may wait for ever
\* (main.rs:160-172, 224-237, quic_proxy/mod.rs:50-63, 135-156).
Answered ==
  \A r \in Requests :
    sent[r] = "all" /\ of[r] \notin gone ~> answer[r] # "none" \/ Gone(r) \/ ~alive \/ []Stuck(r)

\* No handler outlives its client for ever: it ends, though nothing tells it
\* that the client is gone (quic_proxy/mod.rs:55, 139).
HandlersEnd ==
  \A r \in Requests :
    pc[r] = "read" ~> pc[r] \in {"done", "failed", "dropped", "leaked"} \/ ~alive \/ []Stuck(r)
=============================================================================
