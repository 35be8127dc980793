------------------------------ MODULE Startup ------------------------------
(***************************************************************************)
(* What the environment makes of the process: config.rs reads it, main.rs  *)
(* starts the side servers and then the proxy itself.  A side server binds *)
(* its address in a task of its own, while main goes on; a failure there   *)
(* is logged, a failure of main's own steps ends the process.              *)
(*                                                                         *)
(* The requests that follow show which settings the proxy can serve under, *)
(* and what it survives that no setting decides (mishaps).  What a handler *)
(* does beyond that is in StreamServer and PooledServer.                   *)
(***************************************************************************)
EXTENDS Integers, Sequences, FiniteSets

CONSTANTS
  Envs,        \* the environments considered: records of variables
  Unset,       \* the value of a variable that is not set
  NotANumber,  \* a value that does not parse as usize
  Resolve,     \* Resolve[a]: the port that address a, if well formed, stands for
  Taken,       \* ports that other processes listen on
  MaxPermits,  \* the deepest queue that mpsc::channel accepts
  Requests     \* client requests

Sides == {"pprof", "stats", "metrics"}
NamedModes == {"tcp-goroutine", "http2", "grpc", "pooled", "quic", "http3"}

ASSUME StartupAssumption ==
  /\ Unset \notin Nat \cup NamedModes /\ NotANumber \notin Nat
  /\ "" \notin DOMAIN Resolve
  /\ MaxPermits \in Nat /\ MaxPermits >= 256
  /\ \A e \in Envs : /\ e.UPSTREAM_ADDRS = Unset \/ IsFiniteSet(DOMAIN e.UPSTREAM_ADDRS)
                     /\ e.UPSTREAM_ADDR = Unset \/ IsFiniteSet(DOMAIN e.UPSTREAM_ADDR)

VARIABLES
  env,      \* the environment of this process
  phase,    \* where main is; "exited" and "panicked" end the process
  side,     \* side[s]: "off", "spawned", "up" or "failed"
  bound,    \* the TCP ports this process listens on
  workers,  \* pooled: workers in their loop and free
  req,      \* req[r]: what has become of request r
  mishaps   \* history: what has gone wrong, of Mishaps

startVars == <<env, phase, side, bound, workers, req, mishaps>>

\* No TLS configuration could be made, main's accept() failed, a message announced
\* a body longer than a Vec can be, an upstream's response is none that http's
\* Builder takes.
Mishaps == {"tls", "accept", "length", "header"}

-----------------------------------------------------------------------------
(* Plausible mistakes, each of which some property must catch.              *)

\* A value that is set is used, parsed or not.
EnvIntUnchecked(v, d) == IF v = Unset THEN d ELSE v

\* A value that does not parse counts as 0.
EnvIntOrZero(v, d) == IF v = Unset THEN d ELSE IF v \in Nat THEN v ELSE 0


\* A side server that cannot bind ends main.
SideFailureFatal == "exited"

-----------------------------------------------------------------------------
(* config.rs *)

EnvOr(v, d) == IF v = Unset THEN d ELSE v

EnvInt(v, d) == IF v \in Nat THEN v ELSE d

\* Empty parts are dropped, so a variable that is set and empty means no upstream.
\* Of the list that is left only its length matters here: the parts that are kept,
\* by their position.
SplitAddrs(parts) == {i \in DOMAIN parts : parts[i] # ""}

ParseMode(s) == IF s \in NamedModes THEN s ELSE "tcp-sync"

cfg ==
  [listen_addr            |-> EnvOr(env.LISTEN_ADDR, ":8080"),
   upstream_addrs         |-> SplitAddrs(EnvOr(env.UPSTREAM_ADDRS,
                                               EnvOr(env.UPSTREAM_ADDR, <<"upstream:9000">>))),
   mode                   |-> ParseMode(EnvOr(env.PROXY_MODE, "tcp-sync")),
   lb_strategy            |-> EnvOr(env.LB_STRATEGY, ""),
   addr                   |-> [stats   |-> EnvOr(env.STATS_ADDR, ""),
                               pprof   |-> EnvOr(env.PPROF_ADDR, ""),
                               metrics |-> EnvOr(env.TOKIO_METRICS_ADDR, "")],
   pool_size_per_upstream |-> EnvInt(env.POOL_SIZE_PER_UPSTREAM, 16),
   worker_pool_size       |-> EnvInt(env.WORKER_POOL_SIZE, 64),
   worker_queue_depth     |-> EnvInt(env.WORKER_QUEUE_DEPTH, 256)]

-----------------------------------------------------------------------------
(* new_selector, as far as main and its first call of next() depend on it *)

Counting == {"round-robin", "least-conn", "p2c"}

HasStats == cfg.lb_strategy \in Counting

\* A plausible mistake: every selector draws like p2c.
AlwaysTwo == 2

\* Round robin divides by the number of upstreams, least-conn reads the first
\* gauge, p2c draws the second of two: next() panics where there are too few.
Needed == IF cfg.lb_strategy = "p2c" THEN 2 ELSE 1

SelectorPanics == Cardinality(cfg.upstream_addrs) < Needed

-----------------------------------------------------------------------------
StartInit ==
  /\ env \in Envs
  /\ phase = "pprof"
  /\ side = [s \in Sides |-> "off"]
  /\ bound = {}
  /\ workers = 0
  /\ req = [r \in Requests |-> "new"]
  /\ mishaps = {}

Running == phase \notin {"exited", "panicked"}

\* Is side server s configured, and built, to run?
Wanted(s) ==
  /\ cfg.addr[s] # ""
  /\ s = "stats" => HasStats
  /\ s = "metrics" => env.tokio_unstable

\* main spawns side server s, or goes past it.  An address that does not parse
\* is main's own failure.
StartSide(s, next) ==
  /\ phase = s
  /\ \/ ~Wanted(s) /\ phase' = next /\ UNCHANGED side
     \/ /\ Wanted(s) /\ cfg.addr[s] \in DOMAIN Resolve
        /\ phase' = next
        /\ side' = [side EXCEPT ![s] = "spawned"]
     \/ /\ Wanted(s) /\ cfg.addr[s] \notin DOMAIN Resolve
        /\ phase' = "exited" /\ UNCHANGED side
  /\ UNCHANGED <<env, bound, workers, req, mishaps>>

\* What the failure of a side server does to main: it is logged.
AfterSideFailure == phase

\* The task of side server s binds its address, ...
BindSide(s) ==
  /\ Running /\ side[s] = "spawned"
  /\ LET p == Resolve[cfg.addr[s]] IN
       \/ /\ p \notin bound \cup Taken
          /\ side' = [side EXCEPT ![s] = "up"]
          /\ bound' = bound \cup {p}
          /\ UNCHANGED phase
       \/ /\ p \in bound \cup Taken
          /\ side' = [side EXCEPT ![s] = "failed"]
          /\ phase' = AfterSideFailure
          /\ UNCHANGED bound
  /\ UNCHANGED <<env, workers, req, mishaps>>

\* ... and ends when its accept() fails.
SideAcceptError(s) ==
  /\ Running /\ side[s] = "up"
  /\ side' = [side EXCEPT ![s] = "failed"]
  /\ bound' = bound \ {Resolve[cfg.addr[s]]}
  /\ phase' = AfterSideFailure
  /\ UNCHANGED <<env, workers, req, mishaps>>

Udp == cfg.mode \in {"quic", "http3"}
UsesPool == cfg.mode \in {"grpc", "pooled", "quic", "http3"}

\* Can main have its listen address?  A UDP port does not collide with the side
\* servers' TCP ports.
CanListen ==
  /\ cfg.listen_addr \in DOMAIN Resolve
  /\ Resolve[cfg.listen_addr] \notin Taken \cup IF Udp THEN {} ELSE bound

\* mpsc::channel panics for a queue of no place, and of more than a semaphore has.
QueueRefused == cfg.mode = "pooled" /\ cfg.worker_queue_depth \notin 1 .. MaxPermits

\* main binds the listen address and enters the loop of its mode; serve_pooled
\* creates its queue first.
ListenTcp ==
  /\ phase = "listen" /\ ~Udp
  /\ \/ /\ CanListen
        /\ phase' = IF QueueRefused THEN "panicked" ELSE "serving"
        /\ bound' = bound \cup {Resolve[cfg.listen_addr]}
        /\ workers' = IF cfg.mode = "pooled" THEN cfg.worker_pool_size ELSE 0
     \/ /\ ~CanListen
        /\ phase' = "exited"
        /\ UNCHANGED <<bound, workers>>
  /\ UNCHANGED <<env, side, req, mishaps>>

\* serve_quic_mode and serve_http3_mode: the address is parsed, the certificate
\* and its configuration are made, the endpoint binds a UDP port.
ListenUdp ==
  /\ phase = "listen" /\ Udp
  /\ \/ /\ phase' = IF CanListen THEN "serving" ELSE "exited"
        /\ UNCHANGED mishaps
     \/ /\ cfg.listen_addr \in DOMAIN Resolve
        /\ phase' = "exited"
        /\ mishaps' = mishaps \cup {"tls"}
  /\ UNCHANGED <<env, side, bound, workers, req>>

\* main's own accept() fails, or the QUIC endpoint is lost, and main returns.  tonic
\* goes on after a failed accept().
AcceptError ==
  /\ phase = "serving" /\ cfg.mode # "grpc"
  /\ phase' = "exited"
  /\ mishaps' = mishaps \cup {"accept"}
  /\ UNCHANGED <<env, side, bound, workers, req>>

\* Is a worker gone from its loop after this outcome?
WorkerGone(outcome) == outcome # "answered"

\* What the end of a request's handler does.  A panic ends the task it happens in:
\* main's own in tcp-sync, a worker for good in pooled, else the request's.
Finish(r, outcome) ==
  /\ phase = "serving" /\ req[r] = "new"
  /\ cfg.mode = "pooled" => workers > 0
  /\ req' = [req EXCEPT ![r] = outcome]
  /\ phase' = IF outcome = "lost" /\ cfg.mode = "tcp-sync" THEN "panicked" ELSE phase
  /\ workers' = IF cfg.mode = "pooled" /\ WorkerGone(outcome) THEN workers - 1 ELSE workers
  /\ UNCHANGED <<env, side, bound>>

\* A pool of size 0 never yields a connection, and keeps the worker that waits.
PoolStuck == UsesPool /\ cfg.pool_size_per_upstream = 0

\* A request is handled to its end: next() panics, the pool never yields, or the
\* client has what came of the forward.
Handle(r) ==
  /\ Finish(r, IF SelectorPanics THEN "lost" ELSE IF PoolStuck THEN "stuck" ELSE "answered")
  /\ UNCHANGED mishaps

\* The handler reads HTTP/1.1 from its client itself.
ReadsHttp1 == cfg.mode \in {"tcp-sync", "tcp-goroutine", "pooled"}

\* vec![0; n] panics for a length n that the client announces, before next(), or
\* the upstream, after it; a response that Builder refuses panics in http2 and
\* ends the handler of http3.
Mishap(r, what) ==
  /\ what = "length" => ReadsHttp1 \/ ~(SelectorPanics \/ PoolStuck)
  /\ what = "header" => cfg.mode \in {"http2", "http3"} /\ ~(SelectorPanics \/ PoolStuck)
  /\ Finish(r, "lost")
  /\ mishaps' = mishaps \cup {what}

MainStep ==
  \/ StartSide("pprof", "stats") \/ StartSide("stats", "metrics")
  \/ StartSide("metrics", "listen") \/ ListenTcp \/ ListenUdp

StartNext ==
  \/ MainStep
  \/ \E s \in Sides : BindSide(s) \/ SideAcceptError(s)
  \/ AcceptError
  \/ \E r \in Requests : Handle(r) \/ \E what \in {"length", "header"} : Mishap(r, what)

-----------------------------------------------------------------------------
StartTypeOK ==
  /\ phase \in Sides \cup {"listen", "serving", "exited", "panicked"}
  /\ side \in [Sides -> {"off", "spawned", "up", "failed"}]
  /\ bound \subseteq {Resolve[a] : a \in DOMAIN Resolve}
  /\ workers \in Nat
  /\ req \in [Requests -> {"new", "answered", "lost", "stuck"}]
  /\ mishaps \subseteq Mishaps

\* The addresses of an environment that cannot hurt: each one set resolves, and
\* the listen address is nobody else's, nor (over TCP) a side server's.
AddressesOk ==
  LET listen == IF env.LISTEN_ADDR = Unset THEN ":8080" ELSE env.LISTEN_ADDR
      others == {env.STATS_ADDR, env.PPROF_ADDR, env.TOKIO_METRICS_ADDR} \ {Unset, ""}
  IN  /\ others \cup {listen} \subseteq DOMAIN Resolve
      /\ Resolve[listen] \notin Taken
      /\ env.PROXY_MODE \in {"quic", "http3"} \/ \A a \in others : Resolve[a] # Resolve[listen]

\* Enough upstreams for the strategy.
UpstreamsOk ==
  LET list == IF env.UPSTREAM_ADDRS # Unset THEN env.UPSTREAM_ADDRS
              ELSE IF env.UPSTREAM_ADDR # Unset THEN env.UPSTREAM_ADDR
              ELSE <<"upstream:9000">>
      good == {i \in DOMAIN list : list[i] # ""}
  IN  \E i \in good : env.LB_STRATEGY = "p2c" => \E j \in good : i # j

\* No bound of 0 in the modes that have it, nor a queue that is too deep.
QueueOk == env.WORKER_QUEUE_DEPTH \in Nat => env.WORKER_QUEUE_DEPTH \in 1 .. MaxPermits

BoundsOk ==
  /\ env.PROXY_MODE \in {"grpc", "pooled", "quic", "http3"} => env.POOL_SIZE_PER_UPSTREAM # 0
  /\ env.PROXY_MODE = "pooled" => env.WORKER_POOL_SIZE # 0 /\ QueueOk

\* The process exits for its addresses, for want of a TLS configuration where it
\* has one, or when its own accept() fails, and never in grpc mode for the latter:
\* no side server that cannot bind or that fails later takes the proxy down,
\* whenever its task gets to run (main.rs:40-59, 161, 207, 225, 268, 285,
\* quic_proxy/mod.rs:32, 113).
ExitsOnlyIf ==
  phase = "exited" =>
    \/ ~AddressesOk
    \/ env.PROXY_MODE \in {"quic", "http3"} /\ "tls" \in mishaps
    \/ env.PROXY_MODE # "grpc" /\ "accept" \in mishaps

\* A panic ends the process in two modes only: in pooled for the depth of its
\* queue, in tcp-sync with too few upstreams for the strategy or a body longer than
\* a Vec can be.  No request is lost but for one of these, or a response that
\* Builder refuses (balancer.rs:62, 132, 167, 215, main.rs:185, proxy_http.rs:121,
\* 223, dial.rs:126, quic_proxy/mod.rs:217).
PanicsOnlyIf ==
  /\ phase = "panicked" =>
       \/ env.PROXY_MODE = "pooled" /\ ~QueueOk
       \/ ParseMode(env.PROXY_MODE) = "tcp-sync" /\ (~UpstreamsOk \/ "length" \in mishaps)
  /\ (\E r \in Requests : req[r] = "lost") =>
       \/ ~UpstreamsOk \/ "length" \in mishaps
       \/ env.PROXY_MODE \in {"http2", "http3"} /\ "header" \in mishaps


\* No setting makes a handler panic: HandleConn "never panics or exits the
\* caller's accept loop on error" (handler.go:20-21).
NeverPanics == phase = "panicked" => mishaps # {}
=============================================================================
