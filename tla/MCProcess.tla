----------------------------- MODULE MCProcess -----------------------------
(* Instances of Process for TLC. *)
EXTENDS Process, TLC

CONSTANTS r1, r2, c1, c2, c3

\* ":8080" and "0.0.0.0:8080" are the same port; "nonsense" does not resolve.
Ports == ":8080" :> 8080 @@ "0.0.0.0:8080" :> 8080 @@ ":9090" :> 9090 @@ ":6060" :> 6060 @@ ":22" :> 22

Variables == {"LISTEN_ADDR", "UPSTREAM_ADDRS", "UPSTREAM_ADDR", "PROXY_MODE", "LB_STRATEGY",
              "STATS_ADDR", "PPROF_ADDR", "TOKIO_METRICS_ADDR", "POOL_SIZE_PER_UPSTREAM",
              "WORKER_POOL_SIZE", "WORKER_QUEUE_DEPTH"}

Default == [v \in Variables |-> Unset] @@ ("tokio_unstable" :> FALSE)

AllModes == {"tcp-sync", "tcp-goroutine", "http2", "grpc", "pooled", "quic", "http3"}

\* Every mode (and a misspelt one) with every strategy and some lists of upstreams.
Selection ==
  {[Default EXCEPT !.PROXY_MODE = m, !.LB_STRATEGY = s, !.UPSTREAM_ADDRS = u, !.UPSTREAM_ADDR = v] :
     m \in AllModes \cup {"http"}, s \in {Unset, "round-robin", "least-conn", "p2c"},
     u \in {Unset, <<"">>, <<"a:1", "">>, <<"a:1", "b:1">>}, v \in {Unset, <<"c:1">>}}

\* The bounds of the pools and of the queue.
Bounds ==
  {[Default EXCEPT !.PROXY_MODE = m, !.POOL_SIZE_PER_UPSTREAM = p,
                   !.WORKER_POOL_SIZE = w, !.WORKER_QUEUE_DEPTH = q] :
     m \in {"tcp-goroutine", "grpc", "pooled"},
     p \in {0, 1, NotANumber}, w \in {0, 1, NotANumber}, q \in {0, 1, MaxPermits + 1, NotANumber}}

\* The addresses: free, shared, taken, malformed or empty.
Addresses ==
  {[Default EXCEPT !.PROXY_MODE = m, !.LB_STRATEGY = "least-conn", !.LISTEN_ADDR = l,
                   !.STATS_ADDR = s, !.TOKIO_METRICS_ADDR = t[1], !.tokio_unstable = t[2]] :
     m \in {"http2", "quic"}, l \in {Unset, "0.0.0.0:8080", ":22", "nonsense"},
     s \in {Unset, ":9090", ":8080", ":22", "nonsense"},
     t \in {<<"", TRUE>>, <<":9090", TRUE>>, <<"nonsense", TRUE>>, <<"nonsense", FALSE>>}}

\* With the profiling endpoint: its address free, while a request may end the process
\* for want of an upstream at any moment; shared with main, taken or malformed.
Profiling ==
  {[Default EXCEPT !.PPROF_ADDR = ":6060", !.UPSTREAM_ADDRS = <<"">>]}
  \cup {[Default EXCEPT !.PPROF_ADDR = a, !.STATS_ADDR = ":6060"] : a \in {":8080", ":22", "nonsense"}}

ManyEnvs == Selection \cup Bounds \cup Addresses \cup Profiling

\* Two choices of one upstream.
P2COfOne == {[Default EXCEPT !.LB_STRATEGY = "p2c"]}
=============================================================================
