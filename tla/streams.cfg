SPECIFICATION FairSpec
CONSTANTS
  k1 = k1  k2 = k2  r1 = r1  r2 = r2
  Links = {k1, k2}
  Requests = {r1, r2}
  Layouts <- SharedOrOwn
  Modes = {"tcp-sync", "tcp-goroutine", "http2", "grpc", "quic", "http3"}
  Outcomes = {"good", "odd", "error", "panic"}
  PoolSize = 1
\* A behaviour ends when the clients are served, or the process has exited.
CHECK_DEADLOCK FALSE
INVARIANTS TypeOK HeldExactly
PROPERTIES Answered HandlersEnd
