SPECIFICATION Spec
CONSTANTS
  k1 = k1  k2 = k2  r1 = r1  r2 = r2
  Links = {k1, k2}
  Requests = {r1, r2}
  Layouts <- SharedOrOwn
  Modes = {"grpc"}
  Outcomes = {"good", "error"}
  PoolSize = 1
\* A behaviour ends when the clients are served.
CHECK_DEADLOCK FALSE
INVARIANTS NothingHeldWhenIdle
