SPECIFICATION FairSpec
CONSTANTS
  c1 = c1  c2 = c2  c3 = c3  w1 = w1  w2 = w2  u1 = u1  u2 = u2
  Clients = {c1, c2, c3}
  Workers = {w1, w2}
  Upstreams = {u1, u2}
  QueueDepth = 2
  PoolSize = 1
  None = None
  Faults <- AllOrNoForward
\* A behaviour ends when every client is served, or the process has exited.
CHECK_DEADLOCK FALSE
INVARIANTS TypeOK OnePlaceEach InOrder GaugeMatchesWorkers
PROPERTIES EveryClientServed
