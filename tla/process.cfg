SPECIFICATION FairSpec
CONSTANTS
  r1 = r1  r2 = r2  c1 = c1  c2 = c2  c3 = c3
  Unset = Unset  NotANumber = NotANumber  None = None
  Resolve <- Ports
  Taken = {22}
  MaxPermits = 256
  Requests = {r1, r2}
  Curls = {c1, c2, c3}
  Envs <- ManyEnvs
\* A behaviour ends when the requests are handled, or the process is over.
CHECK_DEADLOCK FALSE
INVARIANTS TypeOK ExitsOnlyIf PanicsOnlyIf ConflictOnlyAfterLeaving
PROPERTIES  CurlsAnswered
