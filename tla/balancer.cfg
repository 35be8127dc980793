SPECIFICATION Spec
CONSTANTS
  t1 = t1  t2 = t2  t3 = t3  p1 = p1  p2 = p2
  Tasks = {t1, t2, t3}
  Settings <- Several
SYMMETRY Symmetry
\* A behaviour ends after its requests.
CHECK_DEADLOCK FALSE
INVARIANTS TypeOK InflightExact NothingLostByReset SpreadsEvenly LeastConnNearMinimum P2CAvoidsWorst
