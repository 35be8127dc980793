SPECIFICATION BurstSpec
CONSTANTS
  t1 = t1  t2 = t2  t3 = t3  t4 = t4
  c1 = c1  c2 = c2  c3 = c3
  Tasks <- ThreeTasks
  Conns <- TwoConns
  NoConn = NoConn
  MaxSize = 1
  Faults = {"forward"}
\* A burst ends.
CHECK_DEADLOCK FALSE
PROPERTIES BurstCompletes
