SPECIFICATION FairSpec
CONSTANTS
  t1 = t1  t2 = t2  t3 = t3  t4 = t4
  c1 = c1  c2 = c2  c3 = c3
  Tasks <- FourTasks
  Conns <- ThreeConns
  NoConn = NoConn
  MaxSize = 2
  Faults = {"dial", "forward"}
\* Every goroutine can end up blocked (see run gopool_stuck_get).
CHECK_DEADLOCK FALSE
INVARIANTS TypeOK SlotsBounded NoSlotLost BlocksOnlyIfExhausted
PROPERTIES ImplementsBoundedPool BlockedIsServed
