SPECIFICATION FairSpec
CONSTANTS
  t1 = t1  t2 = t2  t3 = t3  t4 = t4
  c1 = c1  c2 = c2  c3 = c3
  Tasks = {t1, t2, t3, t4}
  Conns = {c1, c2, c3}
  NoConn = NoConn
  MaxSize = 2
  Scenarios <- BurstAndFaults
\* A burst ends when every request is done.
CHECK_DEADLOCK FALSE
INVARIANTS TypeOK SlotsBounded SlotsCovered NoSlotLost PutFindsRoom WakerOnItsWay
PROPERTIES ImplementsBoundedPool HealthyBurstCompletes
