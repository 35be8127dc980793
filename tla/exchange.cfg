SPECIFICATION FairSpec
CONSTANTS
  r1 = r1  r2 = r2  r3 = r3
  c1 = c1  c2 = c2  c3 = c3
  Requests <- ThreeRequests
  Conns <- ThreeConns
  None = None
  Shapes = {"sized"}
  MaxSize = 2
\* A behaviour ends when every request is over.
CHECK_DEADLOCK FALSE
INVARIANTS TypeOK OwnAnswer BodyUnlessCut OneFailurePerClose
PROPERTIES EveryForwardEnds
