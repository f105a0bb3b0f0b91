SPECIFICATION FairSpec
CONSTANTS
  c1 = c1
  c2 = c2
  c3 = c3
  Conns = {c1, c2, c3}
  MaxStreams = 2
  Modes = {"plain", "tls"}
INVARIANT TypeOK
PROPERTIES
  Isolated
  ShutdownReturns
  BacklogServed
CHECK_DEADLOCK FALSE
