SPECIFICATION Spec
CONSTANTS
  c1 = c1
  c2 = c2
  Conns = {c1, c2}
  MaxStreams = 2
  Modes = {"plain", "tls"}
INVARIANT InFlightComplete
CHECK_DEADLOCK FALSE
