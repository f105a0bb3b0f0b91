SPECIFICATION Spec
CONSTANTS
  p1 = p1
  p2 = p2
  a = a
  bad = bad
  internal = internal
  Producers = {p1, p2}
  Items = {a, bad}
  Unserializable = {bad}
  Statuses = {internal}
  Buffer = 2
  MaxSends = 4
  Nothing = Nothing
  Empty = Empty
INVARIANT ErrorReachesClient
CHECK_DEADLOCK FALSE
