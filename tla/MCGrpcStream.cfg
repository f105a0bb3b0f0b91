SPECIFICATION FairSpec
CONSTANTS
  p1 = p1
  p2 = p2
  a = a
  bad = bad
  internal = internal
  Producers = {p1, p2}
  Items = {a, bad}
  Unserializable = {bad}
  Statuses = {internal}
  Buffer = 2
  MaxSends = 4
  Nothing = Nothing
  Empty = Empty
INVARIANTS
  TypeOK
  NothingLost
  OkMeansComplete
PROPERTIES
  TrailersLast
  KeepsPromise
  SendsReturn
  StreamEnds
CHECK_DEADLOCK FALSE
