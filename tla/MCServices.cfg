CONSTANTS
  Statuses = {"s404", "s503"}
  Configs <- MCConfigs
  MaxCalls = 2
  Nodes = {"a", "b", "r", "c", "d", "e", "f", "v", "z"}
  Protocol <- MCProtocol
  Entry = "a"
  Messages = {"auth", "hello"}
  Window = 2
  Sockets = {c1, c2, c3}
  Nicknames = {"ann", "bob"}
  MaxMessages = 3
  Capacity = 1
  Requests = 5
  Limit = 2
  Workers = {w1, w2}
  PoolSize = 2
  Usernames = {n1, n2}
  Slugs = {s1, s2}
  TagNames = {t1}
  Rounds = 1
  Characters = {"lf", "cr", "x", "n", "1", "c"}
  Events <- MCEvents
  MaxEvents = 3
  Interval = 2
  Clients = {k1, k2}
  MaxOrders = 3
  Backlog = 1
  Batch = 2
SPECIFICATION ServicesSpec
INVARIANTS
  ServicesTypeOK
  AnswersHonest
  SessionInStep
  StreamsInOrder
  SharedStateWhole
PROPERTIES
  NothingTakenBack
  EverythingEnds
CHECK_DEADLOCK FALSE
