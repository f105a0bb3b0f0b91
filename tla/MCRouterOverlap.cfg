SPECIFICATION Spec
CONSTANTS
  r1 = r1
  Db = Db
  none = none
  Parses <- MCParses
  Endpoints <- OverlapEndpoints
  StaticPrefixes = {}
  Prefixes = {}
  States = {}
  NoState = none
  Text <- MCText
  RequestMethods = {"GET"}
  RequestPaths <- MCPaths
  Sizes = {0}
  Limits = {1}
  Requests = {r1}
  MaxRoutes = 2
INVARIANTS RegisteredRouteReachable
