SPECIFICATION Spec
CONSTANTS
  r1 = r1
  Db = Db
  none = none
  Parses <- MCParses
  Endpoints <- MCEndpoints
  StaticPrefixes <- StaticDirs
  Prefixes <- NestPrefixes
  States = {Db}
  NoState = none
  Text <- MCText
  RequestMethods = {"GET", "POST", "TRACE"}
  RequestPaths <- MCPaths
  Sizes = {0, 2}
  Limits = {1}
  Requests = {r1}
  MaxRoutes = 3
INVARIANTS
  TypeOK
  IndexComplete
  HandlerMatchesRequest
  ResolveMatchesScan
  MatchedPathExtracts
  StaticServesPath
