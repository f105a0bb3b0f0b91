SPECIFICATION Spec
CONSTANTS
  r1 = r1
  r2 = r2
  GetUser = GetUser
  ListUsers = ListUsers
  auth = auth
  audit = audit
  Requests = {r1}
  Methods = {GetUser, ListUsers}
  Unknown = Unknown
  RestHandlers = {GetUser, ListUsers}
  WithCaptures = {GetUser}
  Extractor <- MCMixed
  DirectPaths = {GetUser}
  Middlewares = {auth}
  Transcoders <- MCBoolean
  HttpStatuses <- MCHttpStatuses
  MaxMiddleware = 1
  Nothing = Nothing
  Stream = Stream
  Rejected = Rejected
INVARIANT MiddlewareAlwaysRuns
CHECK_DEADLOCK FALSE
