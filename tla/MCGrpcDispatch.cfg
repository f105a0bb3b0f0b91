SPECIFICATION FairSpec
CONSTANTS
  r1 = r1
  r2 = r2
  GetUser = GetUser
  ListUsers = ListUsers
  auth = auth
  audit = audit
  Requests = {r1}
  Methods = {GetUser, ListUsers}
  Unknown = Unknown
  RestHandlers = {GetUser, ListUsers}
  WithCaptures = {GetUser}
  Extractor <- MCMixed
  DirectPaths = {GetUser, Unknown}
  Middlewares = {auth, audit}
  Transcoders <- MCBoolean
  HttpStatuses <- MCHttpStatuses
  MaxMiddleware = 2
  Nothing = Nothing
  Stream = Stream
  Rejected = Rejected
INVARIANTS
  TypeOK
  NoFalseOk
  MiddlewareRuns
PROPERTY DeadlineEnforced
CHECK_DEADLOCK FALSE
