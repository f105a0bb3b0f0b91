SPECIFICATION FairSpec
CONSTANTS
  c1 = c1
  c2 = c2
  unavailable = unavailable
  not_found = not_found
  Callers <- MCCallers
  Codes <- MCCodes
  RetryOn <- MCRetryOn
  Configs <- MCConfigs
  U32 = 4
  Threshold = 2
  ResetTimeout = 2
  MaxFailures = 5
INVARIANTS TypeOK BreakerCoherent RetryDiscipline
PROPERTIES LeaveOpen Recovers CallsReturn
