SPECIFICATION Spec
CHECK_DEADLOCK FALSE
CONSTANTS
  Rules = {x1, x2}
  MaxAge = 1
  CmdTTL = 2
  Cooldown = 1
  MaxTime = 4
  MaxCommands = 2
  MaxResponses = 2
  Results = {r1, r2}
  MaxIterations = 2
  Bands = {"Critical", "Isolated"}
  HasGuider = TRUE
  MaxRetries = 3
  IdleErrors = 2
  MaxFaults = 4
  Configured = FALSE
  MaxKeys = 4
INVARIANTS ManagementReachable ResponseSafe SessionSafe SignsWithFile
PROPERTIES CommandsKeepPromise RunsEnd SessionLives
