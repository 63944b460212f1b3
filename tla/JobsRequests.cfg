SPECIFICATION Spec
CONSTANTS
  Connections = {c1}
  CustomConnections = {}
  JobIds = {j1, j2}
  Executions = {e1, e2}
  Ticks = {t1}
  Requests = {r1}
  None = None
  Priorities = {0}
  MAX_CONCURRENT_JOBS = 2
  MAX_RETRIES = 3
  MaxUpstreamFailures = 1
  MaxFaults = 0
  PromptDatabase = TRUE
SYMMETRY Interchangeable
INVARIANTS
  RunningIsOwned
  StatusAgreesWithRuns
PROPERTY FinishedIsFinal
CHECK_DEADLOCK FALSE
