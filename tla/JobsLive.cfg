SPECIFICATION FairSpec
CONSTANTS
  Connections = {c1, c2}
  CustomConnections = {}
  JobIds = {j1, j2}
  Executions = {e1, e2}
  Ticks = {t1}
  Requests = {}
  None = None
  Priorities = {10}
  MAX_CONCURRENT_JOBS = 1
  MAX_RETRIES = 3
  MaxUpstreamFailures = 1
  MaxFaults = 0
  PromptDatabase = TRUE
INVARIANT WithinConcurrencyLimit
PROPERTY EveryJobSettles
CHECK_DEADLOCK FALSE
