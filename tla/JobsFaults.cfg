SPECIFICATION Spec
CONSTANTS
  Connections = {c1, c2}
  CustomConnections = {c2}
  JobIds = {j1, j2}
  Executions = {e1, e2}
  Ticks = {t1}
  Requests = {}
  None = None
  Priorities = {0}
  MAX_CONCURRENT_JOBS = 2
  MAX_RETRIES = 3
  MaxUpstreamFailures = 1
  MaxFaults = 1
  PromptDatabase = TRUE
SYMMETRY Interchangeable
INVARIANTS
  TypeOK
  OneExecutionPerJob
  SlotsAccounted
  EvidenceOnce
  RunHistory
PROPERTIES
  PoolSpec
CHECK_DEADLOCK FALSE
