SPECIFICATION FairSpec
CONSTANTS
  Jobs = {j1}
  Instances = {i1, i2}
  Handlers = {h1, h2}
  Questionnaires = {q1, q2}
  None = None
  MaxMessages = 2
  VisibilityTimeout = 1
  STALE_RUNNING = 3
  STALE_PENDING = 4
  PromptHandlers = FALSE
  MaxFaults = 2
  MaxRedeliveries = 1
INVARIANTS ImportedOnce ImportedIsWhole
PROPERTIES ImportedIsFinal EveryImportSettles
