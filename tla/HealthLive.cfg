SPECIFICATION FairSpec
CONSTANTS
  Checks = {k1}
  GapIds = {g1, g2, g3}
  Sweeps = {s1}
  Custom = TRUE
  Detector = detector
  None = None
  FAILING_THRESHOLD = 2
  MaxFaults = 1
PROPERTIES LateRunsAreNoticed OverdueOpensGap
