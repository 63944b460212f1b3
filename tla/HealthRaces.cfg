SPECIFICATION Spec
CONSTANTS
  Checks = {k1}
  GapIds = {g1, g2, g3, g4}
  Sweeps = {s1, s2}
  Custom = FALSE
  Detector = detector
  None = None
  FAILING_THRESHOLD = 3
  MaxFaults = 1
SYMMETRY Interchangeable
INVARIANT HealthMatchesFailures
PROPERTY SuccessClosesGaps
