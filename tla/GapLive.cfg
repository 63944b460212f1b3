SPECIFICATION EscalationFairSpec
CONSTANTS
  g1 = g1
  g2 = g2
  g3 = g3
  t1 = t1
  t2 = t2
  p1 = p1
  GapIds = {g1, g2, g3}
  MaterialGaps = {g1, g3}
  Tenants = {t1, t2}
  Providers = {p1}
  TenantOf <- MCTenantOf
  ProviderOf <- MCProviderOf
  Adopters = {t1}
  Reasons = {r1, r2}
  None = None
  PLATFORM_OUTAGE_MIN_TENANTS = 2
  PLATFORM_OUTAGE_REASON_RATIO = 80
  MaxLosses = 2
INVARIANTS LossesBoundDuplicates WeaknessExists
PROPERTIES RipeGapsAreEscalated MaterialGapsAreRaised
CHECK_DEADLOCK FALSE
