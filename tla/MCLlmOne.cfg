SPECIFICATION FairSpec

CONSTANTS
  ollama = ollama
  cloud = cloud
  Callers = {t1}
  Providers <- MCProviders
  Names <- MCNames
  Chains <- MCChains
  FailureThreshold = 2
  Cooldown = 1
  LockoutOpens = 2
  Lockout = 2
  MaxOpens = 3


INVARIANTS
  ClosedBelowThreshold
PROPERTIES
  CoolingIsLeftAlone
  LockoutLasts
  OutageEnds
