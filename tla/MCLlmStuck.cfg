SPECIFICATION FairSpec

CONSTANTS
  ollama = ollama
  cloud = cloud
  Callers = {t1, t2}
  Providers <- LocalOnly
  Names <- LocalName
  Chains <- LocalChain
  FailureThreshold = 1
  Cooldown = 1
  LockoutOpens = 3
  Lockout = 2
  MaxOpens = 3


PROPERTIES
  OutageEnds
