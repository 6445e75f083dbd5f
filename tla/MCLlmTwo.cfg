SPECIFICATION Spec

CONSTANTS
  ollama = ollama
  cloud = cloud
  Callers = {t1, t2, t3}
  Providers <- LocalOnly
  Names <- LocalName
  Chains <- LocalChain
  FailureThreshold = 2
  Cooldown = 1
  LockoutOpens = 2
  Lockout = 2
  MaxOpens = 3

SYMMETRY Interchangeable

INVARIANTS
  SlotIsHeld
  OneProbe
