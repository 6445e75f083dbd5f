CONSTANTS
  Facets <- MCFacets
  Detached <- MCDetached
  Binding <- MCBinding
  Fatal <- MCFatal
  MaxBoots = 2
  Order <- MCOrder
  AutoStart <- MCAuto
  Ipc <- MCIpc
  MaxSpawns = 2
  MaxHangs = 1
SPECIFICATION FairSpec
INVARIANTS ReadyIsFresh NothingLeftRunning OneWorker
PROPERTIES DeathIsNoticed
