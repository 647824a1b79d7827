\* Commands whose arrays are full and commands whose arrays have room.
CONSTANTS
  None = None
  Drafts <- AllDrafts
  Targets <- TwoTargets
  Workers <- OneWorker
SPECIFICATION Spec
INVARIANTS
  ParsedAsWritten
  ConfigurationIsIntact
  JobFencesItsTarget
