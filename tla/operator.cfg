SPECIFICATION FairOperatorSpec
CONSTANTS
  r1 = r1  r2 = r2  j1 = j1  n1 = n1  n2 = n2  c1 = c1  m1 = m1  p1 = p1
  None = None  Bad = Bad  NoKey = NoKey
  Requests = {r1}
  Jobs = {j1}
  Nodes = {n1}
  ConfigMaps = {c1}
  Methods = {m1}
  Contents <- JustSingle
  Buildable <- AllPairs
  InitialData <- OneMap
  Edits = {}
  AnyAnswer = TRUE
  Faults = {"crash"}
  MaxFaults = 1
  MaxUpdates = 1
  Problems = {}
  Changes = {"False", "Unknown"}
  Reports = {}
  DirtyNodes = {}
  Refusable = {}
  MaxRefusals = 0
  MaxLosses = 1
CHECK_DEADLOCK FALSE
INVARIANTS
  OnlySuspectsAreFenced
PROPERTIES
  ImplementsExecutioner
  ImplementsWatcher
  LossIsActedOn
