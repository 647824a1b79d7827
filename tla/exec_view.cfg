SPECIFICATION FairSpec
CONSTANTS
  r1 = r1  r2 = r2  j1 = j1  j2 = j2  n1 = n1  n2 = n2
  c1 = c1  c2 = c2  m1 = m1  m2 = m2
  None = None  Bad = Bad  NoKey = NoKey
  Requests = {r1}
  Jobs = {}
  Nodes = {n1}
  ConfigMaps = {c1}
  Methods = {m1, m2}
  Contents <- GeneralOrEmpty
  Buildable <- AllPairs
  InitialData <- OneMap
  Edits <- AllEdits
  AnyAnswer = FALSE
  Faults = {"crash", "mapRace"}
  MaxFaults = 1
  MaxUpdates = 1
CHECK_DEADLOCK FALSE
INVARIANTS
  ViewIsCurrent
PROPERTIES
  PanicsAreExplained
  ConfigViewConverges
