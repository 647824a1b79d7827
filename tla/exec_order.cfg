SPECIFICATION Spec
CONSTANTS
  r1 = r1  r2 = r2  j1 = j1  j2 = j2  n1 = n1  n2 = n2
  c1 = c1  c2 = c2  m1 = m1  m2 = m2
  None = None  Bad = Bad  NoKey = NoKey
  Requests = {r1}
  Jobs = {j1, j2}
  Nodes = {n1}
  ConfigMaps = {c1}
  Methods = {m1, m2}
  Contents <- JustGeneral
  Buildable <- AllPairs
  InitialData <- OneMap
  Edits = {}
  AnyAnswer = FALSE
  Faults = {"podFails"}
  MaxFaults = 2
  MaxUpdates = 2
CHECK_DEADLOCK FALSE
PROPERTIES
  TriesMethodsInOrder
