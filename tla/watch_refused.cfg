SPECIFICATION FairSpec
CONSTANTS
  n1 = n1  n2 = n2  r1 = r1  r2 = r2  r3 = r3  p1 = p1  None = None
  Nodes = {n1}
  Requests = {r1, r2, r3}
  Problems = {}
  Changes = {"True", "False", "Unknown", "deleted"}
  Reports <- SomeReports
  DirtyNodes = {}
  AnyAnswer = FALSE
  Refusable = {"createRequest"}
  MaxRefusals = 1
  MaxLosses = 1
CHECK_DEADLOCK FALSE
PROPERTIES
  LossGetsRequest
