CONSTANTS
  p1 = p1
  p2 = p2
  a = a
  b = b
  None = None
  Layouts <- MCLayouts
  Slots = {a, b}
  Processes = {p1, p2}
  Replies = {"open", "error"}
  DnsTtl = 1
  DnsNegativeTtl = 1
  DnsTimeout = 1
  RobotsTtl = 2
  RobotsNegativeTtl = 1
  TotalTimeout = 2
SPECIFICATION FairSpec
INVARIANTS CollapsedLookups RulesLiveTwice
PROPERTIES GateEnds
