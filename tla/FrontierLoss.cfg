SPECIFICATION CrashSpec
CONSTANTS
  hA = hA
  hB = hB
  a1 = a1
  a2 = a2
  b1 = b1
  wX = wX
  wY = wY
  x1 = x1
  x2 = x2
  y1 = y1
  None = None
  Hosts = {hA, hB}
  Urls = {a1}
  HostOf <- MCHostOf
  PriorityOf <- MCPriorityOf
  Workers = {wX, wY}
  Slots = {x1, y1}
  WorkerOf <- MCWorkerOf
  QueueCap = 2
  LeaseDelay = 1
  LeaseTTL = 1
  Delays = {1}
  Admissions = 1
  MaxLag = 1
  MaxAge = 1
INVARIANTS ExpiryReturnsUrl
