SPECIFICATION Spec
CONSTANTS
  dA = dA
  dB = dB
  i1 = i1
  i2 = i2
  s1 = s1
  s2 = s2
  None = None
  Domains = {dA, dB}
  Ips = {i1, i2}
  Slots = {s1, s2}
  Cost = 2
  Burst = 2
  IpFactor = 1
  MinRate = 1
  InitialRate = 2
  MaxRate = 2
  Increase = 1
  Streak = 1
  BucketTTL = 2
  MaxPause = 1
  RetryAfters = {0, 1}
  DefaultPause = 2
  Ceilings = {1}
SYMMETRY MCSymmetry
INVARIANTS WithinMaxRate GuaranteedRate
