SPECIFICATION Spec
CONSTANTS
  a = a
  b = b
  s1 = s1
  s2 = s2
  s3 = s3
  v1 = v1
  v2 = v2
  None = None
  Urls = {a}
  Slots = {s1, s2, s3}
  MaxConcurrent = 2
  MaxAttempts = 2
  Versions = {v1, v2}
  NoIndex = {v2}
  Offers = 3
INVARIANTS ReferencesHaveBlob TasksPerOffer
PROPERTIES StopEnds
