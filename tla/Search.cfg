SPECIFICATION Spec
CONSTANTS
  p = p
  q = q
  Terms = {p, q}
  NDocs = 4
  BlockSize = 2
  Idf <- MCIdf
  Freqs = {0, 1, 3}
  Lengths <- MCLengths
  Ks = {1, 2}
  Tombstones <- MCTombstones
  Elsewhere <- MCElsewhere
  Scale = 100
INVARIANTS SameAsExhaustive ScoresAreFull TurnsBounded
CHECK_DEADLOCK FALSE
