SPECIFICATION MCSpec
CONSTANTS
  a1 = a1
  a2 = a2
  a3 = a3
  once = once
  twice = twice
  dA = dA
  c1 = c1
  c2 = c2
  None = None
  Callers = {c1, c2}
  Urls = {a1, a2, a3}
  Spellings = {a1, a2, a3, twice}
  Canonical <- MCCanonical
  Sites = {dA}
  SiteOf <- MCSiteOf
  BitsOf <- MCBitsOf
  Limit <- MCLimit
  QueueCap = 2
  MaxBatch = 2
  Hex <- MCHex
  UpperOf <- MCUpperOf
  OctetOf <- MCOctetOf
  Unreserved <- MCUnreserved
  Unsafe <- MCUnsafe
  DigitsOf <- MCDigitsOf
  Texts <- MCTexts
SYMMETRY MCSymmetry
INVARIANTS FilteredIsQueued AdmittedPerCaller BudgetBound WindowWillEnd CanonicalIsStable SpellingsAgree
