CONSTANTS
  ByteBits = 3
  BlockSize = 2
  DictBlock = 2
  SparsePercent = 50
  RankStep = 2
  MaxSegments = 2
  MaxDocs = 5
  Batches <- MCBatches
  Missing = Missing
  Scorer <- MCScorer
  Idf <- MCIdf
  Queries <- MCQueries
  K = 3
  Scale = 100
  Unmerged = Unmerged
  Links <- MCLinks
  MaxLinks = 4
  PerDomainCap = 2
  MinDomains = 3
  Latin = {"a"}
  Digits = {"1"}
  Ideographs = {"k"}
  Literals <- MCLiterals
  AltsOf <- MCAltsOf
  TextsToRead <- MCTextsToRead
SPECIFICATION MCSpec
INVARIANTS TermsReadBack DeletesReadBack FieldedIsDefinition AnchorsCountSites PhrasesLineUp
PROPERTIES MergeIsRebuild
