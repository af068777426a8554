SPECIFICATION FairSpec
CONSTANTS
  a1 = a1
  a2 = a2
  b1 = b1
  x1 = x1
  y1 = y1
  z1 = z1
  urlA = urlA
  urlB = urlB
  urlX = urlX
  urlY = urlY
  host = host
  menu = menu
  own = own
  text = text
  w1 = w1
  w2 = w2
  p1 = p1
  p2 = p2
  None = None
  Workers = {w1, w2}
  Partitions = {p1, p2}
  Pages = {a1, a2, b1, x1, y1, z1}
  Texts = {menu, own, text}
  UrlOf <- MCUrlOf
  HostOf <- MCHostOf
  PartitionOf <- MCPartitionOf
  UrlRank <- MCUrlRank
  VisibleOf <- MCBlocksOf
  BlocksOf <- MCBlocksOf
  ContentOf <- MCContentOf
  Chars <- MCChars
  Substantial = {own, text}
  LinksOf <- MCLinksOf
  Vouched <- MCVouched
  Rejected = {x1}
  Broken = {y1}
  Unreadable = {z1}
  NoIndex = {}
  NoFollow = {b1}
  MinPages = 2
  RepeatPercent = 60
  MinChars = 5
  MinPercent = 10
  MaxRecords = 2
  Logs <- MCLogs
  MaxEvents = 1
INVARIANTS CommittedIsPublished NewestOnTop ReplaysNeedFailures OwnTextNeedsRepeats
PROPERTIES EventuallyCommitted
