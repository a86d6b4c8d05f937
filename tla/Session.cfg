SPECIFICATION Spec
CONSTANTS
  a = a
  b = b
  Dirs <- TwoDirs
  Files <- TwoFiles
  MaxVersion = 2
  Blocks = 2
  MaxSessions = 4
  MaxCommits = 1
  MaxOpen = 4
  MaxBreaks = 2
INVARIANT TypeOK
INVARIANT TreeIsListing
INVARIANT AttributesWhole
INVARIANT StoredWhole
INVARIANT LoginFirst
INVARIANT OutageCostsNothing
PROPERTY CommandReturns
CHECK_DEADLOCK FALSE
