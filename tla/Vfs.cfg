SPECIFICATION Spec
CONSTANTS
  p = p
  q = q
  Procs = {p, q}
  Files <- AllFiles
  Names <- AllNames
  CvsFiles <- Repository
  Versions <- TwoVersions
  HeadVersion <- Latest
  Modes <- Executable
  Data <- TwoBlocks
  Commands <- AllCommands
  Beginnings <- SomeBeginnings
  MaxDentries = 4
  MaxCalls = 4
  MaxFailures = 2
SYMMETRY Symmetry
INVARIANT TypeOK
INVARIANT CleanMeansCurrent
INVARIANT PagesCurrent
INVARIANT UnderstoodAsMeant
PROPERTY OnlyAskedIsLost
CHECK_DEADLOCK FALSE
