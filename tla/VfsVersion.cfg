SPECIFICATION Spec
CONSTANTS
  p = p
  q = q
  Procs = {p, q}
  Files <- AllFiles
  Names <- AllNames
  CvsFiles <- Repository
  Versions <- TwoVersions
  HeadVersion <- Latest
  Modes <- Executable
  Data <- NoBlock
  Commands <- AllCommands
  Beginnings <- Untouched
  MaxDentries = 4
  MaxCalls = 6
  MaxFailures = 0
SYMMETRY Symmetry
INVARIANT ReadsNamedVersion
CHECK_DEADLOCK FALSE
