SPECIFICATION Spec
CONSTANTS
  a = a
  b = b
  c = c
  f = f
  Paths <- FewPaths
  CvsDirs <- Repository
  CvsFiles <- RepositoryFiles
  Versions = {1, 2}
  MaxCrashes = 1
 
 
INVARIANT WholeUnlessCrashed
CHECK_DEADLOCK FALSE
