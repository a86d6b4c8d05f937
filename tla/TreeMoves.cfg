SPECIFICATION Spec
CONSTANTS
  a = a
  b = b
  c = c
  f = f
  Paths <- AllPaths
  CvsDirs <- Repository
  CvsFiles <- RepositoryFiles
  Versions = {1}
  MaxCrashes = 0
SYMMETRY Symmetry
INVARIANT TypeOK
 
 
CHECK_DEADLOCK FALSE
