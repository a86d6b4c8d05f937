SPECIFICATION Spec
CONSTANTS
  Nil = Nil
  Mounts = {m1, m2, m3}
  Points = {p1, p2}
  Procs = {d1, d2}
  MaxMounts = 1
  MaxMinor = 1
  MaxRestarts = 2
SYMMETRY Symmetry
INVARIANT TypeOK
INVARIANT ListComplete
INVARIANT UniqueIds
INVARIANT OneDaemon
INVARIANT NotForgotten
CHECK_DEADLOCK FALSE
