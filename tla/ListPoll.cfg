SPECIFICATION FairSpec
CONSTANTS
  Nil = Nil
  Mounts = {m1}
  Points = {p1}
  Procs = {d1}
  MaxMounts = 1
  MaxMinor = 1
  MaxRestarts = 1
PROPERTY DaemonRestarted
CHECK_DEADLOCK FALSE
