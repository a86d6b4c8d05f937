SPECIFICATION FairSpec
CONSTANTS
  Daemon = Daemon
  Umount = Umount
  NoTask = NoTask
  Requesters = {r1, r2}
  MaxRequests = 3
  ReqUnits = 2
  RespUnits = 2
  MaxKills = 0
  MaxSignals = 0
  AllocFails = FALSE
  QuietOpen = TRUE
  MayUnmount = TRUE
PROPERTY CallsReturn
PROPERTY UmountEnds
CHECK_DEADLOCK FALSE
