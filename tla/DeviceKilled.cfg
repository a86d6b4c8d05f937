SPECIFICATION FairSpec
CONSTANTS
  Daemon = Daemon
  Umount = Umount
  NoTask = NoTask
  Requesters = {r1}
  MaxRequests = 1
  ReqUnits = 2
  RespUnits = 2
  MaxKills = 1
  MaxSignals = 0
  AllocFails = FALSE
  QuietOpen = TRUE
  MayUnmount = FALSE
PROPERTY WaitEndsWhenClosed
CHECK_DEADLOCK FALSE
