SPECIFICATION Spec
CONSTANTS
  Daemon = Daemon
  Umount = Umount
  NoTask = NoTask
  Requesters = {r1, r2}
  MaxRequests = 3
  ReqUnits = 2
  RespUnits = 1
  MaxKills = 2
  MaxSignals = 0
  AllocFails = TRUE
  QuietOpen = FALSE
  MayUnmount = TRUE
PROPERTY ServiceSpec
CHECK_DEADLOCK FALSE
