SPECIFICATION Spec
CONSTANTS
  Daemon = Daemon
  Umount = Umount
  NoTask = NoTask
  Requesters = {r1, r2}
  MaxRequests = 2
  ReqUnits = 2
  RespUnits = 2
  MaxKills = 0
  MaxSignals = 1
  AllocFails = FALSE
  QuietOpen = TRUE
  MayUnmount = FALSE
INVARIANT OwnReply
CHECK_DEADLOCK FALSE
