SPECIFICATION Spec
CONSTANTS
  Daemon = Daemon
  Umount = Umount
  NoTask = NoTask
  Requesters = {r1, r2}
  MaxRequests = 3
  ReqUnits = 2
  RespUnits = 2
  MaxKills = 2
  MaxSignals = 1
  AllocFails = TRUE
  QuietOpen = FALSE
  MayUnmount = TRUE
SYMMETRY Symmetry
INVARIANT TypeOK
INVARIANT LockDiscipline
INVARIANT CallerWaits
INVARIANT ParametersFirst
INVARIANT ReplyMatches
INVARIANT NoLostWakeup
INVARIANT WholeReply
CHECK_DEADLOCK FALSE
