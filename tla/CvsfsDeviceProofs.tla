------------------------- MODULE CvsfsDeviceProofs -------------------------
(***************************************************************************)
(* Invariants of CvsfsDevice for every set of requesters, every number of  *)
(* calls, kills and signals, and every length of requests and responses.   *)
(***************************************************************************)
EXTENDS CvsfsDevice, TLAPS

DaemonLabels ==
  {"none", "open", "addCheck", "add", "adding", "storing", "addSleep", "user",
   "read", "reading", "readSleep", "reread", "rereading", "get", "getting",
   "taking", "getSleep", "exit", "clearIn", "clearOut"}
UmountLabels ==
  {"idle", "umDown", "umBody", "umQuit", "umWait", "umSleep", "umFree", "gone"}
RequesterLabels == {"idle", "procDown"} \cup ProcLabels

(* Each task is in the code of its own role. *)
Roles ==
  /\ pc[Daemon] \in DaemonLabels /\ pc[Umount] \in UmountLabels
  /\ \A r \in Requesters : pc[r] \in RequesterLabels

(* in_use counts the one daemon between its open and its release. *)
InUseCounts ==
  inUse = IF pc[Daemon] \in {"none", "open", "clearIn", "clearOut"} THEN 0 ELSE 1

(* No response outlives the daemon that wrote it.  A request may. *)
Cleared == pc[Daemon] \in {"none", "open", "clearOut"} => slot["in"] = Empty

(* A requester in kernel code works for a call. *)
CallsNumbered == \A r \in Requesters : pc[r] # "idle" => cur[r] \in Ids

(* Memory runs out only where it may. *)
Squeezes == squeezed => AllocFails

IInv == /\ TypeOK /\ Roles /\ InUseCounts /\ LockDiscipline
        /\ Cleared /\ CallsNumbered /\ Squeezes
----------------------------------------------------------------------------
(* Whatever the code puts in a queue is a block. *)
LEMMA BlocksTyped ==
  /\ Empty \in Block /\ Parm \in Block /\ Quit \in Block
  /\ \A i \in Ids : Req(i) \in Block
  /\ \A i \in {0} \cup Ids, p, n \in 0 .. RespUnits : Resp(i, p, n) \in Block
  <1>1. 0 \in 0 .. RespUnits
    BY DeviceAssumption
  <1> QED
    BY <1>1 DEF Empty, Parm, Quit, Req, Resp, Block

LEMMA DataTyped ==
  ASSUME TypeOK, NEW t \in Requesters \cup {Daemon}, t = Daemon \/ cur[t] \in Ids
  PROVE  AddData(t) \in Block /\ AddQueue(t) \in Queue /\ GetQueue(t) \in Queue
  <1>1. msg.id \in {0} \cup Ids
    BY DEF TypeOK, DaemonTyped, Block
  <1> QED
    BY <1>1, BlocksTyped, DeviceAssumption
    DEF TypeOK, CallsTyped, DaemonTyped, AddData, AddQueue, GetQueue, Queue

(* Where a task goes on after add_to_buffer. *)
LEMMA AddReturnsTo ==
  ASSUME TypeOK, NEW t \in Requesters \cup {Daemon}, NEW stored \in BOOLEAN,
         AddReturns(t, stored)
  PROVE  /\ CallsTyped' /\ DaemonTyped' /\ UNCHANGED cur
         /\ t = Daemon => Goto(t, "user")
         /\ t # Daemon => Goto(t, "get") \/ Goto(t, "procUp")
  <1>1. CASE t = Daemon /\ DaemonGoesOn
    <2>1. UNCHANGED <<params, callVars>> /\ Goto(Daemon, "user")
      BY <1>1 DEF DaemonGoesOn
    <2>2. job' \in {"open", "init", "ready", "write"} /\ msg' \in Block
      BY <1>1, BlocksTyped DEF DaemonGoesOn, TypeOK, DaemonTyped
    <2>3. part' \in 0 .. RespUnits /\ answer' \in 0 .. RespUnits
      BY <1>1, DeviceAssumption DEF DaemonGoesOn, TypeOK, DaemonTyped
    <2> QED
      BY <1>1, <2>1, <2>2, <2>3 DEF TypeOK, CallsTyped, DaemonTyped, callVars
  <1>2. CASE t # Daemon
    BY <1>2 DEF AddReturns, TypeOK, CallsTyped, DaemonTyped, callVars, daemonVars
  <1> QED
    BY <1>1, <1>2 DEF AddReturns

LEMMA NoMemoryReturnsTo ==
  ASSUME TypeOK, NEW t \in Requesters \cup {Daemon}, NoMemory(t)
  PROVE  /\ CallsTyped' /\ DaemonTyped' /\ UNCHANGED cur
         /\ t = Daemon => Goto(t, "user")
         /\ t # Daemon => Goto(t, "get") \/ Goto(t, "procUp")
  <1>1. CASE AddReturns(t, FALSE)
    BY <1>1, AddReturnsTo
  <1>2. CASE ~AddReturns(t, FALSE)
    <2>1. /\ t = Daemon /\ Goto(Daemon, "user") /\ job' = "ready" /\ msg' = Empty
          /\ part' = 0 /\ answer' = 0 /\ UNCHANGED <<params, callVars>>
      BY <1>2 DEF NoMemory
    <2>2. DaemonTyped'
      BY <2>1, BlocksTyped, DeviceAssumption DEF TypeOK, DaemonTyped
    <2> QED
      BY <2>1, <2>2 DEF TypeOK, CallsTyped, callVars
  <1> QED
    BY <1>1, <1>2

(* A kmalloc fails only where it may. *)
LEMMA SqueezedSteps ==
  ASSUME squeezed \in BOOLEAN, Squeezes,
         UNCHANGED squeezed \/ (AllocFails /\ squeezed' = TRUE)
  PROVE  squeezed' \in BOOLEAN /\ Squeezes'
  <1>1. CASE UNCHANGED squeezed
    BY <1>1 DEF Squeezes
  <1>2. CASE AllocFails /\ squeezed' = TRUE
    BY <1>2, Zenon DEF Squeezes
  <1> QED
    BY <1>1, <1>2

(* Where a task goes on after get_from_buffer. *)
LEMMA RetrievedTo ==
  ASSUME TypeOK, NEW r \in Requesters, NEW b \in Block,
         Retrieved(r, Append(got[r], b))
  PROVE  /\ CallsTyped' /\ DaemonTyped' /\ UNCHANGED cur
         /\ Goto(r, "get") \/ Goto(r, "procUp")
         /\ UNCHANGED squeezed \/ (AllocFails /\ squeezed' = TRUE)
  <1>1. Append(got[r], b) \in Seq(Block)
    BY DEF TypeOK, CallsTyped
  <1>2. /\ CallsTyped' /\ DaemonTyped' /\ UNCHANGED cur
        /\ Goto(r, "get") \/ Goto(r, "procUp")
    BY <1>1 DEF Retrieved, TypeOK, CallsTyped, DaemonTyped, daemonVars
  <1>3. UNCHANGED squeezed \/ (AllocFails /\ squeezed' = TRUE)
    BY DEF Retrieved
  <1> QED
    BY <1>2, <1>3

LEMMA GetReturnsNothingTo ==
  ASSUME TypeOK, NEW t \in Requesters \cup {Daemon}, GetReturnsNothing(t)
  PROVE  /\ CallsTyped' /\ DaemonTyped' /\ UNCHANGED cur
         /\ t = Daemon => Goto(t, "user")
         /\ t # Daemon => Goto(t, "procUp")
  BY DEF GetReturnsNothing, NothingRetrieved, TypeOK, CallsTyped, DaemonTyped,
         callVars, daemonVars
----------------------------------------------------------------------------
LEMMA InitIInv == Init => IInv
  <1> SUFFICES ASSUME Init PROVE IInv
    OBVIOUS
  <1>1. ChannelTyped
    BY BlocksTyped, DeviceAssumption DEF Init, ChannelTyped
  <1>2. TasksTyped
    BY DEF Init, TasksTyped, Labels, UserLabels
  <1>3. CallsTyped
    BY DEF Init, CallsTyped
  <1>4. DaemonTyped
    BY BlocksTyped, DeviceAssumption DEF Init, DaemonTyped
  <1>5. HistoryTyped
    <2>1. squeezed \in BOOLEAN
      BY Zenon DEF Init
    <2> QED
      BY <2>1, DeviceAssumption DEF Init, HistoryTyped
  <1>6. Roles /\ InUseCounts
    BY DeviceAssumption DEF Init, Roles, InUseCounts, Tasks, DaemonLabels,
       UmountLabels, RequesterLabels
  <1>7. LockDiscipline
    BY DeviceAssumption DEF Init, LockDiscipline, Tasks, LockLabels, ProcLabels
  <1>8. Cleared /\ CallsNumbered /\ Squeezes
    BY DeviceAssumption DEF Init, Cleared, CallsNumbered, Squeezes, Queue, Tasks
  <1> QED
    BY <1>1, <1>2, <1>3, <1>4, <1>5, <1>6, <1>7, <1>8 DEF IInv, TypeOK

(* A task that leaves add_to_buffer or get_from_buffer, with device.lock   *)
(* given up if it held it, keeps the invariant.                            *)
Leaves(t) ==
  /\ pc[t] \in {"addCheck", "add", "adding", "storing", "get", "getting", "taking"}
  /\ devLock' = IF pc[t] \in LockLabels THEN NoTask ELSE devLock
  /\ ChannelTyped' /\ (slot["in"] = Empty /\ t # Daemon => slot'["in"] = Empty)
  /\ CallsTyped' /\ DaemonTyped' /\ UNCHANGED cur
  /\ t = Daemon => Goto(t, "user")
  /\ t # Daemon => Goto(t, "get") \/ Goto(t, "procUp")
  /\ UNCHANGED <<procLock, deviceVars, sig, nextId, served, outcome, kills, signals>>
  /\ squeezed' \in BOOLEAN /\ Squeezes'

LEMMA LeavesPreserves ==
  ASSUME IInv, NEW t \in Requesters \cup {Daemon}, Leaves(t)
  PROVE  IInv'
  <1> USE DeviceAssumption
      DEF IInv, TypeOK, TasksTyped, Leaves, Goto, Tasks, LockLabels,
      ProcLabels, deviceVars
  <1>1. TasksTyped'
    BY DEF Labels, UserLabels
  <1>2. HistoryTyped'
    BY DEF HistoryTyped, histVars
  <1>3. Roles'
    BY DEF Roles, DaemonLabels, UmountLabels, RequesterLabels
  <1>4. InUseCounts'
    BY DEF InUseCounts
  <1>5. LockDiscipline'
    BY DEF LockDiscipline
  <1>6. Cleared'
    BY DEF Cleared, InUseCounts
  <1>7. CallsNumbered' /\ Squeezes'
    BY DEF CallsNumbered, Roles, DaemonLabels, RequesterLabels
  <1> QED
    BY <1>1, <1>2, <1>3, <1>4, <1>5, <1>6, <1>7

(* add_to_buffer preserves the invariant, whoever calls it. *)
LEMMA AddPreserves ==
  ASSUME IInv, NEW t \in Requesters \cup {Daemon}, AddToBuffer(t)
  PROVE  IInv'
  <1>1. AddQueue(t) \in Queue /\ (pc[t] = "storing" => AddData(t) \in Block)
    BY DataTyped DEF IInv, CallsNumbered, AddQueue, Queue
  <1>2. ASSUME AddCheck(t), AddReturns(t, FALSE) \/ NoMemory(t) PROVE IInv'
    <2>1. /\ UNCHANGED squeezed \/ (AllocFails /\ squeezed' = TRUE)
          /\ squeezed \in BOOLEAN /\ Squeezes
      BY <1>2 DEF AddCheck, IInv, TypeOK, HistoryTyped
    <2>2. squeezed' \in BOOLEAN /\ Squeezes'
      BY <2>1, SqueezedSteps
    <2> QED
      BY <1>2, <2>2, AddReturnsTo, NoMemoryReturnsTo, LeavesPreserves
      DEF AddCheck, Leaves, IInv, TypeOK, ChannelTyped, chanVars, LockLabels
  <1>3. CASE AddGiveUp(t)
    BY <1>3, AddReturnsTo, LeavesPreserves
    DEF AddGiveUp, CannotDown, Leaves, IInv, TypeOK, ChannelTyped, HistoryTyped, Squeezes,
        chanVars, histVars, LockLabels
  <1>4. CASE AddStore(t)
    <2>1. ChannelTyped'
      BY <1>1, <1>4, DeviceAssumption DEF AddStore, IInv, TypeOK, ChannelTyped
    <2>2. slot["in"] = Empty /\ t # Daemon => slot'["in"] = Empty
      BY <1>4 DEF AddStore, AddQueue, IInv, TypeOK, ChannelTyped, Queue
    <2>3. /\ squeezed' \in BOOLEAN /\ Squeezes'
          /\ UNCHANGED <<nextId, served, outcome, kills, signals>>
      BY <1>4 DEF AddStore, IInv, TypeOK, HistoryTyped, Squeezes, histVars
    <2>4. /\ CallsTyped' /\ DaemonTyped' /\ UNCHANGED cur
          /\ t = Daemon => Goto(t, "user")
          /\ t # Daemon => Goto(t, "get") \/ Goto(t, "procUp")
      BY <1>4, AddReturnsTo DEF AddStore, IInv
    <2>5. Leaves(t)
      BY <1>4, <2>1, <2>2, <2>3, <2>4 DEF AddStore, Up, Leaves, LockLabels
    <2> QED
      BY <2>5, LeavesPreserves
  <1>5. CASE AddDrop(t)
    BY <1>5, AddReturnsTo, LeavesPreserves
    DEF AddDrop, Up, Leaves, IInv, TypeOK, ChannelTyped, HistoryTyped, Squeezes, chanVars,
        histVars, LockLabels
  <1> USE DeviceAssumption
      DEF Goto, IInv, TypeOK, ChannelTyped, TasksTyped, CallsTyped, DaemonTyped,
      HistoryTyped, Roles, InUseCounts, LockDiscipline, Cleared, CallsNumbered, Squeezes,
      Tasks, Labels,
      UserLabels, LockLabels, ProcLabels, DaemonLabels, UmountLabels,
      RequesterLabels, chanVars, deviceVars, callVars, daemonVars, histVars
  <1>6. CASE AddCheck(t)
    <2>1. CASE inUse # 0 /\ Goto(t, "add") /\ UNCHANGED <<callVars, daemonVars, squeezed>>
      BY <1>6, <2>1 DEF AddCheck
    <2> QED
      BY <1>2, <1>6, <2>1 DEF AddCheck
  <1>7. CASE AddDown(t)
    BY <1>7 DEF AddDown, Down
  <1>8. CASE AddSleep(t)
    BY <1>1, <1>8 DEF AddSleep, Up
  <1>9. CASE AddWake(t)
    BY <1>1, <1>9 DEF AddWake
  <1>10. CASE AddAdmit(t)
    BY <1>10 DEF AddAdmit
  <1> QED
    BY <1>3, <1>4, <1>5, <1>6, <1>7, <1>8, <1>9, <1>10 DEF AddToBuffer

(* get_from_buffer preserves the invariant, whoever calls it. *)
LEMMA GetPreserves ==
  ASSUME IInv, NEW t \in Requesters \cup {Daemon}, GetFromBuffer(t)
  PROVE  IInv'
  <1>1. GetQueue(t) \in Queue
    BY DEF GetQueue, Queue
  <1>2. CASE GetGiveUp(t)
    BY <1>2, GetReturnsNothingTo, LeavesPreserves
    DEF GetGiveUp, CannotDown, Leaves, IInv, TypeOK, ChannelTyped, HistoryTyped, Squeezes,
        chanVars, histVars, LockLabels
  <1>3. CASE GetTake(t)
    <2>1. ChannelTyped'
      BY <1>1, <1>3, BlocksTyped, DeviceAssumption
      DEF GetTake, IInv, TypeOK, ChannelTyped
    <2>2. CASE /\ t = Daemon /\ Goto(Daemon, "user")
               /\ UNCHANGED <<callVars, daemonVars, squeezed>>
      <3>1. /\ CallsTyped' /\ DaemonTyped' /\ UNCHANGED cur
            /\ squeezed' \in BOOLEAN /\ Squeezes'
        BY <2>2 DEF IInv, TypeOK, CallsTyped, DaemonTyped, HistoryTyped, Squeezes,
           callVars, daemonVars
      <3> QED
        BY <1>3, <2>1, <2>2, <3>1, LeavesPreserves
        DEF GetTake, Up, Leaves, IInv, LockLabels
    <2>3. CASE t # Daemon /\ Retrieved(t, Append(got[t], slot[GetQueue(t)]))
      <3>1. slot[GetQueue(t)] \in Block
        BY <1>1 DEF IInv, TypeOK, ChannelTyped
      <3>2. /\ CallsTyped' /\ DaemonTyped' /\ UNCHANGED cur
            /\ squeezed' \in BOOLEAN /\ Squeezes'
            /\ Goto(t, "get") \/ Goto(t, "procUp")
        BY <2>3, <3>1, RetrievedTo, SqueezedSteps DEF IInv, TypeOK, HistoryTyped
      <3> QED
        BY <1>1, <1>3, <2>1, <2>3, <3>2, LeavesPreserves
        DEF GetTake, Up, Leaves, IInv, TypeOK, ChannelTyped, Queue, LockLabels
    <2> QED
      BY <1>3, <2>2, <2>3 DEF GetTake
  <1>4. CASE GetDrop(t) \/ GetTakeNothing(t)
    BY <1>4, GetReturnsNothingTo, LeavesPreserves
    DEF GetDrop, GetTakeNothing, Up, Leaves, IInv, TypeOK, ChannelTyped, HistoryTyped,
       Squeezes,
        chanVars, histVars, LockLabels
  <1> USE DeviceAssumption
      DEF Goto, IInv, TypeOK, ChannelTyped, TasksTyped, CallsTyped, DaemonTyped,
      HistoryTyped, Roles, InUseCounts, LockDiscipline, Cleared, CallsNumbered, Squeezes,
      Tasks, Labels,
      UserLabels, LockLabels, ProcLabels, DaemonLabels, UmountLabels,
      RequesterLabels, chanVars, deviceVars, callVars, daemonVars, histVars
  <1>5. CASE GetDown(t)
    BY <1>5 DEF GetDown, Down
  <1>6. CASE GetSleep(t)
    BY <1>1, <1>6 DEF GetSleep, Up
  <1>7. CASE GetWake(t)
    BY <1>1, <1>7 DEF GetWake
  <1>8. CASE GetAdmit(t)
    BY <1>8 DEF GetAdmit
  <1> QED
    BY <1>2, <1>3, <1>4, <1>5, <1>6, <1>7, <1>8 DEF GetFromBuffer

(* serialize_request and the VFS call around it. *)
LEMMA ReturnTyped ==
  ASSUME TypeOK, NEW r \in Requesters, NEW v \in {"none", "ok", "fail"},
         Return(r, v)
  PROVE  CallsTyped' /\ HistoryTyped'
  <1>1. CallsTyped'
    BY DEF Return, TypeOK, CallsTyped
  <1>2. outcome' \in [Ids -> {"none", "ok", "fail"}]
    BY DEF Return, TypeOK, HistoryTyped
  <1> QED
    BY <1>1, <1>2 DEF Return, TypeOK, HistoryTyped

LEMMA RequesterPreserves ==
  ASSUME IInv, NEW r \in Requesters, Requester(r) \/ Signal(r)
  PROVE  IInv'
  <1>1. \A v \in {"none", "ok", "fail"} : Return(r, v) => CallsTyped' /\ HistoryTyped'
    BY ReturnTyped DEF IInv
  <1>2. ret[r] \in {"none", "ok", "fail"}
    BY DEF IInv, TypeOK, CallsTyped
  <1> USE DeviceAssumption
      DEF Goto, IInv, TypeOK, ChannelTyped, TasksTyped, CallsTyped, DaemonTyped,
      HistoryTyped, Roles, InUseCounts, LockDiscipline, Cleared, CallsNumbered, Squeezes,
      Tasks, Labels,
      UserLabels, LockLabels, ProcLabels, DaemonLabels, UmountLabels,
      RequesterLabels, chanVars, deviceVars, callVars, daemonVars, histVars
  <1>3. CASE Call(r)
    BY <1>3 DEF Call, Ids
  <1>4. CASE ProcDown(r)
    <2>1. Roles' /\ InUseCounts' /\ Cleared'
      BY <1>4 DEF ProcDown
    <2>2. LockDiscipline'
      BY <1>4 DEF ProcDown
    <2> QED
      BY <1>4, <2>1, <2>2 DEF ProcDown
  <1>5. CASE ProcGiveUp(r)
    BY <1>1, <1>5 DEF ProcGiveUp, Return
  <1>6. CASE ProcUp(r)
    <2>1. CallsTyped' /\ HistoryTyped'
      BY <1>1, <1>2, <1>6 DEF ProcUp
    <2>2. Roles' /\ InUseCounts' /\ Cleared'
      BY <1>6 DEF ProcUp, Return
    <2>3. LockDiscipline'
      BY <1>6 DEF ProcUp, Return
    <2> QED
      BY <1>6, <2>1, <2>2, <2>3 DEF ProcUp, Return
  <1>7. CASE Signal(r)
    BY <1>7 DEF Signal
  <1> QED
    BY <1>3, <1>4, <1>5, <1>6, <1>7, AddPreserves, GetPreserves DEF Requester

(* The daemon's reads of its requests. *)
LEMMA ReadPreserves ==
  ASSUME IInv, Read
  PROVE  IInv'
  <1>1. ReadWake => full' \in [Queue -> SUBSET Tasks]
    BY DEF IInv, TypeOK, ChannelTyped, ReadWake, Tasks
  <1> USE DeviceAssumption
      DEF Goto, IInv, TypeOK, ChannelTyped, TasksTyped, CallsTyped, DaemonTyped,
      HistoryTyped, Roles, InUseCounts, LockDiscipline, Cleared, CallsNumbered, Squeezes,
      Tasks, Labels,
      UserLabels, LockLabels, ProcLabels, DaemonLabels, UmountLabels,
      RequesterLabels, chanVars, deviceVars, callVars, daemonVars, histVars
  <1>2. ASSUME ReadChunk, pc[Daemon] \in {"reading", "rereading"} PROVE IInv'
    <2>1. Size(slot["out"]) \in 0 .. ReqUnits
      BY DEF Size
    <2>2. ChannelTyped' /\ DaemonTyped'
      BY <1>2, <2>1 DEF ReadChunk, Queue
    <2>3. Goto(Daemon, "get") \/ Goto(Daemon, "user")
      BY <1>2 DEF ReadChunk
    <2>4. Roles' /\ InUseCounts' /\ Cleared'
      BY <1>2, <2>3 DEF ReadChunk, Up
    <2>5. /\ devLock = Daemon /\ devLock' = NoTask /\ UNCHANGED procLock
          /\ pc' = [pc EXCEPT ![Daemon] = "get"] \/ pc' = [pc EXCEPT ![Daemon] = "user"]
      BY <1>2, <2>3 DEF ReadChunk, Up
    <2>6. LockDiscipline'
      BY <2>5
    <2> QED
      BY <1>2, <2>2, <2>3, <2>4, <2>6 DEF ReadChunk, Up
  <1>3. ASSUME ReadEndOfFile, pc[Daemon] \in {"reading", "rereading"} PROVE IInv'
    BY <1>3 DEF ReadEndOfFile, Up
  <1>4. CASE ReadDown
    BY <1>4 DEF ReadDown, Down
  <1>5. CASE RereadDown
    BY <1>5 DEF RereadDown, Down
  <1>6. CASE ReadSleep
    BY <1>6 DEF ReadSleep, Up, Queue
  <1>7. CASE ReadWake
    <2>1. full' \in [Queue -> SUBSET Tasks]
      BY <1>7, <1>1
    <2>2. UNCHANGED pc \/ Goto(Daemon, "reread") \/ Goto(Daemon, "user")
      BY <1>7 DEF ReadWake
    <2>3. /\ UNCHANGED <<slot, readpos, empty, devLock, procLock, deviceVars,
                         sig, callVars, daemonVars, histVars>>
          /\ pc[Daemon] = "readSleep"
      BY <1>7 DEF ReadWake
    <2>4. CASE UNCHANGED pc
      BY <2>1, <2>3, <2>4
    <2>5. CASE Goto(Daemon, "reread")
      BY <2>1, <2>3, <2>5
    <2>6. CASE Goto(Daemon, "user")
      BY <2>1, <2>3, <2>6
    <2> QED
      BY <2>2, <2>4, <2>5, <2>6
  <1>8. CASE ReadGiveUp
    BY <1>8 DEF ReadGiveUp, CannotDown
  <1> QED
    BY <1>2, <1>3, <1>4, <1>6, <1>7, <1>8, <1>5 DEF Read

(* The daemon's life from its start to the release of the device. *)
LEMMA DaemonPreserves ==
  ASSUME IInv, DaemonStep
  PROVE  IInv'
  <1> USE DeviceAssumption
      DEF Goto, IInv, TypeOK, ChannelTyped, TasksTyped, CallsTyped, DaemonTyped,
      HistoryTyped, Roles, InUseCounts, LockDiscipline, Cleared, CallsNumbered, Squeezes,
      Tasks, Labels,
      UserLabels, LockLabels, ProcLabels, DaemonLabels, UmountLabels,
      RequesterLabels, chanVars, deviceVars, callVars, daemonVars, histVars
  <1>1. CASE Spawn
    BY <1>1 DEF Spawn
  <1>2. CASE Open
    BY <1>2 DEF Open
  <1>3. CASE OpenFails
    BY <1>3 DEF OpenFails
  <1>4. CASE ReadCall
    BY <1>4 DEF ReadCall, InUser
  <1>5. CASE WriteCall
    BY <1>5 DEF WriteCall, InUser
  <1>6. CASE TakeParameters
    BY <1>6, BlocksTyped DEF TakeParameters, InUser
  <1>7. CASE Exit
    BY <1>7 DEF Exit
  <1>8. ASSUME NEW n \in 0 .. RespUnits, Execute(n) PROVE IInv'
    <2>1. msg.id \in Ids
      BY <1>8 DEF Block, Execute
    <2>2. DaemonTyped'
      BY <1>8 DEF Execute
    <2>3. HistoryTyped'
      BY <1>8, <2>1 DEF Execute
    <2> QED
      BY <1>8, <2>2, <2>3 DEF Execute
  <1>9. CASE Release
    BY <1>9 DEF Release
  <1>10. CASE ClearIn
    BY <1>10, BlocksTyped DEF ClearIn, Queue
  <1>11. CASE ClearOut
    BY <1>11, BlocksTyped DEF ClearOut, Queue
  <1> QED
    BY <1>1, <1>2, <1>8, <1>9, <1>10, <1>11, <1>3, <1>4, <1>6, <1>7, <1>5,
       AddPreserves, GetPreserves, ReadPreserves DEF DaemonStep

(* put_super, and the death of a daemon. *)
LEMMA UmountPreserves ==
  ASSUME IInv, UmountStart \/ UmountStep \/ Kill
  PROVE  IInv'
  <1>1. SendQuit => ChannelTyped'
    BY BlocksTyped DEF IInv, TypeOK, ChannelTyped, SendQuit
  <1> USE DeviceAssumption
      DEF Goto, IInv, TypeOK, ChannelTyped, TasksTyped, CallsTyped, DaemonTyped,
      HistoryTyped, Roles, InUseCounts, LockDiscipline, Cleared, CallsNumbered, Squeezes,
      Tasks, Labels,
      UserLabels, LockLabels, ProcLabels, DaemonLabels, UmountLabels,
      RequesterLabels, chanVars, deviceVars, callVars, daemonVars, histVars
  <1>2. CASE UmountStart
    BY <1>2 DEF UmountStart
  <1>3. CASE UmountDown
    BY <1>3 DEF UmountDown, Down
  <1>4. CASE UserCleanup
    <2>1. Goto(Umount, "umQuit") \/ Goto(Umount, "umFree")
      BY <1>4 DEF UserCleanup
    <2>2. LockDiscipline'
      BY <1>4 DEF UserCleanup, Up
    <2>3. TasksTyped'
      BY <1>4, <2>1 DEF UserCleanup, Up
    <2>4. Roles' /\ InUseCounts' /\ Cleared'
      BY <1>4, <2>1 DEF UserCleanup
    <2> QED
      BY <1>4, <2>1, <2>2, <2>3, <2>4 DEF UserCleanup
  <1>9. CASE SendQuit
    <2>1. ChannelTyped'
      BY <1>9, <1>1
    <2>2. Cleared' /\ Roles' /\ InUseCounts'
      BY <1>9 DEF SendQuit, Queue
    <2>3. LockDiscipline'
      BY <1>9 DEF SendQuit, Up
    <2>4. TasksTyped'
      BY <1>9 DEF SendQuit, Up
    <2> QED
      BY <1>9, <2>1, <2>2, <2>3, <2>4 DEF SendQuit
  <1>5. CASE UmountWait
    <2>1. CASE Goto(Umount, "umFree") /\ UNCHANGED empty
      BY <1>5, <2>1 DEF UmountWait
    <2>2. CASE /\ Goto(Umount, "umSleep")
               /\ empty' = [empty EXCEPT !["out"] = @ \cup {Umount}]
      BY <1>5, <2>2 DEF UmountWait, Queue
    <2> QED
      BY <1>5, <2>1, <2>2 DEF UmountWait
  <1>6. CASE UmountWake
    BY <1>6 DEF UmountWake
  <1>7. CASE FreeSuper
    BY <1>7 DEF FreeSuper
  <1>8. CASE Kill
    BY <1>8 DEF Kill
  <1> QED
    BY <1>2, <1>4, <1>5, <1>8, <1>9, <1>3, <1>6, <1>7 DEF UmountStep

LEMMA NextPreserves == IInv /\ [Next]_vars => IInv'
  <1> SUFFICES ASSUME IInv, [Next]_vars PROVE IInv'
    OBVIOUS
  <1>1. CASE Next
    BY <1>1, RequesterPreserves, DaemonPreserves, UmountPreserves DEF Next
  <1>2. CASE UNCHANGED vars
    BY <1>2 DEF vars, chanVars, deviceVars, callVars, daemonVars, histVars,
       IInv, TypeOK, ChannelTyped, TasksTyped, CallsTyped, DaemonTyped,
       HistoryTyped, Roles, InUseCounts, LockDiscipline, Cleared, CallsNumbered,
       Squeezes
  <1> QED
    BY <1>1, <1>2

(* The inductive invariant holds throughout every behaviour. *)
THEOREM Inductive == Spec => []IInv
  BY InitIInv, NextPreserves, PTL DEF Spec
----------------------------------------------------------------------------
(* Every variable keeps its type: in particular in_use, which is not       *)
(* guarded by a lock, never leaves {0, 1}.                                 *)
THEOREM TypeCorrect == Spec => []TypeOK
  <1>1. IInv => TypeOK
    BY DEF IInv
  <1> QED
    BY <1>1, Inductive, PTL

(* device.lock and proc.lock are held by a task exactly while it is in the *)
(* code they protect, on every path of devfs.c and serialize_request.      *)
THEOREM Locks == Spec => []LockDiscipline
  <1>1. IInv => LockDiscipline
    BY DEF IInv
  <1> QED
    BY <1>1, Inductive, PTL
============================================================================
