------------------------ MODULE CvsfsServiceProofs -------------------------
(***************************************************************************)
(* What the tasks of CvsfsDevice and the contents of its queues have to do *)
(* with each other, on top of the invariant of CvsfsDeviceProofs: nobody   *)
(* sleeps past a wake_up, the parameters come first, a response reaches    *)
(* the call it answers, and serialize_request implements CvsfsService.     *)
(***************************************************************************)
EXTENDS CvsfsDeviceProofs

AddLabels  == {"addCheck", "add", "adding", "storing", "addSleep"}
GetLabels  == {"get", "getting", "taking", "getSleep"}
ReadLabels == {"read", "reading", "readSleep", "reread", "rereading"}
Closing    == {"exit", "clearIn", "clearOut"}

(* Which part of its program the daemon is in, what it has read, and where *)
(* in the driver that lets it be.                                          *)
Stages ==
  /\ job = "open" => /\ pc[Daemon] \in {"none", "open"} \cup AddLabels
                     /\ msg = Empty /\ params = Empty
  /\ job = "write" => msg.kind = "req"
  /\ pc[Daemon] \in {"none", "open"} => job = "open"
  /\ pc[Daemon] \in AddLabels => job \in {"open", "write"}
  /\ pc[Daemon] \in ReadLabels => job \in {"init", "ready"} /\ msg = Empty
  /\ pc[Daemon] \in GetLabels =>
       job \in {"init", "ready"} /\ msg # Empty /\ slot["out"] # Empty
  /\ pc[Daemon] # "getSleep"

(* put_super runs when nobody uses the mount, and only it sends a quit. *)
UmountAlone ==
  /\ pc[Umount] # "idle" => \A r \in Requesters : pc[r] = "idle"
  /\ slot["out"].kind = "quit" \/ msg.kind = "quit" =>
       pc[Umount] \notin {"idle", "umDown", "umBody", "umQuit"}

(* The queue into which a task is about to store a block is empty. *)
Admitted ==
  \A t \in Requesters \cup {Daemon} : pc[t] = "storing" => slot[AddQueue(t)] = Empty

(* Where a task is about to take a block and finds it gone, release was    *)
(* there, and no daemon has read anything since.                           *)
Emptied ==
  \A r \in Requesters : pc[r] = "taking" /\ slot["in"] = Empty =>
    pc[Daemon] = "clearOut" \/ (job \in {"open", "init"} /\ msg = Empty)

Flow == Stages /\ UmountAlone /\ Admitted /\ Emptied

(* A daemon that nobody killed closes the device because of a quit, which  *)
(* it took from the queue.                                                 *)
ClosesAfterQuit ==
  /\ sig[Daemon] => kills > 0
  /\ kills = 0 /\ pc[Daemon] \in Closing =>
       /\ slot["out"] = Empty
       /\ pc[Umount] \notin {"idle", "umDown", "umBody", "umQuit"}
  /\ kills = 0 /\ msg.kind = "quit" /\ pc[Daemon] \notin GetLabels =>
       slot["out"] = Empty

(* Only the daemon waits for the queue of responses to empty. *)
WaitsForIn ==
  /\ empty["in"] \subseteq {Daemon}
  /\ Daemon \in empty["in"] => pc[Daemon] = "addSleep" /\ job = "write"

WInv == NoLostWakeup /\ ClosesAfterQuit /\ WaitsForIn

(* Until it has read one, what the daemon finds in the queue of requests   *)
(* is the string that its open put there, or the quit that replaced it.    *)
ParametersWait ==
  /\ params.kind \in {"none", "parm", "quit"}
  /\ job = "init" => msg.kind \in {"none", "parm", "quit"}
  /\ job = "init" /\ msg = Empty
       /\ (pc[Daemon] \in ReadLabels \/ InUser)
     => slot["out"].kind \in {"parm", "quit"}

PInv == ~squeezed => ParametersWait
----------------------------------------------------------------------------
(* The holder of proc.lock waits for the response to call i. *)
Awaits(i) ==
  procLock # NoTask /\ pc[procLock] \in GetLabels /\ cur[procLock] = i

(* Nobody was signalled, and no response of several blocks lost one when   *)
(* memory was short.                                                       *)
Calm == signals = 0 /\ (squeezed => RespUnits <= 1)

(* The daemon has read its first message.                                  *)
Settled == job \in {"ready", "write"} \/ (job = "init" /\ msg # Empty /\ InUser)

(* The holder of proc.lock is about to take a block. *)
Taking == procLock # NoTask /\ pc[procLock] = "taking"

(* What a task has retrieved is from the response to its call.             *)
Received(r) ==
  /\ got[r] # <<>> => pc[r] \in GetLabels \cup {"procUp"}
  /\ \A k \in 1 .. Len(got[r]) :
       got[r][k].kind = "resp" /\ got[r][k].id = cur[r] /\ got[r][k].part = k
  /\ got[r] # <<>> => cur[r] \in served
  /\ got[r] # <<>> /\ pc[r] \in GetLabels =>
       got[r][1].part = 1 /\ Len(got[r]) < got[r][1].of
  /\ pc[r] = "procUp" => /\ ret[r] \in {"ok", "fail"}
                         /\ ret[r] = "ok" => cur[r] \in served

(* A request that waits in its queue: nothing of its response exists. *)
RequestQueued ==
  slot["out"].kind = "req" =>
    /\ Awaits(slot["out"].id) /\ job # "write"
    /\ slot["in"] = Empty /\ got[procLock] = <<>>

(* A request that the daemon has read. *)
RequestRead ==
  msg.kind = "req" /\ job # "init" =>
    /\ Awaits(msg.id)
    /\ job # "write" => slot["in"] = Empty /\ got[procLock] = <<>>
    /\ job = "write" => msg.id \in served
    /\ InUser => slot["out"].kind # "req"

(* The next block for the task to retrieve, with number p of n. *)
Follows(p, n) ==
  /\ p = Len(got[procLock]) + 1
  /\ got[procLock] # <<>> => n = got[procLock][1].of

(* A block of a response in its queue. *)
ResponseQueued ==
  slot["in"] # Empty =>
    /\ slot["in"].kind = "resp" /\ Awaits(slot["in"].id)
    /\ slot["in"].id \in served
    /\ Follows(slot["in"].part, slot["in"].of)
    /\ msg.kind = "req" => job = "write"
    /\ job = "write" => slot["in"].part < slot["in"].of /\ slot["in"].of = answer
    /\ job \in {"ready", "write"}

(* The block that the daemon writes next. *)
Writes == job = "write" /\ (pc[Daemon] \in AddLabels \/ InUser)

ResponseWritten ==
  Writes =>
    /\ part = 1 \/ part <= answer
    /\ slot["in"] = Empty => Follows(part, answer)
    /\ slot["in"] # Empty => part = slot["in"].part + 1

XInv ==
  Calm =>
    /\ \A r \in Requesters : ~sig[r] /\ Received(r)
    /\ inUse # 0 /\ Settled => RequestQueued /\ RequestRead
    /\ inUse # 0 \/ Taking => ResponseQueued
    /\ inUse # 0 => ResponseWritten

(* Without a kill, a device that is closed has nobody in mid-response. *)
ClosedBetween ==
  kills = 0 /\ signals = 0 /\ ~squeezed =>
    \A r \in Requesters :
      /\ inUse = 0 => got[r] = <<>>
      /\ pc[r] = "taking" => inUse # 0 /\ slot["in"] # Empty

(* The history of the calls. *)
CallsDistinct ==
  \A r \in Requesters :
    /\ pc[r] = "idle" => cur[r] = 0
    /\ pc[r] # "idle" => cur[r] < nextId /\ outcome[cur[r]] = "none"
    /\ pc[r] \in {"procDown"} \cup AddLabels => cur[r] \notin served
    /\ \A s \in Requesters : pc[r] # "idle" /\ cur[s] = cur[r] => s = r

CallsOpen ==
  /\ \A i \in Ids : i < nextId /\ outcome[i] = "none" => \E r \in Requesters : cur[r] = i
  /\ \A i \in Ids : i >= nextId => outcome[i] = "none" /\ i \notin served

CInv == CallsDistinct /\ CallsOpen

(* What a block is tells it from an empty queue. *)
LEMMA BlockKinds ==
  /\ Empty.kind = "none" /\ Parm.kind = "parm" /\ Quit.kind = "quit"
  /\ \A i : Req(i).kind = "req" /\ Req(i).id = i
  /\ \A i, p, n : LET b == Resp(i, p, n) IN
       b.kind = "resp" /\ b.id = i /\ b.part = p /\ b.of = n
  BY DEF Empty, Parm, Quit, Req, Resp

(* The places of the tasks and the types of the queues. *)
Places ==
  /\ pc \in [Tasks -> Labels] /\ Roles
  /\ slot \in [Queue -> Block]
  /\ Daemon \in Tasks /\ Umount \in Tasks /\ Requesters \subseteq Tasks
  /\ Daemon \notin Requesters /\ Umount \notin Requesters /\ Daemon # Umount
  /\ "in" \in Queue /\ "out" \in Queue

LEMMA PlacesKnown == IInv => Places
  BY DeviceAssumption
  DEF IInv, TypeOK, ChannelTyped, TasksTyped, Places, Tasks, Queue
----------------------------------------------------------------------------
LEMMA FlowInit == Init => Flow
  BY DeviceAssumption, BlockKinds
  DEF Init, Flow, Stages, UmountAlone, Admitted, Emptied, Tasks, Queue, AddLabels,
     GetLabels, ReadLabels

LEMMA FlowAdd ==
  ASSUME IInv, Flow, NEW t \in Requesters \cup {Daemon}, AddToBuffer(t)
  PROVE  Stages' /\ UmountAlone'
  <1> USE BlockKinds, PlacesKnown
      DEF Places, Roles, DaemonLabels, UmountLabels, RequesterLabels, ProcLabels,
      Flow, Stages, UmountAlone, AddLabels, GetLabels, ReadLabels, Goto, Up, AddReturns,
      DaemonGoesOn, callVars, daemonVars, deviceVars, chanVars
  <1>1. CASE AddCheck(t)
    BY <1>1 DEF AddCheck, NoMemory
  <1>2. CASE AddDown(t)
    BY <1>2 DEF AddDown, Down
  <1>3. CASE AddGiveUp(t)
    BY <1>3 DEF AddGiveUp, CannotDown
  <1>4. CASE AddStore(t)
    BY <1>4 DEF AddStore, AddQueue, AddData
  <1>5. CASE AddDrop(t)
    BY <1>5 DEF AddDrop
  <1>6. CASE AddSleep(t)
    BY <1>6 DEF AddSleep
  <1>7. CASE AddWake(t)
    BY <1>7 DEF AddWake
  <1>8. CASE AddAdmit(t)
    BY <1>8 DEF AddAdmit
  <1> QED
    BY <1>1, <1>2, <1>3, <1>4, <1>5, <1>6, <1>7, <1>8 DEF AddToBuffer

LEMMA FlowGet ==
  ASSUME IInv, Flow, NEW t \in Requesters \cup {Daemon}, GetFromBuffer(t)
  PROVE  Stages' /\ UmountAlone'
  <1> USE BlockKinds, PlacesKnown
      DEF Places, Roles, DaemonLabels, UmountLabels, RequesterLabels, ProcLabels,
      Flow, Stages, UmountAlone, AddLabels, GetLabels, ReadLabels, Goto, Up,
      GetReturnsNothing, NothingRetrieved, Retrieved, GetQueue,
      callVars, daemonVars, deviceVars, chanVars
  <1>1. CASE GetDown(t)
    BY <1>1 DEF GetDown, Down
  <1>2. CASE GetGiveUp(t)
    BY <1>2 DEF GetGiveUp, CannotDown
  <1>3. CASE GetTake(t)
    BY <1>3 DEF GetTake
  <1>4. CASE GetDrop(t)
    BY <1>4 DEF GetDrop
  <1>5. CASE GetSleep(t)
    BY <1>5 DEF GetSleep
  <1>6. CASE GetWake(t)
    BY <1>6 DEF GetWake
  <1>7. CASE GetAdmit(t)
    BY <1>7 DEF GetAdmit
  <1>8. CASE GetTakeNothing(t)
    BY <1>8 DEF GetTakeNothing
  <1> QED
    BY <1>1, <1>2, <1>3, <1>4, <1>5, <1>6, <1>7, <1>8 DEF GetFromBuffer

LEMMA FlowRequester ==
  ASSUME IInv, Flow, NEW r \in Requesters, Requester(r) \/ Signal(r)
  PROVE  Stages' /\ UmountAlone'
  <1> USE PlacesKnown
      DEF Places, Roles, DaemonLabels, UmountLabels, RequesterLabels, ProcLabels,
      Flow, Stages, UmountAlone, AddLabels, GetLabels, ReadLabels, Goto,
      callVars, daemonVars, deviceVars, chanVars
  <1>1. CASE Call(r)
    BY <1>1 DEF Call
  <1>2. CASE ProcDown(r)
    BY <1>2 DEF ProcDown
  <1>3. CASE ProcGiveUp(r)
    BY <1>3 DEF ProcGiveUp, Return
  <1>4. CASE ProcUp(r)
    BY <1>4 DEF ProcUp, Return
  <1>5. CASE Signal(r)
    BY <1>5 DEF Signal
  <1> QED
    BY <1>1, <1>2, <1>3, <1>4, <1>5, FlowAdd, FlowGet DEF Requester

LEMMA FlowDaemon ==
  ASSUME IInv, Flow, DaemonStep
  PROVE  Stages' /\ UmountAlone'
  <1> USE BlockKinds, PlacesKnown
      DEF Places, Roles, DaemonLabels, UmountLabels, RequesterLabels, ProcLabels,
      Flow, Stages, UmountAlone, AddLabels, GetLabels, ReadLabels, Goto, Up, InUser,
      callVars, daemonVars, deviceVars, chanVars
  <1>1. CASE Spawn \/ Open \/ OpenFails
    BY <1>1 DEF Spawn, Open, OpenFails
  <1>2. CASE Read
    <2>1. ReadChunk => slot["out"] # Empty
      BY DeviceAssumption DEF ReadChunk, Size, IInv, TypeOK, ChannelTyped
    <2> QED
      BY <1>2, <2>1 DEF Read, ReadDown, RereadDown, Down, ReadSleep, ReadWake,
         ReadGiveUp, CannotDown, ReadChunk, ReadEndOfFile
  <1>3. CASE ReadCall \/ TakeParameters \/ WriteCall
    BY <1>3 DEF ReadCall, TakeParameters, WriteCall
  <1>4. CASE \E n \in 0 .. RespUnits : Execute(n)
    BY <1>4 DEF Execute
  <1>5. CASE Exit \/ Release
    BY <1>5 DEF Exit, Release
  <1>6. CASE ClearIn \/ ClearOut
    BY <1>6 DEF ClearIn, ClearOut
  <1> QED
    BY <1>1, <1>2, <1>3, <1>4, <1>5, <1>6, FlowAdd, FlowGet DEF DaemonStep

LEMMA FlowUmount ==
  ASSUME IInv, Flow, UmountStart \/ UmountStep \/ Kill
  PROVE  Stages' /\ UmountAlone'
  <1> USE BlockKinds, PlacesKnown
      DEF Places, Roles, DaemonLabels, UmountLabels, RequesterLabels, ProcLabels,
      Flow, Stages, UmountAlone, AddLabels, GetLabels, ReadLabels, Goto, Up,
      callVars, daemonVars, deviceVars, chanVars
  <1>1. CASE UmountStart
    BY <1>1 DEF UmountStart
  <1>2. CASE UmountStep
    BY <1>2 DEF UmountStep, UmountDown, Down, UserCleanup, SendQuit, UmountWait,
       UmountWake, FreeSuper
  <1>3. CASE Kill
    BY <1>3 DEF Kill
  <1> QED
    BY <1>1, <1>2, <1>3

(* Only the holder of device.lock fills a queue, and the daemon knows which. *)
LEMMA AdmittedKept ==
  ASSUME IInv, Flow, [Next]_vars
  PROVE  Admitted'
  <1> USE DeviceAssumption, PlacesKnown
      DEF Places, Goto, Up, AddQueue, LockLabels, Admitted,
          callVars, daemonVars, deviceVars, chanVars
  <1>1. /\ \A t \in Tasks : devLock = t <=> pc[t] \in LockLabels
        /\ NoTask \notin Tasks
    BY DEF IInv, LockDiscipline
  <1>2. Admitted
    BY DEF Flow
  <1>3. ASSUME NEW t \in Requesters \cup {Daemon}, AddToBuffer(t) PROVE Admitted'
    <2> USE DEF AddReturns, DaemonGoesOn
    <2>1. CASE AddCheck(t)
      BY <1>2, <2>1 DEF AddCheck, NoMemory
    <2>2. CASE AddDown(t) \/ AddGiveUp(t)
      BY <1>2, <2>2 DEF AddDown, Down, AddGiveUp, CannotDown
    <2>3. CASE AddAdmit(t)
      BY <1>2, <2>3 DEF AddAdmit
    <2>4. CASE AddStore(t)
      BY <1>1, <2>4 DEF AddStore
    <2>5. CASE AddDrop(t) \/ AddSleep(t)
      BY <1>2, <2>5 DEF AddDrop, AddSleep
    <2>6. CASE AddWake(t)
      BY <1>2, <2>6 DEF AddWake
    <2> QED
      BY <1>3, <2>1, <2>2, <2>3, <2>4, <2>5, <2>6 DEF AddToBuffer
  <1>4. ASSUME NEW t \in Requesters \cup {Daemon}, GetFromBuffer(t) PROVE Admitted'
    <2> USE DEF GetReturnsNothing, NothingRetrieved, Retrieved, GetQueue
    <2>1. CASE GetTake(t)
      BY <1>2, <2>1 DEF GetTake
    <2>2. CASE GetTakeNothing(t) \/ GetDrop(t) \/ GetGiveUp(t)
      BY <1>2, <2>2 DEF GetTakeNothing, GetDrop, GetGiveUp, CannotDown
    <2>3. CASE GetDown(t) \/ GetAdmit(t) \/ GetSleep(t) \/ GetWake(t)
      BY <1>2, <2>3 DEF GetDown, Down, GetAdmit, GetSleep, GetWake
    <2> QED
      BY <1>4, <2>1, <2>2, <2>3 DEF GetFromBuffer
  <1>5. ASSUME NEW r \in Requesters,
               Call(r) \/ ProcDown(r) \/ ProcGiveUp(r) \/ ProcUp(r) \/ Signal(r)
        PROVE  Admitted'
    BY <1>2, <1>5 DEF Call, ProcDown, ProcGiveUp, ProcUp, Return, Signal
  <1>6. CASE Read
    BY <1>2, <1>6 DEF Read, ReadDown, RereadDown, Down, ReadSleep, ReadWake,
         ReadGiveUp, CannotDown, ReadChunk, ReadEndOfFile
  <1>7. CASE \/ Spawn \/ Open \/ OpenFails \/ ReadCall \/ TakeParameters \/ WriteCall
             \/ Exit \/ Release \/ ClearIn \/ ClearOut
             \/ \E n \in 0 .. RespUnits : Execute(n)
    BY <1>2, <1>7 DEF Spawn, Open, OpenFails, ReadCall, TakeParameters, WriteCall, Exit,
       Release, ClearIn, ClearOut, Execute, InUser
  <1>8. CASE SendQuit
    BY <1>1, <1>8 DEF SendQuit
  <1>9. CASE UmountStart \/ UmountDown \/ UserCleanup \/ UmountWait \/ UmountWake
             \/ FreeSuper \/ Kill
    BY <1>2, <1>9 DEF UmountStart, UmountDown, Down, UserCleanup, UmountWait, UmountWake,
       FreeSuper, Kill
  <1>10. CASE UNCHANGED vars
    BY <1>2, <1>10 DEF vars
  <1> QED
    BY <1>3, <1>4, <1>5, <1>6, <1>7, <1>8, <1>9, <1>10
    DEF Next, Requester, DaemonStep, UmountStep

(* The holder of device.lock keeps the daemon from reading, and only       *)
(* release empties the queue under it.                                     *)
LEMMA EmptiedKept ==
  ASSUME IInv, Flow, [Next]_vars
  PROVE  Emptied'
  <1> USE DeviceAssumption, PlacesKnown
      DEF Places, Goto, Up, LockLabels, Emptied, GetLabels, ReadLabels, AddLabels,
          callVars, daemonVars, deviceVars, chanVars
  <1>1. /\ \A t \in Tasks : devLock = t <=> pc[t] \in LockLabels
        /\ NoTask \notin Tasks /\ Stages
    BY DEF IInv, LockDiscipline, Flow
  <1>2. Emptied
    BY DEF Flow
  <1>3. ASSUME NEW t \in Requesters \cup {Daemon}, AddToBuffer(t) PROVE Emptied'
    <2> USE DEF AddReturns, DaemonGoesOn
    <2>1. CASE AddCheck(t)
      BY <1>1, <1>2, <2>1 DEF AddCheck, NoMemory, Stages
    <2>2. CASE AddDown(t) \/ AddGiveUp(t)
      BY <1>1, <1>2, <2>2 DEF AddDown, Down, AddGiveUp, CannotDown, Stages
    <2>3. CASE AddStore(t)
      BY <1>1, <2>3 DEF AddStore
    <2>4. CASE AddDrop(t)
      BY <1>1, <2>4 DEF AddDrop
    <2>5. CASE AddAdmit(t) \/ AddSleep(t) \/ AddWake(t)
      BY <1>2, <2>5 DEF AddAdmit, AddSleep, AddWake
    <2> QED
      BY <1>3, <2>1, <2>2, <2>3, <2>4, <2>5 DEF AddToBuffer
  <1>4. ASSUME NEW t \in Requesters \cup {Daemon}, GetFromBuffer(t) PROVE Emptied'
    <2> USE DEF GetReturnsNothing, NothingRetrieved, Retrieved, GetQueue
    <2>1. CASE GetTake(t)
      BY <1>1, <2>1 DEF GetTake
    <2>2. CASE GetAdmit(t)
      BY <1>1, <1>2, <2>2 DEF GetAdmit
    <2>3. CASE GetTakeNothing(t) \/ GetDrop(t) \/ GetGiveUp(t)
      BY <1>2, <2>3 DEF GetTakeNothing, GetDrop, GetGiveUp, CannotDown
    <2>4. CASE GetDown(t) \/ GetSleep(t) \/ GetWake(t)
      BY <1>2, <2>4 DEF GetDown, Down, GetSleep, GetWake
    <2> QED
      BY <1>4, <2>1, <2>2, <2>3, <2>4 DEF GetFromBuffer
  <1>5. ASSUME NEW r \in Requesters,
               Call(r) \/ ProcDown(r) \/ ProcGiveUp(r) \/ ProcUp(r) \/ Signal(r)
        PROVE  Emptied'
    BY <1>2, <1>5 DEF Call, ProcDown, ProcGiveUp, ProcUp, Return, Signal
  <1>6. CASE Read
    <2>1. CASE ReadDown \/ RereadDown \/ ReadSleep \/ ReadWake \/ ReadGiveUp
      BY <1>1, <1>2, <2>1 DEF ReadDown, RereadDown, Down, ReadSleep, ReadWake,
         ReadGiveUp, CannotDown
    <2>2. CASE pc[Daemon] \in {"reading", "rereading"} /\ (ReadChunk \/ ReadEndOfFile)
      BY <1>1, <2>2 DEF ReadChunk, ReadEndOfFile
    <2> QED
      BY <1>6, <2>1, <2>2 DEF Read
  <1>7. CASE \/ Spawn \/ Open \/ OpenFails \/ ReadCall \/ TakeParameters \/ WriteCall
             \/ Exit \/ Release \/ ClearIn \/ ClearOut
             \/ \E n \in 0 .. RespUnits : Execute(n)
    BY <1>2, <1>7 DEF Spawn, Open, OpenFails, ReadCall, TakeParameters, WriteCall, Exit,
       Release, ClearIn, ClearOut, Execute, InUser
  <1>8. CASE UmountStart \/ UmountStep \/ Kill
    BY <1>2, <1>8 DEF UmountStep, UmountStart, UmountDown, Down, UserCleanup, SendQuit,
       UmountWait, UmountWake, FreeSuper, Kill
  <1>9. CASE UNCHANGED vars
    BY <1>2, <1>9 DEF vars
  <1> QED
    BY <1>3, <1>4, <1>5, <1>6, <1>7, <1>8, <1>9 DEF Next, Requester, DaemonStep

LEMMA FlowStep == IInv /\ Flow /\ [Next]_vars => Flow'
  <1> SUFFICES ASSUME IInv, Flow, [Next]_vars PROVE Flow'
    OBVIOUS
  <1>1. CASE UNCHANGED vars
    BY <1>1, AdmittedKept, EmptiedKept DEF vars, chanVars, daemonVars, Flow, Stages,
       UmountAlone
  <1> QED
    BY <1>1, AdmittedKept, EmptiedKept, FlowRequester, FlowDaemon, FlowUmount
    DEF Next, Flow
----------------------------------------------------------------------------
(* The wait queues and the history that the proof of NoLostWakeup reads. *)
Waits ==
  /\ full \in [Queue -> SUBSET Tasks] /\ empty \in [Queue -> SUBSET Tasks]
  /\ Queue = {"in", "out"} /\ sig \in [Tasks -> BOOLEAN] /\ kills \in Nat

LEMMA WaitsKnown == IInv => Waits
  BY DeviceAssumption
  DEF IInv, TypeOK, ChannelTyped, TasksTyped, HistoryTyped, Waits, Queue

LEMMA WakeInit == Init => WInv
  BY DeviceAssumption, BlockKinds
  DEF Init, WInv, NoLostWakeup, ClosesAfterQuit, WaitsForIn, Tasks, Queue, Closing

LEMMA WakeAdd ==
  ASSUME IInv, Flow, WInv, NEW t \in Requesters \cup {Daemon}, AddToBuffer(t)
  PROVE  WInv'
  <1> USE BlockKinds, PlacesKnown, WaitsKnown
      DEF Places, Waits, Roles, DaemonLabels, UmountLabels, RequesterLabels, ProcLabels,
      Flow, Stages, UmountAlone, AddLabels, GetLabels, ReadLabels, Closing, Goto, Up,
      AddReturns, AddQueue, WInv, NoLostWakeup, ClosesAfterQuit, WaitsForIn,
      DaemonGoesOn, callVars, daemonVars, deviceVars, chanVars, histVars
  <1>1. CASE AddCheck(t)
    BY <1>1 DEF AddCheck, NoMemory
  <1>2. CASE AddDown(t)
    BY <1>2 DEF AddDown, Down
  <1>3. CASE AddGiveUp(t)
    BY <1>3 DEF AddGiveUp, CannotDown
  <1>4. CASE AddStore(t)
    BY <1>4 DEF AddStore, AddData
  <1>5. CASE AddDrop(t)
    BY <1>5 DEF AddDrop
  <1>6. CASE AddSleep(t)
    BY <1>6 DEF AddSleep
  <1>7. CASE AddWake(t)
    BY <1>7 DEF AddWake
  <1>8. CASE AddAdmit(t)
    BY <1>8 DEF AddAdmit
  <1> QED
    BY <1>1, <1>2, <1>3, <1>4, <1>5, <1>6, <1>7, <1>8 DEF AddToBuffer

LEMMA WakeGet ==
  ASSUME IInv, Flow, WInv, NEW t \in Requesters \cup {Daemon}, GetFromBuffer(t)
  PROVE  WInv'
  <1> USE BlockKinds, PlacesKnown, WaitsKnown
      DEF Places, Waits, Roles, DaemonLabels, UmountLabels, RequesterLabels, ProcLabels,
      Flow, Stages, UmountAlone, AddLabels, GetLabels, ReadLabels, Closing, Goto, Up,
      GetReturnsNothing, NothingRetrieved, Retrieved, GetQueue,
      WInv, NoLostWakeup, ClosesAfterQuit, WaitsForIn,
      callVars, daemonVars, deviceVars, chanVars, histVars
  <1>1. CASE GetDown(t)
    BY <1>1 DEF GetDown, Down
  <1>2. CASE GetGiveUp(t)
    BY <1>2 DEF GetGiveUp, CannotDown
  <1>3. CASE GetTake(t)
    BY <1>3 DEF GetTake
  <1>4. CASE GetDrop(t)
    BY <1>4 DEF GetDrop, IInv, InUseCounts
  <1>5. CASE GetSleep(t)
    BY <1>5 DEF GetSleep
  <1>6. CASE GetWake(t)
    BY <1>6 DEF GetWake
  <1>7. CASE GetAdmit(t)
    BY <1>7 DEF GetAdmit
  <1>8. CASE GetTakeNothing(t)
    BY <1>8 DEF GetTakeNothing
  <1> QED
    BY <1>1, <1>2, <1>3, <1>4, <1>5, <1>6, <1>7, <1>8 DEF GetFromBuffer

LEMMA WakeRequester ==
  ASSUME IInv, Flow, WInv, NEW r \in Requesters, Requester(r) \/ Signal(r)
  PROVE  WInv'
  <1> USE PlacesKnown, WaitsKnown
      DEF Places, Waits, Roles, DaemonLabels, UmountLabels, RequesterLabels, ProcLabels,
      Flow, Stages, UmountAlone, AddLabels, GetLabels, ReadLabels, Closing, Goto,
      WInv, NoLostWakeup, ClosesAfterQuit, WaitsForIn,
      callVars, daemonVars, deviceVars, chanVars, histVars
  <1>1. CASE Call(r)
    BY <1>1 DEF Call
  <1>2. CASE ProcDown(r)
    BY <1>2 DEF ProcDown
  <1>3. CASE ProcGiveUp(r)
    BY <1>3 DEF ProcGiveUp, Return
  <1>4. CASE ProcUp(r)
    BY <1>4 DEF ProcUp, Return
  <1>5. CASE Signal(r)
    BY <1>5 DEF Signal
  <1> QED
    BY <1>1, <1>2, <1>3, <1>4, <1>5, WakeAdd, WakeGet DEF Requester

LEMMA WakeDaemon ==
  ASSUME IInv, Flow, WInv, DaemonStep
  PROVE  WInv'
  <1> USE BlockKinds, PlacesKnown, WaitsKnown
      DEF Places, Waits, Roles, DaemonLabels, UmountLabels, RequesterLabels, ProcLabels,
      Flow, Stages, UmountAlone, AddLabels, GetLabels, ReadLabels, Closing, Goto, Up,
      InUser,
      WInv, NoLostWakeup, ClosesAfterQuit, WaitsForIn,
      callVars, daemonVars, deviceVars, chanVars, histVars
  <1>1. CASE Spawn \/ Open \/ OpenFails
    BY <1>1 DEF Spawn, Open, OpenFails
  <1>2. CASE Read
    BY <1>2 DEF Read, ReadDown, RereadDown, Down, ReadSleep, ReadWake,
         ReadGiveUp, CannotDown, ReadChunk, ReadEndOfFile
  <1>3. CASE ReadCall \/ TakeParameters \/ WriteCall
    BY <1>3 DEF ReadCall, TakeParameters, WriteCall
  <1>4. CASE \E n \in 0 .. RespUnits : Execute(n)
    BY <1>4 DEF Execute
  <1>5. CASE Exit \/ Release
    BY <1>5 DEF Exit, Release
  <1>6. CASE ClearIn \/ ClearOut
    BY <1>6 DEF ClearIn, ClearOut
  <1> QED
    BY <1>1, <1>2, <1>3, <1>4, <1>5, <1>6, WakeAdd, WakeGet DEF DaemonStep

LEMMA WakeUmount ==
  ASSUME IInv, Flow, WInv, UmountStart \/ UmountStep \/ Kill
  PROVE  WInv'
  <1> USE BlockKinds, PlacesKnown, WaitsKnown
      DEF Places, Waits, Roles, DaemonLabels, UmountLabels, RequesterLabels, ProcLabels,
      Flow, Stages, UmountAlone, AddLabels, GetLabels, ReadLabels, Closing, Goto, Up,
      WInv, NoLostWakeup, ClosesAfterQuit, WaitsForIn,
      callVars, daemonVars, deviceVars, chanVars, histVars
  <1>1. CASE UmountStart
    BY <1>1 DEF UmountStart
  <1>2. CASE UmountDown
    BY <1>2 DEF UmountDown, Down
  <1>3. CASE UserCleanup \/ SendQuit
    BY <1>3 DEF UserCleanup, SendQuit
  <1>4. CASE UmountWait
    BY <1>4 DEF UmountWait
  <1>5. CASE UmountWake \/ FreeSuper
    BY <1>5 DEF UmountWake, FreeSuper
  <1>6. CASE Kill
    BY <1>6 DEF Kill
  <1> QED
    BY <1>1, <1>2, <1>3, <1>4, <1>5, <1>6 DEF UmountStep

LEMMA WakeStep == IInv /\ Flow /\ WInv /\ [Next]_vars => WInv'
  <1> SUFFICES ASSUME IInv, Flow, WInv, [Next]_vars PROVE WInv'
    OBVIOUS
  <1>1. CASE UNCHANGED vars
    BY <1>1 DEF vars, chanVars, daemonVars, histVars, WInv, NoLostWakeup,
       ClosesAfterQuit, WaitsForIn
  <1> QED
    BY <1>1, WakeRequester, WakeDaemon, WakeUmount DEF Next

(* Nobody sleeps past a wake_up: wake_up of full and empty is called on    *)
(* every path of devfs.c that fills or empties a queue under the lock, and *)
(* the queues that release empties without one have no sleepers unless the *)
(* daemon was killed.                                                      *)
THEOREM WakeupsReach == Spec => []NoLostWakeup
  <1>1. WInv => NoLostWakeup
    BY DEF WInv
  <1> QED
    BY <1>1, InitIInv, NextPreserves, FlowInit, FlowStep, WakeInit, WakeStep, PTL DEF Spec
----------------------------------------------------------------------------
(* Nobody forgets a signal, a kill or a failed kmalloc. *)
LEMMA CountsGrow ==
  [Next]_vars => /\ signals' = signals \/ signals' = signals + 1
                 /\ kills' = kills \/ kills' = kills + 1
                 /\ UNCHANGED squeezed \/ squeezed' = TRUE
  <1> DEFINE Same == /\ UNCHANGED <<signals, kills>>
                     /\ UNCHANGED squeezed \/ squeezed' = TRUE
  <1>1. ASSUME NEW t \in Requesters \cup {Daemon}, AddToBuffer(t) \/ GetFromBuffer(t)
        PROVE  Same
    BY <1>1 DEF histVars, AddToBuffer, AddCheck, AddDown, Down, AddGiveUp, AddAdmit,
       AddStore, AddDrop, AddSleep, AddWake, GetFromBuffer, GetDown, GetGiveUp, GetAdmit,
       GetTake, GetTakeNothing, GetDrop, GetSleep, GetWake, Retrieved
  <1>2. ASSUME NEW r \in Requesters, Call(r) \/ ProcDown(r) \/ ProcGiveUp(r) \/ ProcUp(r)
        PROVE  Same
    BY <1>2 DEF histVars, Call, ProcDown, ProcGiveUp, ProcUp, Return
  <1>3. Read => Same
    BY DEF histVars, Read, ReadDown, RereadDown, Down, ReadSleep, ReadWake,
       ReadGiveUp, ReadChunk, ReadEndOfFile
  <1>4. DaemonStep => Same
    BY <1>1, <1>3 DEF histVars, DaemonStep, Spawn, Open, OpenFails, ReadCall,
       TakeParameters, Execute, WriteCall, Exit, Release, ClearIn, ClearOut
  <1>5. UmountStart \/ UmountStep => Same
    BY DEF histVars, UmountStart, UmountStep, UmountDown, Down, UserCleanup, SendQuit,
       UmountWait, UmountWake, FreeSuper
  <1>6. (\E r \in Requesters : Signal(r))
          => signals' = signals + 1 /\ UNCHANGED <<kills, squeezed>>
    BY DEF Signal
  <1>7. Kill => kills' = kills + 1 /\ UNCHANGED <<signals, squeezed>>
    BY DEF Kill
  <1> QED
    BY <1>1, <1>2, <1>4, <1>5, <1>6, <1>7 DEF Next, Requester, vars, histVars

LEMMA ParametersInit == Init => ParametersWait
  BY DeviceAssumption, BlockKinds DEF Init, ParametersWait, Tasks, Queue, ReadLabels,
     InUser

LEMMA ParametersAdd ==
  ASSUME IInv, Flow, ParametersWait, ~squeezed',
         NEW t \in Requesters \cup {Daemon}, AddToBuffer(t)
  PROVE  ParametersWait'
  <1> USE BlockKinds, PlacesKnown
      DEF Places, Roles, DaemonLabels, UmountLabels, RequesterLabels, ProcLabels,
      Flow, Stages, UmountAlone, AddLabels, GetLabels, ReadLabels, Goto, Up, AddReturns,
      DaemonGoesOn, callVars, daemonVars, deviceVars, chanVars, InUser, ParametersWait
  <1>1. CASE AddCheck(t)
    BY <1>1 DEF AddCheck, NoMemory, IInv, InUseCounts
  <1>2. CASE AddDown(t)
    BY <1>2 DEF AddDown, Down
  <1>3. CASE AddGiveUp(t)
    BY <1>3 DEF AddGiveUp, CannotDown
  <1>4. CASE AddStore(t)
    BY <1>4 DEF AddStore, AddQueue, AddData, Admitted
  <1>5. CASE AddDrop(t)
    BY <1>5 DEF AddDrop, IInv, InUseCounts
  <1>6. CASE AddSleep(t)
    BY <1>6 DEF AddSleep
  <1>7. CASE AddWake(t)
    BY <1>7 DEF AddWake
  <1>8. CASE AddAdmit(t)
    BY <1>8 DEF AddAdmit
  <1> QED
    BY <1>1, <1>2, <1>3, <1>4, <1>5, <1>6, <1>7, <1>8 DEF AddToBuffer

LEMMA ParametersStep ==
  IInv /\ Flow /\ ParametersWait /\ ~squeezed' /\ [Next]_vars => ParametersWait'
  <1> SUFFICES ASSUME IInv, Flow, ParametersWait, ~squeezed', [Next]_vars
               PROVE  ParametersWait'
    OBVIOUS
  <1> USE BlockKinds, PlacesKnown
      DEF Places, Roles, DaemonLabels, UmountLabels, RequesterLabels, ProcLabels,
      Flow, Stages, UmountAlone, AddLabels, GetLabels, ReadLabels, Goto, Up,
      callVars, daemonVars, deviceVars, chanVars, InUser, ParametersWait
  <1>1. ASSUME NEW t \in Requesters \cup {Daemon}, GetFromBuffer(t)
        PROVE  ParametersWait'
    BY <1>1 DEF GetFromBuffer, GetDown, Down, GetGiveUp, CannotDown, GetAdmit, GetTake,
       GetTakeNothing, GetDrop,
       GetSleep, GetWake, GetReturnsNothing, NothingRetrieved, Retrieved, GetQueue,
       IInv, InUseCounts
  <1>2. ASSUME NEW r \in Requesters,
               Call(r) \/ ProcDown(r) \/ ProcGiveUp(r) \/ ProcUp(r) \/ Signal(r)
        PROVE  ParametersWait'
    BY <1>2, WaitsKnown DEF Waits, Call, ProcDown, ProcGiveUp, ProcUp, Return, Signal
  <1>3. CASE Spawn \/ Open \/ OpenFails
    BY <1>3 DEF Spawn, Open, OpenFails
  <1>4. CASE Read
    BY <1>4 DEF Read, ReadDown, RereadDown, Down, ReadSleep, ReadWake,
       ReadGiveUp, CannotDown, ReadChunk, ReadEndOfFile
  <1>5. CASE ReadCall \/ TakeParameters \/ WriteCall
    BY <1>5 DEF ReadCall, TakeParameters, WriteCall
  <1>6. CASE \E n \in 0 .. RespUnits : Execute(n)
    BY <1>6 DEF Execute
  <1>7. CASE Exit \/ Release \/ ClearIn \/ ClearOut
    BY <1>7 DEF Exit, Release, ClearIn, ClearOut
  <1>8. CASE UmountStart \/ UmountStep \/ Kill
    BY <1>8 DEF UmountStart, UmountStep, UmountDown, Down, UserCleanup, SendQuit,
       UmountWait,
       UmountWake, FreeSuper, Kill
  <1>9. CASE UNCHANGED vars
    BY <1>9 DEF vars
  <1> QED
    BY <1>1, <1>2, <1>3, <1>4, <1>5, <1>6, <1>7, <1>8, <1>9, ParametersAdd
    DEF Next, Requester, DaemonStep

(* The first message of a daemon is the parameter string or quit, however  *)
(* VFS calls fall between the steps of open, unless a kmalloc failed.      *)
THEOREM ParametersComeFirst == Spec => []ParametersFirst
  <1>1. Init => PInv
    BY ParametersInit DEF PInv
  <1>2. IInv /\ Flow /\ PInv /\ [Next]_vars => PInv'
    BY CountsGrow, ParametersStep DEF PInv
  <1>3. PInv => ParametersFirst
    BY DEF PInv, ParametersWait, ParametersFirst
  <1> QED
    BY <1>1, <1>2, <1>3, InitIInv, NextPreserves, FlowInit, FlowStep, PTL DEF Spec
----------------------------------------------------------------------------
(* proc.lock tells which task is in serialize_request; got is typed. *)
Serialized ==
  /\ procLock \in Requesters \cup {NoTask} /\ NoTask \notin Requesters
  /\ \A r \in Requesters : procLock = r <=> pc[r] \in ProcLabels
  /\ got \in [Requesters -> Seq(Block)] /\ cur \in [Requesters -> {0} \cup Ids]
  /\ ret \in [Requesters -> {"none", "ok", "fail"}]
  /\ inUse = IF pc[Daemon] \in {"none", "open", "clearIn", "clearOut"} THEN 0 ELSE 1
  /\ sig \in [Tasks -> BOOLEAN] /\ signals \in Nat /\ RespUnits \in Nat
  /\ part \in 0 .. RespUnits /\ answer \in 0 .. RespUnits
  /\ msg \in Block

LEMMA SerializedKnown == IInv => Serialized
  BY DeviceAssumption
  DEF IInv, TypeOK, TasksTyped, CallsTyped, DaemonTyped, HistoryTyped,
      LockDiscipline, InUseCounts, Serialized, Tasks

(* What Append does to the blocks a task has retrieved. *)
LEMMA AppendBlock ==
  ASSUME NEW s \in Seq(Block), NEW b \in Block
  PROVE  /\ Append(s, b) \in Seq(Block) /\ Append(s, b) # <<>>
         /\ Len(Append(s, b)) = Len(s) + 1 /\ Len(s) \in Nat
         /\ s = <<>> <=> Len(s) = 0
         /\ Append(s, b)[Len(s) + 1] = b
         /\ \A k \in 1 .. Len(s) : Append(s, b)[k] = s[k]
  OBVIOUS

LEMMA BlockTyped ==
  ASSUME NEW b \in Block
  PROVE  b.part \in 0 .. RespUnits /\ b.of \in 0 .. RespUnits /\ b.id \in {0} \cup Ids
  BY DEF Block

LEMMA ExchangeInit == Init => XInv
  BY DeviceAssumption DEF Init, XInv, Received, Taking, Tasks
----------------------------------------------------------------------------
LEMMA ExchangeAddRequester ==
  ASSUME IInv, Flow, XInv, Calm, Calm', NEW t \in Requesters, AddToBuffer(t)
  PROVE  XInv'
  <1> USE BlockKinds, PlacesKnown, SerializedKnown
      DEF Places, Serialized, Roles, DaemonLabels, UmountLabels, RequesterLabels,
      ProcLabels, Flow, Stages, UmountAlone, AddLabels, GetLabels, ReadLabels, Goto, Up,
      AddReturns, AddQueue, callVars, daemonVars, deviceVars, chanVars, histVars,
      InUser, XInv, Received, Awaits, RequestQueued, RequestRead, ResponseQueued,
      ResponseWritten, Writes, Follows, Settled, Taking
  <1>1. CASE AddCheck(t)
    <2>1. CASE AddReturns(t, FALSE)
      BY <1>1, <2>1 DEF AddCheck
    <2>2. CASE Goto(t, "add") /\ UNCHANGED <<callVars, daemonVars>>
      BY <1>1, <2>2 DEF AddCheck
    <2> QED
      BY <1>1, <2>1, <2>2 DEF AddCheck, NoMemory
  <1>2. CASE AddDown(t)
    BY <1>2 DEF AddDown, Down
  <1>3. CASE AddGiveUp(t)
    BY <1>3 DEF AddGiveUp, CannotDown
  <1>4. CASE AddStore(t)
    <2>1. /\ pc[t] = "storing" /\ procLock = t /\ slot["out"] = Empty
          /\ slot' = [slot EXCEPT !["out"] = Req(cur[t])] /\ Goto(t, "get")
          /\ UNCHANGED <<inUse, sig, procLock, served, callVars, daemonVars>>
      <3>1. pc[t] = "storing" /\ procLock = t
        BY <1>4 DEF AddStore
      <3>2. slot["out"] = Empty
        BY <3>1 DEF Admitted
      <3> QED
        BY <1>4, <3>1, <3>2 DEF AddStore, AddData
    <2>2. \A r \in Requesters : ~sig'[r] /\ Received(r)'
      BY <2>1
    <2>3. got[t] = <<>> /\ ~ \E i : Awaits(i)
      BY <2>1
    <2>4. slot["in"] = Empty \/ inUse = 0
      BY <2>3
    <2>5. inUse # 0 /\ Settled => RequestQueued' /\ RequestRead'
      BY <2>1, <2>3, <2>4
    <2>6. (inUse # 0 => ResponseQueued' /\ ResponseWritten') /\ ~Taking'
      BY <2>1, <2>3, <2>4
    <2> QED
      BY <2>1, <2>2, <2>5, <2>6
  <1>5. CASE AddDrop(t)
    <2>1. /\ procLock = t /\ inUse = 0 /\ Goto(t, "procUp")
          /\ ret' = [ret EXCEPT ![t] = "fail"]
          /\ UNCHANGED <<slot, inUse, sig, procLock, served, cur, got, daemonVars>>
      BY <1>5 DEF AddDrop
    <2> QED
      BY <2>1
  <1>6. CASE AddSleep(t)
    BY <1>6 DEF AddSleep
  <1>7. CASE AddWake(t)
    BY <1>7 DEF AddWake
  <1>8. CASE AddAdmit(t)
    BY <1>8 DEF AddAdmit
  <1> QED
    BY <1>1, <1>2, <1>3, <1>4, <1>5, <1>6, <1>7, <1>8 DEF AddToBuffer

LEMMA ExchangeAddDaemon ==
  ASSUME IInv, Flow, XInv, Calm, Calm', AddToBuffer(Daemon)
  PROVE  XInv'
  <1> USE BlockKinds, PlacesKnown, SerializedKnown
      DEF Places, Serialized, Roles, DaemonLabels, UmountLabels, RequesterLabels,
      ProcLabels, Flow, Stages, UmountAlone, AddLabels, GetLabels, ReadLabels, Goto, Up,
      AddReturns, AddQueue, DaemonGoesOn, callVars, daemonVars, deviceVars, chanVars,
      histVars,
      InUser, XInv, Received, Awaits, RequestQueued, RequestRead, ResponseQueued,
      ResponseWritten, Writes, Follows, Settled, Taking
  <1>1. CASE AddCheck(Daemon)
    <2>1. CASE NoMemory(Daemon)
      <3>1. /\ UNCHANGED <<slot, got, cur, procLock, inUse, sig, served, signals, ret>>
            /\ pc' = [pc EXCEPT ![Daemon] = "user"] /\ pc[Daemon] = "addCheck"
        BY <1>1, <2>1 DEF AddCheck, NoMemory
      <3>2. CASE job = "open" /\ job' = "init" /\ UNCHANGED <<msg, part, answer>>
        BY <3>1, <3>2
      <3>3. CASE /\ job = "write"
                 /\ job' = "ready" /\ msg' = Empty /\ part' = 0 /\ answer' = 0
        BY <3>1, <3>3
      <3> QED
        BY <2>1, <3>2, <3>3 DEF NoMemory
    <2>2. CASE Goto(Daemon, "add") /\ UNCHANGED <<callVars, daemonVars>>
      BY <1>1, <2>2 DEF AddCheck
    <2> QED
      BY <1>1, <2>1, <2>2 DEF AddCheck
  <1>2. CASE AddDown(Daemon)
    BY <1>2 DEF AddDown, Down
  <1>3. CASE AddGiveUp(Daemon)
    BY <1>3 DEF AddGiveUp, CannotDown
  <1>4. CASE AddStore(Daemon)
    <2>1. /\ pc[Daemon] = "storing" /\ Goto(Daemon, "user")
          /\ UNCHANGED <<inUse, sig, procLock, served, callVars, params>>
      BY <1>4 DEF AddStore
    <2>2. CASE job = "open"
      <3>1. slot'["in"] = slot["in"] /\ job' = "init" /\ msg' = Empty
        BY <1>4, <2>2 DEF AddStore
      <3> QED
        BY <2>1, <2>2, <3>1
    <2>3. CASE job = "write"
      <3>1. /\ slot["in"] = Empty
            /\ slot' = [slot EXCEPT !["in"] = Resp(msg.id, part, answer)]
            /\ \/ part < answer /\ part' = part + 1 /\ UNCHANGED <<job, msg, answer>>
               \/ part >= answer /\ job' = "ready" /\ msg' = Empty
        BY <1>4, <2>3 DEF AddStore, AddData, Admitted
      <3>2. slot'["in"] = Resp(msg.id, part, answer) /\ slot'["out"] = slot["out"]
        BY <3>1
      <3>3. Awaits(msg.id) /\ msg.id \in served /\ Follows(part, answer)
        BY <2>1, <2>3, <3>1
      <3> QED
        BY <2>1, <2>3, <3>1, <3>2, <3>3
    <2> QED
      BY <2>1, <2>2, <2>3
  <1>5. CASE AddDrop(Daemon)
    BY <1>5 DEF AddDrop
  <1>6. CASE AddSleep(Daemon)
    BY <1>6 DEF AddSleep
  <1>7. CASE AddWake(Daemon)
    BY <1>7 DEF AddWake
  <1>8. CASE AddAdmit(Daemon)
    BY <1>8 DEF AddAdmit
  <1> QED
    BY <1>1, <1>2, <1>3, <1>4, <1>5, <1>6, <1>7, <1>8 DEF AddToBuffer

LEMMA ExchangeGetDaemon ==
  ASSUME IInv, Flow, XInv, Calm, Calm', GetFromBuffer(Daemon)
  PROVE  XInv'
  <1> USE BlockKinds, PlacesKnown, SerializedKnown
      DEF Places, Serialized, Roles, DaemonLabels, UmountLabels, RequesterLabels,
      ProcLabels, Flow, Stages, UmountAlone, AddLabels, GetLabels, ReadLabels, Goto, Up,
      GetReturnsNothing, GetQueue, callVars, daemonVars, deviceVars, chanVars, histVars,
      InUser, XInv, Received, Awaits, RequestQueued, RequestRead, ResponseQueued,
      ResponseWritten, Writes, Follows, Settled, Taking
  <1>1. CASE GetDown(Daemon)
    BY <1>1 DEF GetDown, Down
  <1>2. CASE GetGiveUp(Daemon)
    BY <1>2 DEF GetGiveUp, CannotDown
  <1>3. CASE GetTake(Daemon)
    BY <1>3 DEF GetTake
  <1>4. CASE GetDrop(Daemon)
    BY <1>4 DEF GetDrop
  <1>5. CASE GetSleep(Daemon)
    BY <1>5 DEF GetSleep
  <1>6. CASE GetWake(Daemon)
    BY <1>6 DEF GetWake
  <1>7. CASE GetAdmit(Daemon)
    BY <1>7 DEF GetAdmit
  <1>8. CASE GetTakeNothing(Daemon)
    BY <1>8 DEF GetTakeNothing
  <1> QED
    BY <1>1, <1>2, <1>3, <1>4, <1>5, <1>6, <1>7, <1>8 DEF GetFromBuffer

LEMMA ExchangeGetRequester ==
  ASSUME IInv, Flow, XInv, Calm, Calm',
         NEW t \in Requesters, GetFromBuffer(t)
  PROVE  XInv'
  <1> USE BlockKinds, PlacesKnown, SerializedKnown
      DEF Places, Serialized, Roles, DaemonLabels, UmountLabels, RequesterLabels,
      ProcLabels, Flow, Stages, UmountAlone, AddLabels, GetLabels, ReadLabels, Goto, Up,
      GetReturnsNothing, NothingRetrieved, GetQueue, callVars, daemonVars, deviceVars,
      chanVars, histVars,
      InUser, XInv, Received, Awaits, RequestQueued, RequestRead, ResponseQueued,
      ResponseWritten, Writes, Follows, Settled, Taking
  <1>1. CASE GetDown(t)
    BY <1>1 DEF GetDown, Down
  <1>2. CASE GetGiveUp(t)
    BY <1>2 DEF GetGiveUp, CannotDown
  <1>3. CASE GetTake(t)
    <2> DEFINE b == slot["in"]
               g == Append(got[t], b)
    <2>1. /\ pc[t] = "taking" /\ procLock = t /\ b # Empty /\ Taking
          /\ slot' = [slot EXCEPT !["in"] = Empty]
          /\ got' = [got EXCEPT ![t] = g]
          /\ UNCHANGED <<procLock, inUse, sig, signals, served, cur, daemonVars>>
          /\ Retrieved(t, g)
      <3>1. pc[t] = "taking" /\ procLock = t
        BY <1>3 DEF GetTake
      <3> QED
        BY <1>3, <3>1 DEF GetTake, Retrieved
    <2>2. /\ got[t] \in Seq(Block) /\ b \in Block /\ g \in Seq(Block) /\ g # <<>>
          /\ Len(g) = Len(got[t]) + 1 /\ Len(got[t]) \in Nat
          /\ got[t] = <<>> <=> Len(got[t]) = 0
          /\ g[Len(g)] = b /\ \A k \in 1 .. Len(got[t]) : g[k] = got[t][k]
      BY AppendBlock
    <2> HIDE DEF g
    <2>3. b.part \in 0 .. RespUnits /\ b.of \in 0 .. RespUnits
      BY <2>2, BlockTyped
    <2>4. /\ b.kind = "resp" /\ b.id = cur[t] /\ cur[t] \in served
          /\ b.part = Len(g) /\ job \in {"ready", "write"}
          /\ got[t] # <<>> => b.of = got[t][1].of
          /\ msg.kind = "req" => job = "write"
          /\ job = "write" => b.part < b.of /\ b.of = answer
      BY <2>1, <2>2
    <2>5. \A k \in 1 .. Len(g) :
            g[k].kind = "resp" /\ g[k].id = cur[t] /\ g[k].part = k
      <3> SUFFICES ASSUME NEW k \in 1 .. Len(g)
                   PROVE  g[k].kind = "resp" /\ g[k].id = cur[t] /\ g[k].part = k
        OBVIOUS
      <3>1. CASE k = Len(g)
        BY <2>2, <2>4, <3>1
      <3>2. CASE k # Len(g)
        <4>1. k \in 1 .. Len(got[t]) /\ g[k] = got[t][k]
          BY <2>2, <3>2
        <4>2. Received(t)
          OBVIOUS
        <4> QED
          BY <4>1, <4>2
      <3> QED
        BY <3>1, <3>2
    <2>6. got[t] # <<>> => g[1] = got[t][1] /\ g[1].part = 1 /\ Len(got[t]) < g[1].of
      <3> SUFFICES ASSUME got[t] # <<>> PROVE g[1] = got[t][1] /\ g[1].part = 1 /\ Len(got[t]) < g[1].of
        OBVIOUS
      <3>1. g[1] = got[t][1]
        BY <2>2
      <3>2. got[t][1].part = 1 /\ Len(got[t]) < got[t][1].of
        BY <2>1
      <3> QED
        BY <3>1, <3>2
    <2>7. got[t] = <<>> => g[1] = b
      BY <2>2
    <2>8. job = "write" => g[1].part = 1 /\ Len(g) < g[1].of /\ g[1].of = answer
      BY <2>2, <2>3, <2>4, <2>6, <2>7
    <2>9. g[1].part = 1 /\ g[1].of \in 0 .. RespUnits
      <3>1. got[t] # <<>> => got[t][1] \in Block
        BY <2>2
      <3> QED
        BY <2>2, <2>3, <2>4, <2>6, <2>7, <3>1, BlockTyped
    <2>10. /\ UNCHANGED <<cur, daemonVars>>
           /\ \/ /\ Len(g) < g[1].of /\ Goto(t, "get") /\ UNCHANGED ret
              \/ /\ Len(g) >= g[1].of /\ Goto(t, "procUp")
                 /\ ret' = [ret EXCEPT ![t] = IF g[1].of = 0 THEN "fail" ELSE "ok"]
      <3>1. squeezed' = TRUE => RespUnits <= 1
        BY DEF Calm
      <3> QED
        BY <2>1, <2>2, <2>9, <3>1 DEF Retrieved
    <2>11. Received(t)'
      BY <2>1, <2>2, <2>4, <2>5, <2>6, <2>7, <2>10
    <2>12. \A r \in Requesters : ~sig'[r] /\ Received(r)'
      BY <2>1, <2>10, <2>11
    <2>13. inUse # 0 /\ Settled => RequestQueued' /\ RequestRead'
      BY <2>1, <2>4, <2>8, <2>10
    <2>14. ResponseQueued' /\ (Settled' <=> Settled)
      BY <2>1, <2>10
    <2>15. inUse # 0 => ResponseWritten'
      BY <2>1, <2>2, <2>4, <2>6, <2>7, <2>8, <2>10
    <2> QED
      BY <2>1, <2>12, <2>13, <2>14, <2>15
  <1>4. CASE GetDrop(t)
    BY <1>4 DEF GetDrop
  <1>5. CASE GetSleep(t)
    BY <1>5 DEF GetSleep
  <1>6. CASE GetWake(t)
    BY <1>6 DEF GetWake
  <1>7. CASE GetAdmit(t)
    BY <1>7 DEF GetAdmit
  <1>8. CASE GetTakeNothing(t)
    <2>1. /\ pc[t] = "taking" /\ procLock = t /\ slot["in"] = Empty /\ Goto(t, "procUp")
          /\ ret' = [ret EXCEPT ![t] = IF got[t] = <<>> THEN "fail" ELSE "ok"]
          /\ UNCHANGED <<slot, inUse, sig, procLock, served, cur, got, daemonVars>>
      BY <1>8 DEF GetTakeNothing
    <2>2. inUse = 0 \/ (job \in {"open", "init"} /\ msg = Empty)
      BY <2>1 DEF Emptied
    <2>3. \A r \in Requesters : ~sig'[r] /\ Received(r)'
      BY <2>1
    <2> QED
      BY <2>1, <2>2, <2>3
  <1> QED
    BY <1>1, <1>2, <1>3, <1>4, <1>5, <1>6, <1>7, <1>8 DEF GetFromBuffer

LEMMA ExchangeCalls ==
  ASSUME IInv, Flow, XInv, Calm, Calm', NEW r \in Requesters,
         Call(r) \/ ProcDown(r) \/ ProcGiveUp(r) \/ ProcUp(r)
  PROVE  XInv'
  <1> USE BlockKinds, PlacesKnown, SerializedKnown
      DEF Places, Serialized, Roles, DaemonLabels, UmountLabels, RequesterLabels,
      ProcLabels, Flow, Stages, UmountAlone, AddLabels, GetLabels, ReadLabels, Goto,
      callVars, daemonVars, deviceVars, chanVars, histVars,
      InUser, XInv, Received, Awaits, RequestQueued, RequestRead, ResponseQueued,
      ResponseWritten, Writes, Follows, Settled, Taking
  <1>1. CASE Call(r)
    BY <1>1 DEF Call
  <1>2. CASE ProcDown(r)
    BY <1>2 DEF ProcDown
  <1>3. CASE ProcGiveUp(r)
    BY <1>3 DEF ProcGiveUp
  <1>4. CASE ProcUp(r)
    BY <1>4 DEF ProcUp, Return
  <1> QED
    BY <1>1, <1>2, <1>3, <1>4

LEMMA ExchangeDaemon ==
  ASSUME IInv, Flow, XInv, Calm, Calm', DaemonStep
  PROVE  XInv'
  <1> USE BlockKinds, PlacesKnown, SerializedKnown
      DEF Places, Serialized, Roles, DaemonLabels, UmountLabels, RequesterLabels,
      ProcLabels, Flow, Stages, UmountAlone, AddLabels, GetLabels, ReadLabels, Goto, Up,
      callVars, daemonVars, deviceVars, chanVars, histVars,
      InUser, XInv, Received, Awaits, RequestQueued, RequestRead, ResponseQueued,
      ResponseWritten, Writes, Follows, Settled, Taking
  <1>1. CASE Spawn \/ OpenFails
    BY <1>1 DEF Spawn, OpenFails
  <1>2. CASE Open
    BY <1>2 DEF Open, IInv, Cleared
  <1>3. CASE Read
    <2>1. ASSUME ReadChunk, pc[Daemon] \in {"reading", "rereading"} PROVE XInv'
      BY <2>1 DEF ReadChunk
    <2>2. ASSUME ReadEndOfFile, pc[Daemon] \in {"reading", "rereading"} PROVE XInv'
      BY <2>2 DEF ReadEndOfFile
    <2>3. CASE ReadDown \/ RereadDown
      BY <2>3 DEF ReadDown, RereadDown, Down
    <2>4. CASE ReadSleep
      BY <2>4 DEF ReadSleep
    <2>6. CASE ReadGiveUp
      <3>1. sig[Daemon] /\ pc[Daemon] \in ReadLabels /\ Goto(Daemon, "user")
            /\ UNCHANGED <<slot, inUse, sig, procLock, served, callVars, daemonVars>>
        BY <2>6 DEF ReadGiveUp, CannotDown
      <3>2. ~InUser /\ ~InUser'
        BY <3>1
      <3> QED
        BY <3>1, <3>2
    <2>5. CASE ReadWake
      BY <2>5 DEF ReadWake
    <2> QED
      BY <1>3, <2>1, <2>2, <2>3, <2>4, <2>5, <2>6 DEF Read
  <1>4. CASE ReadCall \/ TakeParameters \/ WriteCall
    <2>1. CASE ReadCall
      BY <2>1 DEF ReadCall
    <2>2. CASE TakeParameters
      BY <2>2 DEF TakeParameters
    <2>3. CASE WriteCall
      BY <2>3 DEF WriteCall
    <2> QED
      BY <1>4, <2>1, <2>2, <2>3
  <1>5. CASE \E n \in 0 .. RespUnits : Execute(n)
    BY <1>5 DEF Execute
  <1>6. CASE Exit
    BY <1>6 DEF Exit
  <1>7. CASE Release \/ ClearIn \/ ClearOut
    <2>1. CASE Release
      BY <2>1 DEF Release
    <2>2. CASE ClearIn
      BY <2>2 DEF ClearIn
    <2>3. CASE ClearOut
      BY <2>3 DEF ClearOut, IInv, Cleared
    <2> QED
      BY <1>7, <2>1, <2>2, <2>3
  <1> QED
    BY <1>1, <1>2, <1>3, <1>4, <1>5, <1>6, <1>7, ExchangeAddDaemon, ExchangeGetDaemon
    DEF DaemonStep

LEMMA ExchangeUmount ==
  ASSUME IInv, Flow, XInv, Calm, Calm', UmountStart \/ UmountStep \/ Kill
  PROVE  XInv'
  <1> USE BlockKinds, PlacesKnown, SerializedKnown
      DEF Places, Serialized, Roles, DaemonLabels, UmountLabels, RequesterLabels,
      ProcLabels, Flow, Stages, UmountAlone, AddLabels, GetLabels, ReadLabels, Goto, Up,
      callVars, daemonVars, deviceVars, chanVars, histVars,
      InUser, XInv, Received, Awaits, RequestQueued, RequestRead, ResponseQueued,
      ResponseWritten, Writes, Follows, Settled, Taking
  <1>1. CASE UmountStart \/ UmountDown
    BY <1>1 DEF UmountStart, UmountDown, Down
  <1>2. CASE UserCleanup
    BY <1>2 DEF UserCleanup
  <1>5. CASE SendQuit
    <2>1. /\ slot' = [slot EXCEPT !["out"] = Quit] /\ Goto(Umount, "umWait")
          /\ UNCHANGED <<inUse, sig, procLock, served, callVars, daemonVars>>
      BY <1>5 DEF SendQuit
    <2>2. slot'["in"] = slot["in"] /\ slot'["out"].kind # "req"
      BY <2>1
    <2> QED
      BY <2>1, <2>2
  <1>3. CASE UmountWait \/ UmountWake \/ FreeSuper
    <2>1. /\ \E l \in UmountLabels : Goto(Umount, l)
          /\ UNCHANGED <<slot, inUse, sig, procLock, served, callVars, daemonVars>>
      BY <1>3 DEF UmountWait, UmountWake, FreeSuper
    <2> QED
      BY <2>1
  <1>4. CASE Kill
    BY <1>4 DEF Kill
  <1> QED
    BY <1>1, <1>2, <1>3, <1>4, <1>5 DEF UmountStep

LEMMA ExchangeStep == IInv /\ Flow /\ XInv /\ [Next]_vars => XInv'
  <1> SUFFICES ASSUME IInv, Flow, XInv, [Next]_vars, Calm' PROVE XInv'
    BY DEF XInv
  <1>1. Calm
    <2>1. signals = 0
      BY CountsGrow, SerializedKnown DEF Serialized, Calm
    <2>2. squeezed => squeezed'
      BY CountsGrow
    <2> QED
      BY <2>1, <2>2 DEF Calm
  <1>2. CASE UNCHANGED vars
    BY <1>2 DEF vars, chanVars, deviceVars, callVars, daemonVars, histVars, XInv, Calm,
       Received, Awaits, RequestQueued, RequestRead, ResponseQueued, ResponseWritten,
       Writes, Follows, InUser, Settled, Taking
  <1>3. ASSUME NEW r \in Requesters, Signal(r) PROVE XInv'
    BY <1>3 DEF Signal, Calm, IInv, TypeOK, HistoryTyped
  <1> QED
    BY <1>1, <1>2, <1>3, ExchangeAddRequester, ExchangeGetRequester, ExchangeCalls,
       ExchangeDaemon, ExchangeUmount DEF Next, Requester

(* What is in the queues and what the tasks have retrieved belongs to the  *)
(* one call that is being served, in every behaviour in which nobody is    *)
(* signalled and no response of several blocks loses one for want of       *)
(* memory.                                                                 *)
THEOREM ExchangeInductive == Spec => [](IInv /\ Flow /\ WInv /\ XInv)
  BY InitIInv, NextPreserves, FlowInit, FlowStep, WakeInit, WakeStep, ExchangeInit,
     ExchangeStep, PTL DEF Spec

(* The blocks that a task retrieves are those of the response to its own   *)
(* request, from the first on and in order, as long as no signal made a    *)
(* task leave before its response came and memory was there.               *)
THEOREM RepliesMatch == Spec => []ReplyMatches
  <1>1. IInv /\ XInv => ReplyMatches
    BY SerializedKnown DEF Serialized, XInv, Calm, Received, ReplyMatches
  <1> QED
    BY <1>1, ExchangeInductive, PTL

(* Nobody gets a block of another call's response, unless somebody was     *)
(* signalled or memory failed with responses of several blocks.            *)
THEOREM RepliesOwn ==
  Spec => [](signals = 0 /\ (squeezed => RespUnits <= 1) => OwnReply)
  <1>1. IInv /\ XInv => (signals = 0 /\ (squeezed => RespUnits <= 1) => OwnReply)
    BY SerializedKnown DEF Serialized, XInv, Calm, Received, OwnReply
  <1> QED
    BY <1>1, ExchangeInductive, PTL

(* A request that the daemon has read still has its caller waiting with    *)
(* nothing of an answer, although release may come between the test of     *)
(* in_use and the store of a request and so leave one behind.              *)
THEOREM CallersWait == Spec => []CallerWaits
  <1>1. IInv /\ XInv => CallerWaits
    BY SerializedKnown
    DEF Serialized, XInv, Calm, Settled, RequestRead, Awaits, CallerWaits
  <1> QED
    BY <1>1, ExchangeInductive, PTL
----------------------------------------------------------------------------
WholeInv == ClosedBetween /\ WholeReply

LEMMA WholeInit == Init => WholeInv
  BY DeviceAssumption DEF Init, WholeInv, ClosedBetween, WholeReply, Tasks

(* Only the requester itself changes what it retrieved and its result. *)
LEMMA WholeUnlessOwn ==
  ASSUME IInv, WholeInv, kills' = 0 => kills = 0, signals' = 0 => signals = 0,
         squeezed => squeezed', UNCHANGED <<got, ret>>,
         inUse' = 0 => inUse = 0,
         inUse # 0 /\ slot["in"] # Empty => slot'["in"] # Empty,
         \A r \in Requesters :
           /\ pc'[r] = "procUp" => pc[r] = "procUp"
           /\ pc'[r] = "taking" => pc[r] = "taking"
  PROVE  WholeInv'
  BY DEF WholeInv, ClosedBetween, WholeReply

LEMMA WholeRequester ==
  ASSUME IInv, Flow, WInv, XInv, WholeInv, ~squeezed', ~squeezed, kills = 0, signals = 0,
         NEW r \in Requesters, Requester(r)
  PROVE  WholeInv'
  <1> USE PlacesKnown, SerializedKnown, BlockKinds
      DEF Places, Serialized, Goto, Roles, RequesterLabels, ProcLabels, GetLabels,
          callVars, daemonVars, deviceVars, chanVars, histVars,
          WholeInv, ClosedBetween, WholeReply
  <1>1. ~sig[r] /\ Received(r)
    BY DEF XInv, Calm
  <1>2. CASE AddToBuffer(r)
    <2>1. /\ inUse' = inUse /\ got' = got /\ pc'[r] # "taking" /\ slot'["in"] = slot["in"]
          /\ \/ ret' = ret /\ pc'[r] # "procUp"
             \/ ret' = [ret EXCEPT ![r] = "fail"]
          /\ \A s \in Requesters \ {r} : pc'[s] = pc[s]
      BY <1>2 DEF AddToBuffer, AddCheck, NoMemory, AddDown, Down, AddGiveUp, AddAdmit,
         AddStore, AddDrop, AddSleep, AddWake, AddReturns, AddQueue
    <2> QED
      BY <2>1
  <1>3. CASE GetDown(r) \/ GetSleep(r) \/ GetWake(r)
    <2>1. /\ UNCHANGED <<inUse, got, ret, slot>> /\ pc'[r] \notin {"procUp", "taking"}
          /\ \A s \in Requesters \ {r} : pc'[s] = pc[s]
      BY <1>3 DEF GetDown, Down, GetSleep, GetWake
    <2> QED
      BY <2>1
  <1>4. CASE GetGiveUp(r)
    BY <1>1, <1>4 DEF GetGiveUp, CannotDown
  <1>5. CASE GetDrop(r)
    BY <1>5 DEF GetDrop, GetReturnsNothing, NothingRetrieved
  <1>9. CASE GetAdmit(r)
    <2>1. /\ UNCHANGED <<inUse, got, ret, slot>> /\ pc'[r] = "taking"
          /\ inUse # 0 /\ slot["in"] # Empty
          /\ \A s \in Requesters \ {r} : pc'[s] = pc[s]
      BY <1>9 DEF GetAdmit, GetQueue
    <2> QED
      BY <2>1
  <1>10. CASE GetTakeNothing(r)
    BY <1>10 DEF GetTakeNothing, GetQueue
  <1>6. CASE GetTake(r)
    <2> DEFINE b == slot["in"]
               g == Append(got[r], b)
    <2>1. /\ pc[r] = "taking" /\ procLock = r /\ b # Empty /\ inUse # 0 /\ inUse' = inUse
          /\ got' = [got EXCEPT ![r] = g] /\ Retrieved(r, g)
      <3>1. pc[r] = "taking" /\ procLock = r
        BY <1>6 DEF GetTake
      <3> QED
        BY <1>6, <3>1 DEF GetTake, Retrieved, GetQueue
    <2>2. /\ got[r] \in Seq(Block) /\ b \in Block /\ g \in Seq(Block) /\ g # <<>>
          /\ Len(g) = Len(got[r]) + 1 /\ Len(got[r]) \in Nat
          /\ got[r] = <<>> <=> Len(got[r]) = 0
          /\ g[Len(g)] = b /\ \A k \in 1 .. Len(got[r]) : g[k] = got[r][k]
      BY AppendBlock
    <2> HIDE DEF g
    <2>3. b.part = Len(g) /\ b.of \in 0 .. RespUnits
      BY <2>1, <2>2, BlockTyped DEF XInv, Calm, ResponseQueued, Follows, Awaits
    <2>4. g[1].part = 1 /\ (g[1].of # 0 => Len(g) <= g[1].of)
      <3>1. CASE got[r] = <<>>
        BY <2>2, <2>3, <3>1
      <3>2. CASE got[r] # <<>>
        <4>1. g[1] = got[r][1]
          BY <2>2, <3>2
        <4>2. got[r][1].part = 1 /\ Len(got[r]) < got[r][1].of
          BY <1>1, <2>1, <3>2 DEF Received
        <4>3. got[r][1] \in Block
          BY <2>2, <3>2
        <4>4. got[r][1].of \in 0 .. RespUnits
          BY <4>3, BlockTyped
        <4> QED
          BY <2>2, <4>1, <4>2, <4>4
      <3> QED
        BY <3>1, <3>2
    <2>5. g[1] \in Block
      BY <2>2
    <2>6. g[1].of \in 0 .. RespUnits
      BY <2>5, BlockTyped
    <2>7. pc'[r] = "procUp" /\ ret'[r] = "ok" => Len(g) = g[1].of
      BY <2>1, <2>2, <2>4, <2>6 DEF Retrieved
    <2>8. \A s \in Requesters \ {r} : pc'[s] = pc[s] /\ ret'[s] = ret[s] /\ got'[s] = got[s]
      BY <2>1 DEF Retrieved
    <2>9. \A s \in Requesters : pc'[s] # "taking"
      BY <2>1, <2>8 DEF Retrieved
    <2> QED
      BY <2>1, <2>7, <2>8, <2>9
  <1>7. CASE Call(r) \/ ProcDown(r)
    BY <1>7 DEF Call, ProcDown
  <1>8. CASE ProcGiveUp(r) \/ ProcUp(r)
    BY <1>8 DEF ProcGiveUp, ProcUp, Return
  <1> QED
    BY <1>2, <1>3, <1>4, <1>5, <1>6, <1>7, <1>8, <1>9, <1>10
    DEF Requester, GetFromBuffer

LEMMA WholeStep == IInv /\ Flow /\ WInv /\ XInv /\ WholeInv /\ [Next]_vars => WholeInv'
  <1> SUFFICES ASSUME IInv, Flow, WInv, XInv, WholeInv, [Next]_vars,
                      kills' = 0, signals' = 0, ~squeezed'
               PROVE  WholeInv'
    BY DEF WholeInv, ClosedBetween, WholeReply
  <1>1. kills = 0 /\ signals = 0 /\ ~squeezed
    BY CountsGrow, SerializedKnown, WaitsKnown DEF Serialized, Waits
  <1> USE PlacesKnown, SerializedKnown
      DEF Places, Serialized, Goto, Roles, DaemonLabels, UmountLabels, RequesterLabels,
          callVars, daemonVars, deviceVars, chanVars, histVars
  <1>2. CASE DaemonStep
    <2>1. UNCHANGED <<got, ret>> /\ \A r \in Requesters : pc'[r] = pc[r]
      BY <1>2 DEF DaemonStep, Spawn, Open, OpenFails, Read, ReadDown, RereadDown, Down,
         ReadSleep, ReadWake, ReadGiveUp, ReadChunk, ReadEndOfFile, ReadCall,
         TakeParameters, Execute, WriteCall, Exit, Release, ClearIn, ClearOut,
         AddToBuffer, AddCheck, NoMemory, AddDown, AddGiveUp, AddAdmit, AddStore,
         AddDrop, AddSleep, AddWake,
         AddReturns, DaemonGoesOn, GetFromBuffer, GetDown, GetGiveUp, GetAdmit,
         GetTake, GetTakeNothing, GetDrop,
         GetSleep, GetWake, GetReturnsNothing
    <2>2. CASE Release
      <3>1. \A r \in Requesters : pc[r] = "idle"
        BY <1>1, <2>2 DEF Release, WInv, ClosesAfterQuit, Closing, Flow, UmountAlone
      <3>2. \A r \in Requesters : got[r] = <<>>
        BY <1>1, <3>1 DEF XInv, Calm, Received, GetLabels
      <3> QED
        BY <2>1, <3>1, <3>2 DEF WholeInv, ClosedBetween, WholeReply
    <2>3. CASE ~Release
      <3>1. inUse' = 0 => inUse = 0
        BY <1>2, <2>3 DEF DaemonStep, Spawn, Open, OpenFails, Read, ReadDown, RereadDown,
           Down, ReadSleep, ReadWake, ReadGiveUp, ReadChunk, ReadEndOfFile, ReadCall,
           TakeParameters, Execute, WriteCall, Exit, ClearIn, ClearOut,
           AddToBuffer, AddCheck, AddDown, AddGiveUp, AddAdmit, AddStore, AddDrop,
           AddSleep, AddWake, GetFromBuffer, GetDown, GetGiveUp, GetAdmit, GetTake,
           GetTakeNothing, GetDrop, GetSleep, GetWake
      <3>2. inUse # 0 /\ slot["in"] # Empty => slot'["in"] # Empty
        <4>1. AddToBuffer(Daemon) => slot'["in"] = slot["in"] \/ slot'["in"] # Empty
          <5>1. AddData(Daemon) # Empty
            BY BlockKinds DEF AddData
          <5>2. AddStore(Daemon) => slot'["in"] = slot["in"] \/ slot'["in"] = AddData(Daemon)
            BY DEF AddStore, AddQueue
          <5> QED
            BY <5>1, <5>2 DEF AddToBuffer, AddCheck, AddDown, Down, AddGiveUp, AddAdmit,
               AddDrop, AddSleep, AddWake
        <4>2. GetFromBuffer(Daemon) => slot'["in"] = slot["in"]
          BY DEF GetFromBuffer, GetDown, Down, GetGiveUp, GetAdmit, GetTake,
             GetTakeNothing, GetDrop, GetSleep, GetWake, GetQueue
        <4> QED
          BY <1>2, <4>1, <4>2 DEF DaemonStep, Spawn, Open, OpenFails, Read, ReadDown,
             RereadDown, Down, ReadSleep, ReadWake, ReadGiveUp, ReadChunk, ReadEndOfFile,
             ReadCall, TakeParameters, Execute, WriteCall, Exit, Release, ClearIn,
             ClearOut
      <3> QED
        BY <1>1, <2>1, <3>1, <3>2, WholeUnlessOwn
    <2> QED
      BY <2>2, <2>3
  <1>3. CASE UmountStart \/ UmountStep \/ Kill \/ \E r \in Requesters : Signal(r)
    <2>1. /\ UNCHANGED <<got, ret, inUse>> /\ \A r \in Requesters : pc'[r] = pc[r]
          /\ slot'["in"] = slot["in"]
      BY <1>3 DEF UmountStart, UmountStep, UmountDown, Down, UserCleanup, SendQuit,
         UmountWait,
         UmountWake, FreeSuper, Kill, Signal
    <2> QED
      BY <1>1, <2>1, WholeUnlessOwn
  <1>4. CASE UNCHANGED vars
    <2>1. UNCHANGED <<got, ret, inUse, pc, slot>>
      BY <1>4 DEF vars
    <2> QED
      BY <1>1, <2>1, WholeUnlessOwn
  <1> QED
    BY <1>1, <1>2, <1>3, <1>4, WholeRequester DEF Next

(* A call hands out every block that the daemon wrote, unless the daemon   *)
(* was killed or a caller signalled, or memory was short.                  *)
THEOREM RepliesWhole == Spec => []WholeReply
  <1>1. WholeInv => WholeReply
    BY DEF WholeInv
  <1> QED
    BY <1>1, ExchangeInductive, WholeStep, WholeInit, PTL DEF Spec
----------------------------------------------------------------------------
(* The steps that no call notices. *)
Unnoticed ==
  /\ UNCHANGED <<cur, nextId, served, outcome>>
  /\ \A r \in Requesters :
       \/ pc'[r] = pc[r]
       \/ /\ pc[r] \in ProcLabels /\ pc'[r] \in ProcLabels
          /\ pc'[r] \in AddLabels => pc[r] \in AddLabels

LEMMA MostUnnoticed ==
  ASSUME IInv, [Next]_vars
  PROVE  \/ Unnoticed
         \/ \E r \in Requesters : Call(r) \/ ProcDown(r) \/ ProcGiveUp(r) \/ ProcUp(r)
         \/ \E n \in 0 .. RespUnits : Execute(n)
  <1> USE PlacesKnown
      DEF Places, Goto, Roles, DaemonLabels, UmountLabels, RequesterLabels, ProcLabels,
          AddLabels, callVars, daemonVars, histVars
  <1>1. ASSUME NEW t \in Requesters \cup {Daemon}, AddToBuffer(t) PROVE Unnoticed
    <2>1. UNCHANGED <<cur, nextId, served, outcome>>
      BY <1>1 DEF AddToBuffer, AddCheck, NoMemory, AddDown, Down, AddGiveUp, AddAdmit,
         AddStore, AddDrop,
         AddSleep, AddWake, AddReturns, DaemonGoesOn
    <2>2. \A r \in Requesters : r # t => pc'[r] = pc[r]
      BY <1>1 DEF AddToBuffer, AddCheck, NoMemory, AddDown, Down, AddGiveUp, AddAdmit,
         AddStore, AddDrop,
         AddSleep, AddWake, AddReturns, DaemonGoesOn
    <2>3. t # Daemon => /\ pc[t] \in AddLabels
                        /\ pc'[t] \in {"add", "adding", "storing", "addSleep",
                                    "get", "procUp"}
      BY <1>1 DEF AddToBuffer, AddCheck, NoMemory, AddDown, Down, AddGiveUp, AddAdmit,
         AddStore, AddDrop,
         AddSleep, AddWake, AddReturns, CannotDown
    <2> QED
      BY <2>1, <2>2, <2>3 DEF Unnoticed
  <1>2. ASSUME NEW t \in Requesters \cup {Daemon}, GetFromBuffer(t) PROVE Unnoticed
    <2>1. UNCHANGED <<cur, nextId, served, outcome>>
      BY <1>2 DEF GetFromBuffer, GetDown, Down, GetGiveUp, GetAdmit, GetTake,
         GetTakeNothing, GetDrop,
         GetSleep, GetWake, GetReturnsNothing, NothingRetrieved, Retrieved
    <2>2. \A r \in Requesters : r # t => pc'[r] = pc[r]
      BY <1>2 DEF GetFromBuffer, GetDown, Down, GetGiveUp, GetAdmit, GetTake,
         GetTakeNothing, GetDrop,
         GetSleep, GetWake, GetReturnsNothing, NothingRetrieved, Retrieved
    <2>3. t # Daemon => /\ pc[t] \in GetLabels
                        /\ pc'[t] \in {"get", "getting", "taking", "getSleep", "procUp"}
      BY <1>2 DEF GetFromBuffer, GetDown, Down, GetGiveUp, GetAdmit, GetTake,
         GetTakeNothing, GetDrop,
         GetSleep, GetWake, GetReturnsNothing, NothingRetrieved, Retrieved, CannotDown,
         GetLabels
    <2> QED
      BY <2>1, <2>2, <2>3 DEF Unnoticed, GetLabels
  <1>3. CASE \E r \in Requesters : Signal(r)
    BY <1>3 DEF Signal, Unnoticed
  <1>4. CASE Read
    BY <1>4 DEF Read, ReadDown, RereadDown, Down, ReadSleep, ReadWake, ReadGiveUp,
       ReadChunk, ReadEndOfFile, Unnoticed
  <1>5. CASE \/ Spawn \/ Open \/ OpenFails \/ ReadCall \/ TakeParameters \/ WriteCall
             \/ Exit \/ Release \/ ClearIn \/ ClearOut
    BY <1>5 DEF Spawn, Open, OpenFails, ReadCall, TakeParameters, WriteCall, Exit,
       Release, ClearIn, ClearOut, Unnoticed
  <1>6. CASE UmountStart \/ UmountStep \/ Kill
    BY <1>6 DEF UmountStart, UmountStep, UmountDown, Down, UserCleanup, SendQuit,
       UmountWait,
       UmountWake, FreeSuper, Kill, Unnoticed
  <1>7. CASE UNCHANGED vars
    BY <1>7 DEF vars, Unnoticed
  <1> QED
    BY <1>1, <1>2, <1>3, <1>4, <1>5, <1>6, <1>7 DEF Next, Requester, DaemonStep
----------------------------------------------------------------------------
HistoryKnown ==
  /\ nextId \in 1 .. MaxRequests + 1 /\ served \in SUBSET Ids
  /\ outcome \in [Ids -> {"none", "ok", "fail"}]
  /\ MaxRequests \in Nat /\ Ids = 1 .. MaxRequests

LEMMA HistoryIs == IInv => HistoryKnown
  BY DeviceAssumption DEF IInv, TypeOK, HistoryTyped, HistoryKnown, Ids

LEMMA CallsInit == Init => CInv
  BY DeviceAssumption DEF Init, CInv, CallsDistinct, CallsOpen, Tasks, AddLabels, Ids

(* A served request is the one of the call that holds proc.lock. *)
LEMMA ExecuteAwaited ==
  ASSUME IInv, Flow, XInv, Calm, NEW n, Execute(n)
  PROVE  /\ Awaits(msg.id) /\ procLock \in Requesters /\ msg.id \in Ids
         /\ pc[procLock] \in GetLabels /\ cur[procLock] = msg.id
         /\ served' = served \cup {msg.id}
         /\ UNCHANGED <<pc, cur, nextId, outcome>>
  <1>1. inUse # 0 /\ msg.kind = "req"
    BY SerializedKnown DEF Serialized, Execute, InUser
  <1>2. Awaits(msg.id)
    BY <1>1 DEF XInv, RequestRead, Settled, Execute
  <1>3. msg.id \in Ids
    BY <1>1, SerializedKnown DEF Serialized, Block
  <1> QED
    BY <1>2, <1>3, SerializedKnown DEF Serialized, Awaits, Execute, callVars, daemonVars

LEMMA CallsStep == IInv /\ Flow /\ XInv /\ CInv /\ Calm /\ [Next]_vars => CInv'
  <1> SUFFICES ASSUME IInv, Flow, XInv, CInv, Calm, [Next]_vars PROVE CInv'
    OBVIOUS
  <1> USE PlacesKnown, SerializedKnown, HistoryIs
      DEF Places, Serialized, HistoryKnown, Goto, Roles, RequesterLabels, ProcLabels,
          AddLabels, GetLabels, CInv, CallsDistinct, CallsOpen
  <1>1. CASE Unnoticed
    <2>1. /\ UNCHANGED <<cur, nextId, served, outcome>>
          /\ \A r \in Requesters :
               /\ pc'[r] = "idle" <=> pc[r] = "idle"
               /\ pc'[r] = "procDown" <=> pc[r] = "procDown"
               /\ pc'[r] \in AddLabels => pc[r] \in AddLabels
      BY <1>1 DEF Unnoticed
    <2>2. CallsDistinct'
      BY <2>1
    <2>3. CallsOpen'
      BY <2>1
    <2> QED
      BY <2>2, <2>3
  <1>2. ASSUME NEW r \in Requesters, Call(r) PROVE CInv'
    <2>1. /\ pc[r] = "idle" /\ nextId \in Ids /\ nextId' = nextId + 1
          /\ pc' = [pc EXCEPT ![r] = "procDown"] /\ cur' = [cur EXCEPT ![r] = nextId]
          /\ UNCHANGED <<served, outcome>>
      BY <1>2 DEF Call
    <2>2. CallsDistinct'
      BY <2>1
    <2>3. ASSUME NEW i \in Ids, i < nextId + 1, outcome[i] = "none"
          PROVE  \E s \in Requesters : cur'[s] = i
      <3>1. CASE i = nextId
        BY <2>1, <3>1
      <3>2. CASE i # nextId
        <4>1. PICK s \in Requesters : cur[s] = i
          BY <2>1, <2>3, <3>2
        <4>2. s # r /\ cur'[s] = cur[s]
          BY <2>1, <4>1
        <4> QED
          BY <4>1, <4>2
      <3> QED
        BY <3>1, <3>2
    <2>4. CallsOpen'
      BY <2>1, <2>3
    <2> QED
      BY <2>2, <2>4
  <1>3. ASSUME NEW r \in Requesters, ProcDown(r) PROVE CInv'
    BY <1>3 DEF ProcDown, callVars, histVars
  <1>4. ASSUME NEW r \in Requesters, ProcGiveUp(r) \/ ProcUp(r) PROVE CInv'
    <2>1. \E v \in {"ok", "fail"} : Return(r, v) /\ pc[r] # "idle"
      <3>1. ~sig[r] /\ (pc[r] = "procUp" => ret[r] \in {"ok", "fail"})
        BY DEF XInv, Received
      <3> QED
        BY <1>4, <3>1 DEF ProcGiveUp, ProcUp
    <2>2. PICK v \in {"ok", "fail"} : Return(r, v) /\ pc[r] # "idle"
      BY <2>1
    <2>3. /\ cur[r] \in Ids /\ outcome' = [outcome EXCEPT ![cur[r]] = v]
          /\ cur' = [cur EXCEPT ![r] = 0] /\ pc' = [pc EXCEPT ![r] = "idle"]
          /\ UNCHANGED <<nextId, served>>
      BY <2>2 DEF Return, IInv, CallsNumbered
    <2>4. ASSUME NEW s \in Requesters, s # r, pc[s] # "idle"
          PROVE  cur[s] # cur[r] /\ cur[s] \in Ids
      BY <2>2, <2>4 DEF IInv, CallsNumbered
    <2>5. CallsDistinct'
      <3> SUFFICES ASSUME NEW s \in Requesters
                   PROVE  /\ pc'[s] = "idle" => cur'[s] = 0
                          /\ pc'[s] # "idle" => cur'[s] < nextId /\ outcome'[cur'[s]] = "none"
                          /\ pc'[s] \in {"procDown"} \cup AddLabels => cur'[s] \notin served
                          /\ \A u \in Requesters : pc'[s] # "idle" /\ cur'[u] = cur'[s] => u = s
        BY <2>3
      <3>1. CASE s = r
        BY <2>3, <3>1
      <3>2. CASE s # r /\ pc[s] = "idle"
        BY <2>3, <3>2
      <3>3. CASE s # r /\ pc[s] # "idle"
        <4>1. pc'[s] = pc[s] /\ cur'[s] = cur[s] /\ outcome'[cur[s]] = outcome[cur[s]]
          BY <2>3, <2>4, <3>3
        <4>2. \A u \in Requesters : cur'[u] = cur[s] => u = s
          BY <2>3, <2>4, <3>3
        <4> QED
          BY <3>3, <4>1, <4>2
      <3> QED
        BY <3>1, <3>2, <3>3
    <2>6. CallsOpen'
      BY <2>2, <2>3
    <2> QED
      BY <2>5, <2>6
  <1>5. ASSUME NEW n \in 0 .. RespUnits, Execute(n) PROVE CInv'
    <2>1. /\ procLock \in Requesters /\ pc[procLock] \in GetLabels /\ cur[procLock] = msg.id
          /\ msg.id \in Ids /\ served' = served \cup {msg.id}
          /\ UNCHANGED <<pc, cur, nextId, outcome>>
      BY <1>5, ExecuteAwaited
    <2>2. msg.id < nextId
      BY <2>1
    <2>3. \A r \in Requesters : pc[r] \in {"procDown"} \cup AddLabels => cur[r] # msg.id
      BY <2>1
    <2>4. CallsDistinct'
      BY <2>1, <2>3
    <2>5. CallsOpen'
      BY <2>1, <2>2
    <2> QED
      BY <2>4, <2>5
  <1> QED
    BY <1>1, <1>2, <1>3, <1>4, <1>5, MostUnnoticed
----------------------------------------------------------------------------
phaseBar == [i \in Ids |-> Phase(i)]

(* One call changes its phase and the others do not. *)
LEMMA PhaseMoves ==
  ASSUME NEW i \in Ids, NEW from, NEW to, Phase(i) \in from, Phase(i)' = to,
         \A j \in Ids \ {i} : Phase(j)' = Phase(j)
  PROVE  Service!Move(i, from, to)
  BY DEF Service!Move, Ids

LEMMA PhasesKept ==
  ASSUME CInv, Unnoticed, IInv
  PROVE  UNCHANGED phaseBar
  <1>1. ASSUME NEW i \in Ids PROVE Phase(i)' = Phase(i)
    <2>1. (\E r \in Requesters : cur[r] = i /\ pc[r] = "procDown")'
            <=> (\E r \in Requesters : cur[r] = i /\ pc[r] = "procDown")
      BY DEF Unnoticed, ProcLabels
    <2> QED
      BY <2>1 DEF Phase, Unnoticed
  <1> QED
    BY <1>1 DEF phaseBar, Ids

LEMMA ServiceInit == Init => Service!Init
  BY DeviceAssumption DEF Init, Service!Init, Phase, Ids

LEMMA ServiceStep ==
  ASSUME IInv, Flow, XInv, CInv, Calm, [Next]_vars
  PROVE  [Service!Next]_phaseBar
  <1> USE PlacesKnown, SerializedKnown, HistoryIs
      DEF Places, Serialized, HistoryKnown, Goto, Roles, RequesterLabels, ProcLabels,
          AddLabels, GetLabels, CInv, CallsDistinct, CallsOpen
  <1>1. CASE Unnoticed
    BY <1>1, PhasesKept
  <1>2. ASSUME NEW r \in Requesters, Call(r) PROVE Service!Next
    <2>1. /\ pc[r] = "idle" /\ nextId \in Ids /\ nextId' = nextId + 1
          /\ pc' = [pc EXCEPT ![r] = "procDown"] /\ cur' = [cur EXCEPT ![r] = nextId]
          /\ UNCHANGED <<served, outcome>>
      BY <1>2 DEF Call
    <2> PICK i \in Ids : i = nextId
      BY <2>1
    <2>2. Phase(i) = "new"
      BY DEF Phase
    <2>3. Phase(i)' = "waiting"
      <3>1. outcome[i] = "none" /\ cur'[r] = i /\ pc'[r] = "procDown"
        BY <2>1
      <3> QED
        BY <2>1, <3>1 DEF Phase
    <2>4. \A j \in Ids \ {i} : Phase(j)' = Phase(j)
      <3> SUFFICES ASSUME NEW j \in Ids \ {i} PROVE Phase(j)' = Phase(j)
        OBVIOUS
      <3>1. (\E s \in Requesters : cur'[s] = j /\ pc'[s] = "procDown")
              <=> \E s \in Requesters : cur[s] = j /\ pc[s] = "procDown"
        BY <2>1
      <3> QED
        BY <2>1, <3>1 DEF Phase
    <2>5. Service!Move(i, {"new"}, "waiting")
      <3> HIDE PlacesKnown, SerializedKnown, HistoryIs
      <3> QED
        BY <2>2, <2>3, <2>4, PhaseMoves
    <2> QED
      BY <2>1, <2>5 DEF Service!Next
  <1>3. ASSUME NEW r \in Requesters, ProcDown(r) PROVE Service!Next
    <2> PICK i \in Ids : i = cur[r]
      BY <1>3 DEF ProcDown, IInv, CallsNumbered
    <2>1. /\ pc[r] = "procDown" /\ procLock = NoTask /\ cur[r] = i
          /\ i < nextId /\ outcome[i] = "none" /\ i \notin served
          /\ pc' = [pc EXCEPT ![r] = "addCheck"]
          /\ UNCHANGED <<served, outcome, cur, nextId>>
      BY <1>3 DEF ProcDown, callVars, histVars, IInv, CallsNumbered
    <2>2. Phase(i) = "waiting"
      BY <2>1 DEF Phase
    <2>3. Phase(i)' = "active"
      BY <2>1 DEF Phase
    <2>4. \A j \in Ids \ {i} : Phase(j)' = Phase(j)
      <3> SUFFICES ASSUME NEW j \in Ids \ {i} PROVE Phase(j)' = Phase(j)
        OBVIOUS
      <3>1. (\E s \in Requesters : cur'[s] = j /\ pc'[s] = "procDown")
              <=> \E s \in Requesters : cur[s] = j /\ pc[s] = "procDown"
        BY <2>1
      <3> QED
        BY <2>1, <3>1 DEF Phase
    <2>5. Service!Idle
      <3>1. ASSUME NEW j \in Ids PROVE Phase(j) \notin {"active", "served"}
        <4>1. \A s \in Requesters : pc[s] \in {"idle", "procDown"}
          BY <2>1
        <4>2. j < nextId /\ outcome[j] = "none" =>
                \E s \in Requesters : cur[s] = j /\ pc[s] = "procDown"
          BY <4>1
        <4> QED
          BY <4>2 DEF Phase
      <3> QED
        BY <3>1 DEF Service!Idle
    <2>6. Service!Move(i, {"waiting"}, "active")
      BY <2>1, <2>2, <2>3, <2>4, PhaseMoves
    <2> QED
      BY <2>1, <2>5, <2>6 DEF Service!Next
  <1>4. ASSUME NEW r \in Requesters, ProcGiveUp(r) PROVE Service!Next
    BY <1>4 DEF ProcGiveUp, XInv
  <1>5. ASSUME NEW r \in Requesters, ProcUp(r) PROVE Service!Next
    <2> PICK i \in Ids : i = cur[r]
      BY <1>5 DEF ProcUp, IInv, CallsNumbered
    <2> PICK v \in {"ok", "fail"} : v = ret[r]
      BY <1>5 DEF ProcUp, XInv, Received
    <2>1. /\ pc[r] = "procUp" /\ procLock = r /\ cur[r] = i
          /\ v = "ok" => i \in served
          /\ i < nextId /\ outcome[i] = "none"
          /\ pc' = [pc EXCEPT ![r] = "idle"] /\ cur' = [cur EXCEPT ![r] = 0]
          /\ outcome' = [outcome EXCEPT ![i] = v]
          /\ UNCHANGED <<served, nextId>>
      BY <1>5 DEF ProcUp, Return, XInv, Received
    <2>2. Phase(i) = IF i \in served THEN "served" ELSE "active"
      <3>1. ~ \E s \in Requesters : cur[s] = i /\ pc[s] = "procDown"
        BY <2>1
      <3> QED
        BY <2>1, <3>1 DEF Phase
    <2>3. Phase(i)' = IF v = "ok" THEN "ok" ELSE "failed"
      BY <2>1 DEF Phase
    <2>4. \A j \in Ids \ {i} : Phase(j)' = Phase(j)
      <3> SUFFICES ASSUME NEW j \in Ids \ {i} PROVE Phase(j)' = Phase(j)
        OBVIOUS
      <3>1. \A s \in Requesters : cur'[s] = j /\ pc'[s] = "procDown"
                                   <=> cur[s] = j /\ pc[s] = "procDown"
        BY <2>1
      <3> QED
        BY <2>1, <3>1 DEF Phase
    <2>5. CASE v = "ok"
      <3>1. Service!Move(i, {"served"}, "ok")
        <4>1. Phase(i) = "served" /\ Phase(i)' = "ok"
          BY <2>1, <2>2, <2>3, <2>5
        <4> HIDE PlacesKnown, SerializedKnown, HistoryIs
        <4> QED
          BY <2>4, <4>1, PhaseMoves
      <3> QED
        BY <2>1, <3>1 DEF Service!Next
    <2>6. CASE v = "fail"
      <3>1. Service!Move(i, {"waiting", "active", "served"}, "failed")
        <4>1. Phase(i) \in {"waiting", "active", "served"} /\ Phase(i)' = "failed"
          BY <2>2, <2>3, <2>6
        <4> HIDE PlacesKnown, SerializedKnown, HistoryIs
        <4> QED
          BY <2>4, <4>1, PhaseMoves
      <3> QED
        BY <2>1, <3>1 DEF Service!Next
    <2> QED
      BY <2>1, <2>5, <2>6
  <1>6. ASSUME NEW n \in 0 .. RespUnits, Execute(n) PROVE [Service!Next]_phaseBar
    <2> PICK i \in Ids : i = msg.id
      BY <1>6, ExecuteAwaited
    <2>1. /\ procLock \in Requesters /\ pc[procLock] \in GetLabels /\ cur[procLock] = i
          /\ served' = served \cup {i}
          /\ UNCHANGED <<pc, cur, nextId, outcome>>
      BY <1>6, ExecuteAwaited
    <2>2. i < nextId /\ outcome[i] = "none"
      BY <2>1
    <2>3. ~ \E r \in Requesters : cur[r] = i /\ pc[r] = "procDown"
      BY <2>1
    <2>4. \A j \in Ids \ {i} : Phase(j)' = Phase(j)
      BY <2>1 DEF Phase
    <2>5. Phase(i)' = "served"
      BY <2>1, <2>2, <2>3 DEF Phase
    <2>6. CASE i \in served
      <3>1. Phase(i) = "served"
        BY <2>2, <2>3, <2>6 DEF Phase
      <3> QED
        BY <2>4, <2>5, <3>1 DEF phaseBar, Ids
    <2>7. CASE i \notin served
      <3>1. Phase(i) = "active"
        BY <2>2, <2>3, <2>7 DEF Phase
      <3>2. Service!Move(i, {"active"}, "served")
        <4>1. Phase(i) \in {"active"}
          BY <3>1
        <4> HIDE PlacesKnown, SerializedKnown, HistoryIs
        <4> QED
          BY <2>4, <2>5, <4>1, PhaseMoves
      <3> QED
        BY <2>1, <3>2 DEF Service!Next
    <2> QED
      BY <2>6, <2>7
  <1> QED
    BY <1>1, <1>2, <1>3, <1>4, <1>5, <1>6, MostUnnoticed

(* serialize_request implements CvsfsService: calls are served one at a    *)
(* time, none succeeds that was not served.  Nobody is signalled; daemons  *)
(* may be killed at any time.  Memory may run out if every response is one *)
(* block: with two the next call would retrieve what is left of a response *)
(* that was given up.                                                      *)
THEOREM ServiceImplemented ==
  ASSUME MaxSignals = 0, AllocFails => RespUnits <= 1
  PROVE  Spec => ServiceSpec
  <1>1. IInv => Calm
    BY DEF IInv, TypeOK, HistoryTyped, Squeezes, Calm
  <1>2. Spec => [](IInv /\ Flow /\ WInv /\ XInv)
    BY ExchangeInductive
  <1>3. IInv /\ Flow /\ WInv /\ XInv /\ CInv /\ [Next]_vars => CInv'
    BY <1>1, CallsStep
  <1>4. IInv /\ Flow /\ WInv /\ XInv /\ CInv /\ [Next]_vars => [Service!Next]_phaseBar
    BY <1>1, ServiceStep
  <1>5. Init => Service!Init /\ CInv
    BY ServiceInit, CallsInit
  <1> QED
    BY <1>2, <1>3, <1>4, <1>5, PTL DEF Spec, ServiceSpec, Service!Spec, phaseBar

=============================================================================
