---------------------------- MODULE CvsfsDevice ----------------------------
(***************************************************************************)
(* The channel between the kernel module and the daemon of one mount:      *)
(* src/cvsfs/devfs.c (two one-block queues, device.lock, open, release,    *)
(* read, write, unmount) and cvsfs_serialize_request of src/cvsfs/proc.c   *)
(* (one request at a time, under proc.lock), with the read loop of the     *)
(* daemon, TModuleServer, at the other end.                                *)
(*                                                                         *)
(* A task is in kernel code from one label of pc to the next.  A stretch   *)
(* of code that holds device.lock is the down, the tests of the queue and  *)
(* of in_use, and the change that ends with the up.  open and release take *)
(* no lock, so they fall between these steps.                              *)
(***************************************************************************)
EXTENDS Naturals, FiniteSets, Sequences

CONSTANTS
  Requesters,   \* the tasks that make VFS calls on the mount
  Daemon,       \* the cvsfsd process of the mount
  Umount,       \* the task that unmounts
  NoTask,       \* no task holds a lock
  MaxRequests,  \* bound on the VFS calls of a behaviour
  ReqUnits,     \* reads the daemon needs for one request
  RespUnits,    \* at most so many writes make one response
  MaxKills,     \* bound on the times the daemon is killed
  MaxSignals,   \* bound on the signals sent to requesters
  AllocFails,   \* whether kmalloc may fail, but for that of the quit
  QuietOpen,    \* whether nobody uses or unmounts the mount during an open
  MayUnmount    \* whether the file system is unmounted at some time

Tasks == Requesters \cup {Daemon, Umount}
Queue == {"out", "in"}
Ids   == 1 .. MaxRequests

ASSUME DeviceAssumption ==
  /\ Daemon \notin Requesters /\ Umount \notin Requesters /\ Daemon # Umount
  /\ NoTask \notin Tasks
  /\ MaxRequests \in Nat /\ MaxKills \in Nat /\ MaxSignals \in Nat
  /\ ReqUnits \in Nat \ {0} /\ RespUnits \in Nat \ {0}
  /\ AllocFails \in BOOLEAN /\ QuietOpen \in BOOLEAN /\ MayUnmount \in BOOLEAN

VARIABLES
  slot,        \* out.data and in.data with their sizes
  readpos,     \* out.readpos, in reads of the daemon
  full,        \* the wait queues out.full and in.full
  empty,       \* the wait queues out.empty and in.empty
  devLock,     \* holder of device.lock
  procLock,    \* holder of proc.lock
  inUse,       \* device.in_use
  notified,    \* device.daemon_notified
  unmounting,  \* device.unmount_in_process
  freed,       \* the cvsfs_sb_info was freed
  pc, sig,     \* where a task is; whether a signal is pending for it
  cur, got, ret,      \* a requester's call, the blocks it retrieved, its result
  job, msg, part,     \* the daemon's phase, the message it read, its next write
  answer,             \* the number of writes of the response in progress
  params,             \* the first message of the daemon, its mount parameters
  nextId, served, outcome,  \* history: calls made, executed, returned
  kills, signals,     \* history: daemons killed, signals sent
  squeezed            \* history: whether a kmalloc failed

chanVars   == <<slot, readpos, full, empty>>
deviceVars == <<inUse, notified, unmounting, freed>>
callVars   == <<cur, got, ret>>
daemonVars == <<job, msg, part, answer, params>>
histVars   == <<nextId, served, outcome, kills, signals, squeezed>>
vars == <<chanVars, devLock, procLock, deviceVars, pc, sig, callVars,
          daemonVars, histVars>>
----------------------------------------------------------------------------
(* Blocks.  A response is "<size> <data>": of blocks, 0 for an empty one.  *)
Block == {b \in [kind : {"none", "parm", "quit", "req", "resp"}, id : {0} \cup Ids,
                 part : 0 .. RespUnits, of : 0 .. RespUnits] :
            b.kind = "req" => b.id \in Ids}

Empty       == [kind |-> "none", id |-> 0, part |-> 0, of |-> 0]
Parm        == [kind |-> "parm", id |-> 0, part |-> 0, of |-> 0]
Quit        == [kind |-> "quit", id |-> 0, part |-> 0, of |-> 0]
Req(i)      == [kind |-> "req",  id |-> i, part |-> 0, of |-> 0]
Resp(i,p,n) == [kind |-> "resp", id |-> i, part |-> p, of |-> n]

(* The size of a block, in reads of the daemon. *)
Size(b) == IF b.kind = "none" THEN 0 ELSE IF b.kind = "req" THEN ReqUnits ELSE 1

UserLabels == {"none", "idle", "user", "open", "exit"}
LockLabels == {"adding", "storing", "getting", "taking", "reading", "rereading",
               "umBody", "umQuit"}
ProcLabels == {"addCheck", "add", "adding", "storing", "addSleep", "get",
               "getting", "taking", "getSleep", "procUp"}
Labels == UserLabels \cup LockLabels \cup ProcLabels \cup
          {"procDown", "read", "reread", "readSleep", "clearIn", "clearOut",
           "umDown", "umWait", "umSleep", "umFree", "gone"}

Opening ==
  pc[Daemon] \in {"addCheck", "add", "adding", "storing", "addSleep"} /\ job = "open"

ChannelTyped ==
  /\ slot \in [Queue -> Block] /\ readpos \in 0 .. ReqUnits
  /\ full \in [Queue -> SUBSET Tasks] /\ empty \in [Queue -> SUBSET Tasks]

TasksTyped ==
  /\ devLock \in Tasks \cup {NoTask} /\ procLock \in Requesters \cup {NoTask}
  /\ inUse \in {0, 1} /\ notified \in BOOLEAN
  /\ unmounting \in BOOLEAN /\ freed \in BOOLEAN
  /\ pc \in [Tasks -> Labels] /\ sig \in [Tasks -> BOOLEAN]

CallsTyped ==
  /\ cur \in [Requesters -> {0} \cup Ids]
  /\ got \in [Requesters -> Seq(Block)]
  /\ ret \in [Requesters -> {"none", "ok", "fail"}]

DaemonTyped ==
  /\ job \in {"open", "init", "ready", "write"}
  /\ msg \in Block /\ params \in Block
  /\ part \in 0 .. RespUnits /\ answer \in 0 .. RespUnits

HistoryTyped ==
  /\ nextId \in 1 .. MaxRequests + 1 /\ served \in SUBSET Ids
  /\ outcome \in [Ids -> {"none", "ok", "fail"}]
  /\ kills \in 0 .. MaxKills /\ signals \in 0 .. MaxSignals /\ squeezed \in BOOLEAN

TypeOK == ChannelTyped /\ TasksTyped /\ CallsTyped /\ DaemonTyped /\ HistoryTyped

Init ==
  /\ slot = [q \in Queue |-> Empty] /\ readpos = 0
  /\ full = [q \in Queue |-> {}] /\ empty = [q \in Queue |-> {}]
  /\ devLock = NoTask /\ procLock = NoTask
  /\ inUse = 0 /\ notified = FALSE /\ unmounting = FALSE /\ freed = FALSE
  /\ pc = [t \in Tasks |-> IF t = Daemon THEN "none" ELSE "idle"]
  /\ sig = [t \in Tasks |-> FALSE]
  /\ cur = [r \in Requesters |-> 0] /\ got = [r \in Requesters |-> <<>>]
  /\ ret = [r \in Requesters |-> "none"]
  /\ job = "open" /\ msg = Empty /\ part = 0 /\ answer = 0 /\ params = Empty
  /\ nextId = 1 /\ served = {} /\ outcome = [i \in Ids |-> "none"]
  /\ kills = 0 /\ signals = 0 /\ squeezed = FALSE

Goto(t, l) == pc' = [pc EXCEPT ![t] = l]
----------------------------------------------------------------------------
(* down_interruptible(&device.lock): it takes a free lock whatever signal  *)
(* is pending and gives up only where it would have to wait.               *)
Down(t, from, to) ==
  /\ pc[t] = from /\ devLock = NoTask
  /\ devLock' = t /\ Goto(t, to)
  /\ UNCHANGED <<chanVars, procLock, deviceVars, sig, callVars, daemonVars, histVars>>

CannotDown(t, from) == pc[t] = from /\ devLock # NoTask /\ sig[t]

Up(t) == devLock = t /\ devLock' = NoTask
----------------------------------------------------------------------------
(* cvsfs_handle_add_to_buffer, called by add_request and put_data.         *)
AddQueue(t) == IF t = Daemon /\ job = "write" THEN "in" ELSE "out"

AddData(t) == IF t # Daemon THEN Req(cur[t])
              ELSE IF job = "open" THEN Parm ELSE Resp(msg.id, part, answer)

(* Mutant: an off-by-one in the daemon's loop over the parts of a response. *)
DaemonWritesOneMore ==
  /\ Goto(Daemon, "user")
  /\ \/ job = "open" /\ job' = "init" /\ UNCHANGED <<msg, part, answer>>
     \/ /\ job = "write" /\ part <= answer
        /\ part' = part + 1 /\ UNCHANGED <<job, msg, answer>>
     \/ /\ job = "write" /\ part > answer
        /\ job' = "ready" /\ msg' = Empty /\ part' = 0 /\ answer' = 0
  /\ UNCHANGED <<params, callVars>>

(* open ignores what add_request returns, and write reports a block that   *)
(* put_data did not take as a full transfer, so the daemon goes on alike   *)
(* whether its block was stored.                                           *)
DaemonGoesOn ==
  /\ Goto(Daemon, "user")
  /\ \/ job = "open" /\ job' = "init" /\ UNCHANGED <<msg, part, answer>>
     \/ /\ job = "write" /\ part < answer
        /\ part' = part + 1 /\ UNCHANGED <<job, msg, answer>>
     \/ /\ job = "write" /\ part >= answer
        /\ job' = "ready" /\ msg' = Empty /\ part' = 0 /\ answer' = 0
  /\ UNCHANGED <<params, callVars>>

AddReturns(t, stored) ==
  \/ t = Daemon /\ DaemonGoesOn
  \/ t # Daemon /\ stored /\ Goto(t, "get") /\ UNCHANGED <<callVars, daemonVars>>
  \/ /\ t # Daemon /\ ~stored /\ Goto(t, "procUp")
     /\ ret' = [ret EXCEPT ![t] = "fail"]
     /\ UNCHANGED <<cur, got, daemonVars>>

(* A kmalloc fails: add_request returns -ENOMEM, write -EFAULT.  The       *)
(* daemon's fwrite then drops the rest of the response, which nobody tests.*)
NoMemory(t) ==
  \/ (t # Daemon \/ job = "open") /\ AddReturns(t, FALSE)
  \/ /\ t = Daemon /\ job = "write" /\ Goto(Daemon, "user")
     /\ job' = "ready" /\ msg' = Empty /\ part' = 0 /\ answer' = 0
     /\ UNCHANGED <<params, callVars>>

AddCheck(t) ==
  /\ pc[t] = "addCheck"
  /\ \/ inUse # 0 /\ Goto(t, "add") /\ UNCHANGED <<callVars, daemonVars, squeezed>>
     \/ inUse = 0 /\ AddReturns(t, FALSE) /\ UNCHANGED squeezed
     \/ AllocFails /\ NoMemory(t) /\ squeezed' = TRUE
  /\ UNCHANGED <<chanVars, devLock, procLock, deviceVars, sig, nextId, served,
                 outcome, kills, signals>>

AddGiveUp(t) ==
  /\ CannotDown(t, "add") /\ AddReturns(t, FALSE)
  /\ UNCHANGED <<chanVars, devLock, procLock, deviceVars, sig, histVars>>

(* The queue is empty and the device open; release may still come before   *)
(* the block is stored.                                                    *)
AddAdmit(t) ==
  /\ pc[t] = "adding" /\ slot[AddQueue(t)] = Empty /\ inUse # 0
  /\ Goto(t, "storing")
  /\ UNCHANGED <<chanVars, devLock, procLock, deviceVars, sig, callVars,
                 daemonVars, histVars>>

(* Mutant: no wake_up of dest->full. *)
AddStoreSilently(t) ==
  LET q == AddQueue(t) IN
  /\ pc[t] = "storing" /\ Up(t)
  /\ slot' = [slot EXCEPT ![q] = AddData(t)]
  /\ readpos' = IF q = "out" THEN 0 ELSE readpos
  /\ AddReturns(t, TRUE)
  /\ UNCHANGED <<full, empty, procLock, deviceVars, sig, histVars>>

AddStore(t) ==
  LET q == AddQueue(t) IN
  /\ pc[t] = "storing" /\ Up(t)
  /\ slot' = [slot EXCEPT ![q] = AddData(t)]
  /\ readpos' = IF q = "out" THEN 0 ELSE readpos
  /\ full' = [full EXCEPT ![q] = {}]
  /\ AddReturns(t, TRUE)
  /\ UNCHANGED <<empty, procLock, deviceVars, sig, histVars>>

AddDrop(t) ==
  /\ pc[t] = "adding" /\ Up(t) /\ inUse = 0
  /\ AddReturns(t, FALSE)
  /\ UNCHANGED <<chanVars, procLock, deviceVars, sig, histVars>>

AddSleep(t) ==
  LET q == AddQueue(t) IN
  /\ pc[t] = "adding" /\ Up(t) /\ slot[q] # Empty /\ inUse # 0
  /\ empty' = [empty EXCEPT ![q] = @ \cup {t}]
  /\ Goto(t, "addSleep")
  /\ UNCHANGED <<slot, readpos, full, procLock, deviceVars, sig, callVars,
                 daemonVars, histVars>>

AddWake(t) ==
  LET q == AddQueue(t) IN
  /\ pc[t] = "addSleep" /\ (t \notin empty[q] \/ sig[t])
  /\ empty' = [empty EXCEPT ![q] = @ \ {t}]
  /\ Goto(t, "add")
  /\ UNCHANGED <<slot, readpos, full, devLock, procLock, deviceVars, sig,
                 callVars, daemonVars, histVars>>

AddDown(t) == Down(t, "add", "adding")

AddToBuffer(t) == AddCheck(t) \/ AddDown(t) \/ AddGiveUp(t) \/ AddAdmit(t)
                  \/ AddStore(t) \/ AddDrop(t) \/ AddSleep(t) \/ AddWake(t)
----------------------------------------------------------------------------
(* cvsfs_handle_get_from_buffer, called by retrieve_data and get_data.     *)
GetQueue(t) == IF t = Daemon THEN "out" ELSE "in"

(* Mutant: the loop over the rest of a response ends one block early. *)
RetrievedOneLess(r, g) ==
  /\ got' = [got EXCEPT ![r] = g]
  /\ \/ /\ g[1].part = 1 /\ Len(g) + 1 < g[1].of
        /\ Goto(r, "get") /\ UNCHANGED ret
     \/ /\ Len(g) + 1 >= g[1].of
        /\ Goto(r, "procUp")
        /\ ret' = [ret EXCEPT ![r] = IF g[1].of = 0 THEN "fail" ELSE "ok"]
  /\ UNCHANGED <<cur, daemonVars, squeezed>>

(* serialize_request after it retrieved block number Len(g) of a response. *)
(* A first block that is not the first of its response starts with data,   *)
(* which is read as the size.  A longer response is copied to a buffer of  *)
(* its own; without memory for it the rest stays where it is.              *)
Retrieved(r, g) ==
  /\ got' = [got EXCEPT ![r] = g]
  /\ \/ /\ g[1].part = 1 /\ Len(g) < g[1].of
        /\ Goto(r, "get") /\ UNCHANGED <<ret, squeezed>>
     \/ /\ g[1].part = 1 /\ Len(g) >= g[1].of
        /\ Goto(r, "procUp") /\ UNCHANGED squeezed
        /\ ret' = [ret EXCEPT ![r] = IF g[1].of = 0 THEN "fail" ELSE "ok"]
     \/ /\ AllocFails /\ Len(g) = 1 /\ g[1].part = 1 /\ g[1].of > 1
        /\ Goto(r, "procUp") /\ squeezed' = TRUE
        /\ ret' = [ret EXCEPT ![r] = "fail"]
     \/ /\ g[1].part # 1 /\ Goto(r, "procUp") /\ UNCHANGED squeezed
        /\ \E v \in {"ok", "fail"} : ret' = [ret EXCEPT ![r] = v]
  /\ UNCHANGED <<cur, daemonVars>>

(* serialize_request when retrieve_data returned 0: nothing was received,  *)
(* or the loop over the rest of the response ends and the size is returned.*)
NothingRetrieved(r) ==
  /\ Goto(r, "procUp")
  /\ ret' = [ret EXCEPT ![r] = IF got[r] = <<>> THEN "fail" ELSE "ok"]
  /\ UNCHANGED <<cur, got, daemonVars>>

GetReturnsNothing(t) ==
  \/ t = Daemon /\ Goto(Daemon, "user") /\ UNCHANGED <<callVars, daemonVars>>
  \/ t # Daemon /\ NothingRetrieved(t)

GetGiveUp(t) ==
  /\ CannotDown(t, "get") /\ GetReturnsNothing(t)
  /\ UNCHANGED <<chanVars, devLock, procLock, deviceVars, sig, histVars>>

(* There is a block and the device is open; release may still come before  *)
(* it is taken.                                                            *)
GetAdmit(t) ==
  /\ pc[t] = "getting" /\ slot[GetQueue(t)] # Empty /\ inUse # 0
  /\ Goto(t, "taking")
  /\ UNCHANGED <<chanVars, devLock, procLock, deviceVars, sig, callVars,
                 daemonVars, histVars>>

(* Mutant: no wake_up of source->empty. *)
GetTakeSilently(t) ==
  LET q == GetQueue(t) IN
  /\ pc[t] = "taking" /\ Up(t) /\ slot[q] # Empty
  /\ slot' = [slot EXCEPT ![q] = Empty]
  /\ readpos' = IF q = "out" THEN 0 ELSE readpos
  /\ \/ t = Daemon /\ Goto(Daemon, "user") /\ UNCHANGED <<callVars, daemonVars, squeezed>>
     \/ t # Daemon /\ Retrieved(t, Append(got[t], slot[q]))
  /\ UNCHANGED <<full, empty, procLock, deviceVars, sig, nextId, served,
                 outcome, kills, signals>>

GetTake(t) ==
  LET q == GetQueue(t) IN
  /\ pc[t] = "taking" /\ Up(t) /\ slot[q] # Empty
  /\ slot' = [slot EXCEPT ![q] = Empty]
  /\ readpos' = IF q = "out" THEN 0 ELSE readpos
  /\ empty' = [empty EXCEPT ![q] = {}]
  /\ \/ t = Daemon /\ Goto(Daemon, "user") /\ UNCHANGED <<callVars, daemonVars, squeezed>>
     \/ t # Daemon /\ Retrieved(t, Append(got[t], slot[q]))
  /\ UNCHANGED <<full, procLock, deviceVars, sig, nextId, served,
                 outcome, kills, signals>>

(* Release emptied the queue after the tests: a block of size 0 is taken.  *)
GetTakeNothing(t) ==
  /\ pc[t] = "taking" /\ Up(t) /\ slot[GetQueue(t)] = Empty
  /\ GetReturnsNothing(t)
  /\ UNCHANGED <<chanVars, procLock, deviceVars, sig, histVars>>

(* Mutant: the return for a closed device without the up. *)
GetDropLocked(t) ==
  /\ pc[t] = "getting" /\ devLock = t /\ inUse = 0
  /\ GetReturnsNothing(t)
  /\ UNCHANGED <<chanVars, devLock, procLock, deviceVars, sig, histVars>>

GetDrop(t) ==
  /\ pc[t] = "getting" /\ Up(t) /\ inUse = 0
  /\ GetReturnsNothing(t)
  /\ UNCHANGED <<chanVars, procLock, deviceVars, sig, histVars>>

(* Mutant: a task that finds no block does not wait for one. *)
GetSleepNot(t) ==
  /\ pc[t] = "getting" /\ Up(t) /\ slot[GetQueue(t)] = Empty /\ inUse # 0
  /\ GetReturnsNothing(t)
  /\ UNCHANGED <<chanVars, procLock, deviceVars, sig, histVars>>

GetSleep(t) ==
  LET q == GetQueue(t) IN
  /\ pc[t] = "getting" /\ Up(t) /\ slot[q] = Empty /\ inUse # 0
  /\ full' = [full EXCEPT ![q] = @ \cup {t}]
  /\ Goto(t, "getSleep")
  /\ UNCHANGED <<slot, readpos, empty, procLock, deviceVars, sig, callVars,
                 daemonVars, histVars>>

GetWake(t) ==
  LET q == GetQueue(t) IN
  /\ pc[t] = "getSleep" /\ (t \notin full[q] \/ sig[t])
  /\ full' = [full EXCEPT ![q] = @ \ {t}]
  /\ Goto(t, "get")
  /\ UNCHANGED <<slot, readpos, empty, devLock, procLock, deviceVars, sig,
                 callVars, daemonVars, histVars>>

GetDown(t) == Down(t, "get", "getting")

GetFromBuffer(t) == GetDown(t) \/ GetGiveUp(t) \/ GetAdmit(t) \/ GetTake(t)
                    \/ GetTakeNothing(t) \/ GetDrop(t) \/ GetSleep(t) \/ GetWake(t)
----------------------------------------------------------------------------
(* cvsfs_serialize_request: a VFS call that reaches proc.c.                *)
Call(r) ==
  /\ pc[r] = "idle" /\ pc[Umount] = "idle" /\ nextId <= MaxRequests
  /\ QuietOpen => ~Opening
  /\ Goto(r, "procDown")
  /\ cur' = [cur EXCEPT ![r] = nextId] /\ nextId' = nextId + 1
  /\ UNCHANGED <<chanVars, devLock, procLock, deviceVars, sig, got, ret,
                 daemonVars, served, outcome, kills, signals, squeezed>>

(* Mutant: serialize_request does not wait for proc.lock. *)
ProcDownAnyway(r) ==
  /\ pc[r] = "procDown"
  /\ procLock' = r /\ Goto(r, "addCheck")
  /\ UNCHANGED <<chanVars, devLock, deviceVars, sig, callVars, daemonVars, histVars>>

ProcDown(r) ==
  /\ pc[r] = "procDown" /\ procLock = NoTask
  /\ procLock' = r /\ Goto(r, "addCheck")
  /\ UNCHANGED <<chanVars, devLock, deviceVars, sig, callVars, daemonVars, histVars>>

(* The call returns to the VFS, which delivers the signal. *)
Return(r, result) ==
  /\ outcome' = [outcome EXCEPT ![cur[r]] = result]
  /\ cur' = [cur EXCEPT ![r] = 0] /\ got' = [got EXCEPT ![r] = <<>>]
  /\ ret' = [ret EXCEPT ![r] = "none"]
  /\ sig' = [sig EXCEPT ![r] = FALSE]
  /\ Goto(r, "idle")
  /\ UNCHANGED <<chanVars, devLock, deviceVars, daemonVars, nextId, served,
                 kills, signals, squeezed>>

ProcGiveUp(r) ==
  /\ pc[r] = "procDown" /\ procLock # NoTask /\ sig[r]
  /\ Return(r, "fail") /\ UNCHANGED procLock

ProcUp(r) ==
  /\ pc[r] = "procUp" /\ procLock' = NoTask
  /\ Return(r, ret[r])

Requester(r) == Call(r) \/ ProcDown(r) \/ ProcGiveUp(r) \/ ProcUp(r)
                \/ AddToBuffer(r) \/ GetFromBuffer(r)
----------------------------------------------------------------------------
(* The control daemon reads the id of the mount and starts its cvsfsd.     *)
Spawn ==
  /\ pc[Daemon] = "none" /\ ~notified /\ inUse = 0 /\ ~unmounting /\ ~freed
  /\ notified' = TRUE /\ Goto(Daemon, "open")
  /\ UNCHANGED <<chanVars, devLock, procLock, inUse, unmounting, freed, sig,
                 callVars, daemonVars, histVars>>

(* Nothing goes on that can reach a queue before a daemon uses the device. *)
QuietLabels == {"idle", "addSleep", "getSleep"}

(* Mutant: open queues the string before it counts the device as in use,   *)
(* so that add_request drops it.                                           *)
OpenLate ==
  /\ pc[Daemon] = "open" /\ ~freed
  /\ QuietOpen => \A t \in Requesters \cup {Umount} : pc[t] \in QuietLabels
  /\ inUse' = inUse + 1 /\ job' = "init" /\ Goto(Daemon, "user")
  /\ UNCHANGED <<chanVars, devLock, procLock, notified, unmounting, freed, sig,
                 callVars, msg, part, answer, params, histVars>>

(* cvsfs_devfs_open: the increment; then it queues the parameter string.   *)
Open ==
  /\ pc[Daemon] = "open" /\ ~freed
  /\ QuietOpen => \A t \in Requesters \cup {Umount} : pc[t] \in QuietLabels
  /\ inUse' = inUse + 1 /\ Goto(Daemon, "addCheck")
  /\ UNCHANGED <<chanVars, devLock, procLock, notified, unmounting, freed, sig,
                 callVars, daemonVars, histVars>>

(* No superblock has that minor number: the open and the daemon fail.      *)
OpenFails ==
  /\ pc[Daemon] = "open" /\ freed /\ Goto(Daemon, "none")
  /\ UNCHANGED <<chanVars, devLock, procLock, deviceVars, sig, callVars,
                 daemonVars, histVars>>

(* cvsfs_devfs_read.  Once the last part is copied the block is released   *)
(* by get_data, after the lock was given up.                               *)
ReadChunk ==
  /\ Up(Daemon) /\ readpos < Size(slot["out"])
  /\ readpos' = readpos + 1
  /\ IF readpos + 1 >= Size(slot["out"])
       THEN msg' = slot["out"] /\ Goto(Daemon, "get")
       ELSE UNCHANGED msg /\ Goto(Daemon, "user")
  /\ UNCHANGED <<slot, full, empty, procLock, deviceVars, sig, callVars, job,
                 part, answer, params, histVars>>

ReadEndOfFile ==
  /\ Up(Daemon) /\ readpos >= Size(slot["out"]) /\ Goto(Daemon, "user")
  /\ UNCHANGED <<chanVars, procLock, deviceVars, sig, callVars, daemonVars, histVars>>

ReadSleep ==
  /\ pc[Daemon] = "reading" /\ Up(Daemon) /\ slot["out"] = Empty
  /\ full' = [full EXCEPT !["out"] = @ \cup {Daemon}]
  /\ Goto(Daemon, "readSleep")
  /\ UNCHANGED <<slot, readpos, empty, procLock, deviceVars, sig, callVars,
                 daemonVars, histVars>>

(* wait_event_interruptible(out.full, out.size > 0) *)
ReadWake ==
  /\ pc[Daemon] = "readSleep" /\ (Daemon \notin full["out"] \/ sig[Daemon])
  /\ \/ /\ slot["out"] # Empty /\ Goto(Daemon, "reread")
        /\ full' = [full EXCEPT !["out"] = @ \ {Daemon}]
     \/ /\ slot["out"] = Empty /\ sig[Daemon] /\ Goto(Daemon, "user")
        /\ full' = [full EXCEPT !["out"] = @ \ {Daemon}]
     \/ /\ slot["out"] = Empty /\ ~sig[Daemon] /\ UNCHANGED pc
        /\ full' = [full EXCEPT !["out"] = @ \cup {Daemon}]
  /\ UNCHANGED <<slot, readpos, empty, devLock, procLock, deviceVars, sig,
                 callVars, daemonVars, histVars>>

ReadGiveUp ==
  /\ CannotDown(Daemon, "read") \/ CannotDown(Daemon, "reread")
  /\ Goto(Daemon, "user")
  /\ UNCHANGED <<chanVars, devLock, procLock, deviceVars, sig, callVars,
                 daemonVars, histVars>>

ReadDown   == Down(Daemon, "read", "reading")
RereadDown == Down(Daemon, "reread", "rereading")

Read ==
  \/ ReadDown \/ RereadDown \/ ReadSleep \/ ReadWake \/ ReadGiveUp
  \/ pc[Daemon] = "reading" /\ slot["out"] # Empty /\ (ReadChunk \/ ReadEndOfFile)
  \/ pc[Daemon] = "rereading" /\ (ReadChunk \/ ReadEndOfFile)
----------------------------------------------------------------------------
(* The daemon in user mode: TModuleServer::init and TModuleServer::run.    *)
InUser == pc[Daemon] = "user" /\ ~sig[Daemon]

ReadCall ==
  /\ InUser /\ job \in {"init", "ready"} /\ msg = Empty
  /\ Goto(Daemon, "read")
  /\ UNCHANGED <<chanVars, devLock, procLock, deviceVars, sig, callVars,
                 daemonVars, histVars>>

TakeParameters ==
  /\ InUser /\ job = "init" /\ msg # Empty
  /\ params' = msg /\ msg' = Empty /\ job' = "ready"
  /\ UNCHANGED <<chanVars, devLock, procLock, deviceVars, pc, sig, callVars,
                 part, answer, histVars>>

(* doit of the request's action: its effect, then a response of n blocks.  *)
Execute(n) ==
  /\ InUser /\ job = "ready" /\ msg.kind = "req"
  /\ served' = served \cup {msg.id}
  /\ job' = "write" /\ part' = 1 /\ answer' = n
  /\ UNCHANGED <<chanVars, devLock, procLock, deviceVars, pc, sig, callVars,
                 msg, params, nextId, outcome, kills, signals, squeezed>>

WriteCall ==
  /\ InUser /\ job = "write"
  /\ Goto(Daemon, "addCheck")
  /\ UNCHANGED <<chanVars, devLock, procLock, deviceVars, sig, callVars,
                 daemonVars, histVars>>

(* The quit command ends the loop; a pending signal ends the process. *)
Exit ==
  /\ pc[Daemon] = "user"
  /\ sig[Daemon] \/ (job = "ready" /\ msg.kind = "quit")
  /\ Goto(Daemon, "exit")
  /\ UNCHANGED <<chanVars, devLock, procLock, deviceVars, sig, callVars,
                 daemonVars, histVars>>

(* cvsfs_devfs_release, which takes no lock, and cvsfs_down_queues.        *)
Release ==
  /\ pc[Daemon] = "exit"
  /\ inUse' = inUse - 1 /\ notified' = (notified /\ unmounting)
  /\ Goto(Daemon, "clearIn")
  /\ UNCHANGED <<chanVars, devLock, procLock, unmounting, freed, sig, callVars,
                 daemonVars, histVars>>

(* Mutant: down_queues forgets the queue of responses. *)
ClearInNot ==
  /\ pc[Daemon] = "clearIn" /\ Goto(Daemon, "clearOut")
  /\ UNCHANGED <<chanVars, devLock, procLock, deviceVars, sig, callVars,
                 daemonVars, histVars>>

ClearIn ==
  /\ pc[Daemon] = "clearIn"
  /\ slot' = [slot EXCEPT !["in"] = Empty]
  /\ Goto(Daemon, "clearOut")
  /\ UNCHANGED <<readpos, full, empty, devLock, procLock, deviceVars, sig,
                 callVars, daemonVars, histVars>>

ClearOut ==
  /\ pc[Daemon] = "clearOut"
  /\ slot' = [slot EXCEPT !["out"] = Empty]
  /\ Goto(Daemon, "none") /\ sig' = [sig EXCEPT ![Daemon] = FALSE]
  /\ job' = "open" /\ msg' = Empty /\ part' = 0 /\ answer' = 0 /\ params' = Empty
  /\ UNCHANGED <<readpos, full, empty, devLock, procLock, deviceVars, callVars,
                 histVars>>

DaemonStep ==
  \/ Spawn \/ Open \/ OpenFails \/ AddToBuffer(Daemon) \/ Read
  \/ GetFromBuffer(Daemon) \/ ReadCall \/ TakeParameters
  \/ (\E n \in 0 .. RespUnits : Execute(n)) \/ WriteCall
  \/ Exit \/ Release \/ ClearIn \/ ClearOut
----------------------------------------------------------------------------
(* put_super, which the VFS calls once nobody uses the file system:        *)
(* cvsfs_devfs_user_cleanup, then the superblock information is freed.     *)
UmountStart ==
  /\ MayUnmount /\ \A t \in Requesters \cup {Umount} : pc[t] = "idle"
  /\ QuietOpen => ~Opening
  /\ Goto(Umount, "umDown")
  /\ UNCHANGED <<chanVars, devLock, procLock, deviceVars, sig, callVars,
                 daemonVars, histVars>>

UmountDown == Down(Umount, "umDown", "umBody")

UserCleanup ==
  /\ pc[Umount] = "umBody" /\ unmounting' = TRUE
  /\ \/ inUse # 0 /\ Goto(Umount, "umQuit") /\ UNCHANGED devLock
     \/ inUse = 0 /\ Goto(Umount, "umFree") /\ Up(Umount)
  /\ UNCHANGED <<chanVars, procLock, inUse, notified, freed, sig, callVars,
                 daemonVars, histVars>>

(* Mutant: the daemon is not woken for the quit. *)
SendQuitSilently ==
  /\ pc[Umount] = "umQuit" /\ Up(Umount) /\ Goto(Umount, "umWait")
  /\ slot' = [slot EXCEPT !["out"] = Quit]
  /\ UNCHANGED <<readpos, full, empty, procLock, deviceVars, sig, callVars,
                 daemonVars, histVars>>

(* Quit takes the place of what is in the queue; readpos stays.            *)
SendQuit ==
  /\ pc[Umount] = "umQuit" /\ Up(Umount) /\ Goto(Umount, "umWait")
  /\ slot' = [slot EXCEPT !["out"] = Quit]
  /\ full' = [full EXCEPT !["out"] = {}]
  /\ UNCHANGED <<readpos, empty, procLock, deviceVars, sig, callVars,
                 daemonVars, histVars>>

UmountWait ==
  /\ pc[Umount] = "umWait"
  /\ \/ /\ inUse = 0 \/ slot["out"] = Empty
        /\ Goto(Umount, "umFree") /\ UNCHANGED empty
     \/ /\ inUse # 0 /\ slot["out"] # Empty
        /\ Goto(Umount, "umSleep")
        /\ empty' = [empty EXCEPT !["out"] = @ \cup {Umount}]
  /\ UNCHANGED <<slot, readpos, full, devLock, procLock, deviceVars, sig,
                 callVars, daemonVars, histVars>>

UmountWake ==
  /\ pc[Umount] = "umSleep" /\ Umount \notin empty["out"]
  /\ Goto(Umount, "umWait")
  /\ UNCHANGED <<chanVars, devLock, procLock, deviceVars, sig, callVars,
                 daemonVars, histVars>>

FreeSuper ==
  /\ pc[Umount] = "umFree" /\ freed' = TRUE /\ Goto(Umount, "gone")
  /\ UNCHANGED <<chanVars, devLock, procLock, inUse, notified, unmounting, sig,
                 callVars, daemonVars, histVars>>

UmountStep == UmountDown \/ UserCleanup \/ SendQuit \/ UmountWait \/ UmountWake
              \/ FreeSuper
----------------------------------------------------------------------------
(* Faults: the daemon is killed; a task in a VFS call gets a signal.       *)
Kill ==
  /\ kills < MaxKills /\ ~sig[Daemon]
  /\ pc[Daemon] \notin {"none", "open", "exit", "clearIn", "clearOut"}
  /\ sig' = [sig EXCEPT ![Daemon] = TRUE] /\ kills' = kills + 1
  /\ UNCHANGED <<chanVars, devLock, procLock, deviceVars, pc, callVars,
                 daemonVars, nextId, served, outcome, signals, squeezed>>

Signal(r) ==
  /\ signals < MaxSignals /\ pc[r] # "idle" /\ ~sig[r]
  /\ sig' = [sig EXCEPT ![r] = TRUE] /\ signals' = signals + 1
  /\ UNCHANGED <<chanVars, devLock, procLock, deviceVars, pc, callVars,
                 daemonVars, nextId, served, outcome, kills, squeezed>>

Next ==
  \/ \E r \in Requesters : Requester(r) \/ Signal(r)
  \/ DaemonStep \/ UmountStart \/ UmountStep \/ Kill

Spec == Init /\ [][Next]_vars

(* Tasks that can run do run; a semaphore does not pass over a task that   *)
(* waits for it for ever.  Nobody need make a call, unmount, kill or       *)
(* signal.                                                                 *)
Acquire(t) == \/ t \in Requesters /\ ProcDown(t)
              \/ AddDown(t) \/ GetDown(t)
              \/ t = Daemon /\ (ReadDown \/ RereadDown)

Fairness ==
  /\ \A r \in Requesters : WF_vars(Requester(r) /\ pc[r] # "idle") /\ SF_vars(Acquire(r))
  /\ WF_vars(DaemonStep) /\ SF_vars(Acquire(Daemon))
  /\ WF_vars(UmountStep) /\ SF_vars(UmountDown)

FairSpec == Spec /\ Fairness
----------------------------------------------------------------------------
(* A task is in a stretch of code that its lock protects exactly while it  *)
(* holds that lock: every error return of add_to_buffer, get_from_buffer,  *)
(* read and serialize_request gives up what was taken, and nothing else.   *)
LockDiscipline ==
  /\ \A t \in Tasks : devLock = t <=> pc[t] \in LockLabels
  /\ \A r \in Requesters : procLock = r <=> pc[r] \in ProcLabels

(* The request that a daemon has read has its caller waiting for the       *)
(* answer, and nothing of an answer has reached it yet.  A request that    *)
(* its caller stored after release had cleared the queues stays behind in  *)
(* the closed device; no later daemon carries it out.                      *)
CallerWaits ==
  signals = 0 /\ ~squeezed /\ inUse # 0 /\ job = "ready" /\ msg.kind = "req" =>
    \E r \in Requesters : procLock = r /\ cur[r] = msg.id /\ got[r] = <<>>

(* The first message a daemon reads is the mount's parameter string or,    *)
(* when the mount goes away first, quit: never a request, also when VFS    *)
(* calls arrive while open is still queuing the string.                    *)
ParametersFirst == ~squeezed => params.kind \in {"none", "parm", "quit"}

(* Unless a waiting task was signalled or memory was short, the blocks a   *)
(* task retrieves are the response to its own request, from the first one  *)
(* and in order, also when daemons die and are replaced.                   *)
ReplyMatches ==
  signals = 0 /\ ~squeezed =>
    \A r \in Requesters : \A k \in DOMAIN got[r] :
      got[r][k].kind = "resp" /\ got[r][k].id = cur[r] /\ got[r][k].part = k

(* Nobody sleeps for a queue to fill that is full; nobody sleeps for one   *)
(* to empty that is empty as long as no daemon was killed.                 *)
NoLostWakeup ==
  /\ \A q \in Queue : full[q] # {} => slot[q] = Empty
  /\ kills = 0 => \A q \in Queue : empty[q] # {} => slot[q] # Empty

(* A call for which the daemon was neither killed nor the caller signalled *)
(* nor memory short hands out all the blocks that the daemon wrote.        *)
WholeReply ==
  kills = 0 /\ signals = 0 /\ ~squeezed =>
    \A r \in Requesters :
      pc[r] = "procUp" /\ ret[r] = "ok" => Len(got[r]) = got[r][1].of

(* Every VFS call comes back: the exchange over the two queues never stops *)
(* with a task asleep in it.                                               *)
CallsReturn == \A r \in Requesters : pc[r] = "procDown" ~> pc[r] = "idle"

(* Unmounting ends: the daemon takes the quit that put_super waits for.    *)
UmountEnds == pc[Umount] = "umDown" ~> pc[Umount] = "gone"

(* A task that waits on a queue when the device closes stops waiting       *)
(* ("device closed while waiting", devfs.c 152).                           *)
WaitEndsWhenClosed ==
  \A r \in Requesters :
    (inUse = 0 /\ pc[r] \in {"addSleep", "getSleep"})
      ~> pc[r] \notin {"addSleep", "getSleep"}

(* What a task retrieves answers its own request ("serializes all          *)
(* requests", proc.c 23), also after another task was interrupted.         *)
OwnReply == \A r \in Requesters : \A k \in DOMAIN got[r] : got[r][k].id = cur[r]

----------------------------------------------------------------------------
(* serialize_request implements CvsfsService.                              *)
Phase(i) ==
  IF i >= nextId THEN "new"
  ELSE IF outcome[i] = "ok" THEN "ok"
  ELSE IF outcome[i] = "fail" THEN "failed"
  ELSE IF \E r \in Requesters : cur[r] = i /\ pc[r] = "procDown" THEN "waiting"
  ELSE IF i \in served THEN "served" ELSE "active"

Service == INSTANCE CvsfsService WITH Ids <- Ids, phase <- [i \in Ids |-> Phase(i)]

(* The calls of all tasks are served one at a time, none is served twice   *)
(* and none succeeds that was not served.                                  *)
ServiceSpec == Service!Spec
============================================================================
