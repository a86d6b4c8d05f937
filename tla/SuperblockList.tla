--------------------------- MODULE SuperblockList ---------------------------
(***************************************************************************)
(* The mounts of the kernel module and the daemons started for them:       *)
(* src/cvsfs/superblock.c (the list of superblocks, read_super, put_super),*)
(* the control device of src/cvsfs/devfs.c, and the control daemon of      *)
(* src/cvsfsd/main.cpp, which starts one cvsfsd for each mount.            *)
(*                                                                         *)
(* A stretch of code under root_lock is one step.  Of the data device only *)
(* open, the quit of an unmount and release are kept: CvsfsDevice has the  *)
(* rest.                                                                   *)
(***************************************************************************)
EXTENDS Naturals, FiniteSets

CONSTANTS
  Mounts,      \* the superblock informations that may be allocated
  Points,      \* mount points
  Procs,       \* the cvsfsd processes that may be started
  Nil,         \* the null pointer
  MaxMounts,   \* max_mounts of add_superblock
  MaxMinor,    \* the largest minor number of a device
  MaxRestarts  \* bound on the times the control daemon is started again

ASSUME ListAssumption ==
  /\ IsFiniteSet(Mounts) /\ Nil \notin Mounts
  /\ MaxMounts \in Nat /\ MaxMinor \in Nat /\ MaxRestarts \in Nat

VARIABLES
  root, next, prev,   \* the list of superblocks
  at,                 \* how far read_super or put_super is with a mount
  point, id, text,    \* mountpoint, id, and the id that idstring shows
  ready,              \* devfs_user_init has initialised the device
  inUse, notified, unmounting, quit,  \* of the device
  control, arg,       \* where the control daemon is, and the id it read
  proc, minor, file,  \* of a cvsfsd: its state, its argument, its open device
  restarts,           \* history: control daemons started again
  forsaken            \* history: mounts whose cvsfsd ended before its open

listVars   == <<root, next, prev>>
nameVars   == <<point, id, text>>
deviceVars == <<ready, inUse, notified, unmounting, quit>>
ctlVars    == <<control, arg, restarts, forsaken>>
procVars   == <<proc, minor, file>>
vars == <<listVars, at, nameVars, deviceVars, ctlVars, procVars>>

AllIds == 0 .. MaxMounts + 1

Listed == {"added", "named", "device", "mounted", "quitting", "leaving"}

TypeOK ==
  /\ root \in Mounts \cup {Nil}
  /\ next \in [Mounts -> Mounts \cup {Nil}] /\ prev \in [Mounts -> Mounts \cup {Nil}]
  /\ at \in [Mounts -> Listed \cup {"new", "checked", "stuck", "gone"}]
  /\ point \in [Mounts -> Points \cup {Nil}]
  /\ id \in [Mounts -> AllIds] /\ text \in [Mounts -> AllIds]
  /\ ready \in [Mounts -> BOOLEAN] /\ inUse \in [Mounts -> {0, 1}]
  /\ notified \in [Mounts -> BOOLEAN] /\ unmounting \in [Mounts -> BOOLEAN]
  /\ quit \in [Mounts -> BOOLEAN]
  /\ control \in {"off", "scan", "queue", "asleep", "rescan", "read", "start"}
  /\ arg \in AllIds /\ restarts \in 0 .. MaxRestarts /\ forsaken \subseteq Mounts
  /\ proc \in [Procs -> {"none", "started", "found", "open", "stuck", "exit"}]
  /\ minor \in [Procs -> AllIds] /\ file \in [Procs -> Mounts \cup {Nil}]

Init ==
  /\ root = Nil
  /\ next = [m \in Mounts |-> Nil] /\ prev = [m \in Mounts |-> Nil]
  /\ at = [m \in Mounts |-> "new"] /\ point = [m \in Mounts |-> Nil]
  /\ id = [m \in Mounts |-> 0] /\ text = [m \in Mounts |-> 0]
  /\ ready = [m \in Mounts |-> FALSE] /\ inUse = [m \in Mounts |-> 0]
  /\ notified = [m \in Mounts |-> FALSE] /\ unmounting = [m \in Mounts |-> FALSE]
  /\ quit = [m \in Mounts |-> FALSE]
  /\ control = "off" /\ arg = 0 /\ restarts = 0 /\ forsaken = {}
  /\ proc = [p \in Procs |-> "none"] /\ minor = [p \in Procs |-> 0]
  /\ file = [p \in Procs |-> Nil]

At(m, from, to) == at[m] = from /\ at' = [at EXCEPT ![m] = to]
----------------------------------------------------------------------------
(* The list as its readers walk it. *)
Length == Cardinality(Mounts)

Walk == LET W[n \in 1 .. Length] ==
              IF n = 1 THEN root
              ELSE IF W[n - 1] = Nil THEN Nil ELSE next[W[n - 1]]
        IN W

InList == {Walk[n] : n \in 1 .. Length} \ {Nil}

NeedsDaemon(m) == ~notified[m] /\ inUse[m] = 0 /\ ~unmounting[m]

(* The first superblock from the root that has no daemon. *)
IsFirst(m) ==
  \E n \in 1 .. Length :
    /\ Walk[n] = m /\ m # Nil /\ NeedsDaemon(m)
    /\ \A k \in 1 .. n - 1 : ~NeedsDaemon(Walk[k])

(* wake_up_interruptible_sync(&cvsfs_restart_signal) *)
WakeControl == control' = IF control = "asleep" THEN "rescan" ELSE control
----------------------------------------------------------------------------
(* cvsfs_read_super: the mount point is looked up; on success the root     *)
(* inode and dentry are allocated, which may fail.                         *)
ReadSuper(m, p) ==
  /\ at[m] = "new"
  /\ \/ /\ \A k \in InList : point[k] # p
        /\ point' = [point EXCEPT ![m] = p] /\ At(m, "new", "checked")
     \/ At(m, "new", "gone") /\ UNCHANGED point
  /\ UNCHANGED <<listVars, id, text, deviceVars, ctlVars, procVars>>

(* Mutants: the loop runs once too often; it looks at the first superblock. *)
FreeIdsOneMore == {i \in 1 .. MaxMounts + 2 : \A k \in InList : id[k] # i}
FreeIdsFirst   == {i \in AllIds \ {0} : root = Nil \/ id[root] # i}

(* cvsfs_add_superblock: the smallest free id; the id after max_mounts is  *)
(* still tried, and 0 says that there is none.                             *)
FreeIds == {i \in AllIds \ {0} : \A k \in InList : id[k] # i}

AddSuperblock(m) ==
  /\ At(m, "checked", "added")
  /\ id' = [id EXCEPT ![m] =
       IF FreeIds = {} THEN 0 ELSE CHOOSE i \in FreeIds : \A j \in FreeIds : i <= j]
  /\ next' = [next EXCEPT ![m] = root]
  /\ prev' = [k \in Mounts |-> IF k = m THEN Nil ELSE IF k = root THEN m ELSE prev[k]]
  /\ root' = m
  /\ UNCHANGED <<point, text, deviceVars, ctlVars, procVars>>

(* The id is written to idstring after root_lock was given up. *)
SetIdString(m) ==
  /\ At(m, "added", "named") /\ text' = [text EXCEPT ![m] = id[m]]
  /\ UNCHANGED <<listVars, point, id, deviceVars, ctlVars, procVars>>

(* cvsfs_procfs_user_init fails without an id, or when an entry cannot be  *)
(* created; the mount is then given up.                                    *)
ProcfsUserInit(m) ==
  /\ \/ id[m] # 0 /\ At(m, "named", "device")
     \/ At(m, "named", "leaving")
  /\ UNCHANGED <<listVars, nameVars, deviceVars, ctlVars, procVars>>

(* Mutant: user_init does not reset daemon_notified. *)
InitKeepsNotified(m) ==
  /\ At(m, "device", "mounted")
  /\ IF id[m] > MaxMinor
       THEN UNCHANGED <<deviceVars, control>>
       ELSE /\ ready' = [ready EXCEPT ![m] = TRUE]
            /\ inUse' = [inUse EXCEPT ![m] = 0]
            /\ unmounting' = [unmounting EXCEPT ![m] = FALSE]
            /\ WakeControl /\ UNCHANGED <<notified, quit>>
  /\ UNCHANGED <<listVars, nameVars, arg, restarts, forsaken, procVars>>

(* cvsfs_devfs_user_init, whose result read_super ignores: with an id that *)
(* is no minor number the file system is mounted, its device untouched.    *)
DevfsUserInit(m) ==
  /\ At(m, "device", "mounted")
  /\ IF id[m] > MaxMinor
       THEN UNCHANGED <<deviceVars, control>>
       ELSE /\ ready' = [ready EXCEPT ![m] = TRUE]
            /\ inUse' = [inUse EXCEPT ![m] = 0]
            /\ unmounting' = [unmounting EXCEPT ![m] = FALSE]
            /\ notified' = [notified EXCEPT ![m] = FALSE]
            /\ WakeControl /\ UNCHANGED quit
  /\ UNCHANGED <<listVars, nameVars, arg, restarts, forsaken, procVars>>
----------------------------------------------------------------------------
(* cvsfs_put_super.  The semaphore of a device that was not initialised is *)
(* never free.                                                             *)
DevfsUserCleanup(m) ==
  /\ at[m] = "mounted"
  /\ \/ ~ready[m] /\ At(m, "mounted", "stuck") /\ UNCHANGED <<unmounting, quit>>
     \/ /\ ready[m] /\ unmounting' = [unmounting EXCEPT ![m] = TRUE]
        /\ quit' = [quit EXCEPT ![m] = inUse[m] # 0]
        /\ At(m, "mounted", IF inUse[m] # 0 THEN "quitting" ELSE "leaving")
  /\ UNCHANGED <<listVars, nameVars, ready, inUse, notified, ctlVars, procVars>>

CleanupEnds(m) ==
  /\ inUse[m] = 0 \/ ~quit[m]
  /\ At(m, "quitting", "leaving")
  /\ UNCHANGED <<listVars, nameVars, deviceVars, ctlVars, procVars>>

(* What was in the information does not count any more. *)
Freed(m) ==
  /\ point' = [point EXCEPT ![m] = Nil] /\ id' = [id EXCEPT ![m] = 0]
  /\ text' = [text EXCEPT ![m] = 0] /\ ready' = [ready EXCEPT ![m] = FALSE]
  /\ inUse' = [inUse EXCEPT ![m] = 0] /\ notified' = [notified EXCEPT ![m] = FALSE]
  /\ unmounting' = [unmounting EXCEPT ![m] = FALSE]
  /\ quit' = [quit EXCEPT ![m] = FALSE] /\ forsaken' = forsaken \ {m}

(* Mutant: the successor keeps its pointer to the removed superblock. *)
RemoveHalf(m) ==
  /\ At(m, "leaving", "gone")
  /\ root' = IF prev[m] = Nil THEN next[m] ELSE root
  /\ next' = [k \in Mounts |-> IF k = m THEN Nil
                               ELSE IF k = prev[m] THEN next[m] ELSE next[k]]
  /\ prev' = [prev EXCEPT ![m] = Nil]
  /\ Freed(m) /\ UNCHANGED <<control, arg, restarts, procVars>>

(* cvsfs_remove_superblock; then the information is freed. *)
RemoveSuperblock(m) ==
  /\ At(m, "leaving", "gone")
  /\ root' = IF prev[m] = Nil THEN next[m] ELSE root
  /\ next' = [k \in Mounts |-> IF k = m THEN Nil
                               ELSE IF k = prev[m] THEN next[m] ELSE next[k]]
  /\ prev' = [k \in Mounts |-> IF k = m THEN Nil
                               ELSE IF k = next[m] THEN prev[m] ELSE prev[k]]
  /\ Freed(m) /\ UNCHANGED <<control, arg, restarts, procVars>>
----------------------------------------------------------------------------
(* The control daemon: select and read on the control device, then the     *)
(* shell that starts a cvsfsd.                                             *)
ControlStart ==
  /\ control = "off" /\ control' = "scan" /\ UNCHANGED arg
  /\ restarts < MaxRestarts /\ restarts' = restarts + 1
  /\ UNCHANGED <<listVars, at, nameVars, deviceVars, forsaken, procVars>>

(* cvsfs_devfs_control_poll looks at the list first and joins the wait     *)
(* queue then.  A select that was woken looks again, still in the queue.   *)
ControlPoll ==
  /\ control \in {"scan", "rescan"}
  /\ control' = IF \E m \in InList : NeedsDaemon(m) THEN "read"
                ELSE IF control = "scan" THEN "queue" ELSE "asleep"
  /\ UNCHANGED <<listVars, at, nameVars, deviceVars, arg, restarts, forsaken,
                 procVars>>

PollWait ==
  /\ control = "queue" /\ control' = "asleep"
  /\ UNCHANGED <<listVars, at, nameVars, deviceVars, arg, restarts, forsaken,
                 procVars>>

(* cvsfs_devfs_control_read: the text of the id, empty if read_super has   *)
(* not written it yet.                                                     *)
ControlRead ==
  /\ control = "read"
  /\ \/ \E m \in Mounts :
          /\ IsFirst(m) /\ notified' = [notified EXCEPT ![m] = TRUE]
          /\ arg' = text[m] /\ forsaken' = forsaken \ {m}
          /\ control' = IF text[m] = 0 THEN "scan" ELSE "start"
     \/ /\ \A m \in InList : ~NeedsDaemon(m)
        /\ control' = "scan" /\ UNCHANGED <<notified, arg, forsaken>>
  /\ UNCHANGED <<listVars, at, nameVars, ready, inUse, unmounting, quit,
                 restarts, procVars>>

StartDaemon(p) ==
  /\ control = "start" /\ proc[p] = "none"
  /\ proc' = [proc EXCEPT ![p] = "started"] /\ minor' = [minor EXCEPT ![p] = arg]
  /\ control' = "scan" /\ arg' = 0
  /\ UNCHANGED <<listVars, at, nameVars, deviceVars, restarts, forsaken, file>>

(* The control daemon is killed: cvsfs_devfs_control_release. *)
ControlRelease ==
  /\ control # "off" /\ restarts < MaxRestarts /\ control' = "off" /\ arg' = 0
  /\ notified' = [m \in Mounts |-> IF m \in InList THEN FALSE ELSE notified[m]]
  /\ UNCHANGED <<listVars, at, nameVars, ready, inUse, unmounting, quit,
                 restarts, forsaken, procVars>>
----------------------------------------------------------------------------
(* A cvsfsd opens its device: the superblock is looked up under root_lock  *)
(* and used without it.                                                    *)
Ends(p) ==
  /\ proc' = [proc EXCEPT ![p] = "none"]
  /\ minor' = [minor EXCEPT ![p] = 0] /\ file' = [file EXCEPT ![p] = Nil]

(* The shell cannot start it, or it ends before it opens the device, and   *)
(* nobody is told: daemon_notified stays.                                  *)
EndsUnopened(p) ==
  /\ proc[p] = "started" /\ Ends(p)
  /\ forsaken' = forsaken \cup {m \in Mounts : m \in InList /\ id[m] = minor[p]}
  /\ UNCHANGED <<listVars, at, nameVars, deviceVars, control, arg, restarts>>

DevfsFind(p) ==
  /\ proc[p] = "started"
  /\ \/ \E m \in Mounts :
          /\ m \in InList /\ id[m] = minor[p] /\ minor[p] <= MaxMinor
          /\ proc' = [proc EXCEPT ![p] = "found"] /\ file' = [file EXCEPT ![p] = m]
          /\ UNCHANGED minor
     \/ minor[p] > MaxMinor /\ Ends(p)
     \/ (\A m \in InList : id[m] # minor[p]) /\ Ends(p)
  /\ UNCHANGED <<listVars, at, nameVars, deviceVars, ctlVars>>

(* Mutant: the device is opened although it is in use. *)
OpenAnyway(p) ==
  LET m == file[p] IN
  /\ proc[p] = "found" /\ at[m] # "gone"
  /\ inUse' = [inUse EXCEPT ![m] = 1]
  /\ proc' = [proc EXCEPT ![p] = IF ready[m] THEN "open" ELSE "stuck"]
  /\ UNCHANGED <<listVars, at, nameVars, ready, notified, unmounting, quit,
                 ctlVars, minor, file>>

(* Queuing the parameters stops at the semaphore of a device that is not   *)
(* initialised.  An information that was freed in the meantime may look    *)
(* like any of these.                                                      *)
DevfsOpen(p) ==
  LET m == file[p] IN
  /\ proc[p] = "found"
  /\ \/ (at[m] = "gone" \/ inUse[m] # 0) /\ Ends(p) /\ UNCHANGED inUse
     \/ /\ at[m] # "gone" /\ inUse[m] = 0
        /\ inUse' = [inUse EXCEPT ![m] = 1]
        /\ proc' = [proc EXCEPT ![p] = IF ready[m] THEN "open" ELSE "stuck"]
        /\ UNCHANGED <<minor, file>>
     \/ /\ at[m] = "gone" /\ UNCHANGED <<inUse, minor, file>>
        /\ \E s \in {"open", "stuck"} : proc' = [proc EXCEPT ![p] = s]
  /\ UNCHANGED <<listVars, at, nameVars, ready, notified, unmounting, quit, ctlVars>>

(* The daemon reads quit, or is killed at any time. *)
TakeQuit(p) ==
  /\ proc[p] = "open" /\ quit[file[p]]
  /\ quit' = [quit EXCEPT ![file[p]] = FALSE]
  /\ proc' = [proc EXCEPT ![p] = "exit"]
  /\ UNCHANGED <<listVars, at, nameVars, ready, inUse, notified, unmounting,
                 ctlVars, minor, file>>

Kill(p) ==
  /\ proc[p] = "open" /\ proc' = [proc EXCEPT ![p] = "exit"]
  /\ UNCHANGED <<listVars, at, nameVars, deviceVars, ctlVars, minor, file>>

(* cvsfs_devfs_release, with the queues left to CvsfsDevice. *)
DevfsRelease(p) ==
  /\ proc[p] = "exit" /\ Ends(p)
  /\ inUse' = [inUse EXCEPT ![file[p]] = 0]
  /\ notified' = [notified EXCEPT ![file[p]] = @ /\ unmounting[file[p]]]
  /\ WakeControl
  /\ UNCHANGED <<listVars, at, nameVars, ready, unmounting, quit, arg, restarts,
                 forsaken>>
----------------------------------------------------------------------------
Mounting(m) == AddSuperblock(m) \/ SetIdString(m) \/ ProcfsUserInit(m) \/ DevfsUserInit(m)

Unmounting(m) == CleanupEnds(m) \/ RemoveSuperblock(m)

ControlStep == ControlPoll \/ PollWait \/ ControlRead \/ \E p \in Procs : StartDaemon(p)

ProcStep(p) == DevfsFind(p) \/ DevfsOpen(p) \/ TakeQuit(p) \/ DevfsRelease(p)

Next ==
  \/ \E m \in Mounts : \/ \E p \in Points : ReadSuper(m, p)
                       \/ Mounting(m) \/ DevfsUserCleanup(m) \/ Unmounting(m)
  \/ ControlStart \/ ControlStep \/ ControlRelease
  \/ \E p \in Procs : ProcStep(p) \/ Kill(p) \/ EndsUnopened(p)

Spec == Init /\ [][Next]_vars

(* Every task that can run does.  Nobody need mount, unmount, kill or start *)
(* the control daemon.                                                      *)
Fairness ==
  /\ \A m \in Mounts : WF_vars(Mounting(m)) /\ WF_vars(Unmounting(m))
  /\ WF_vars(ControlStep) /\ \A p \in Procs : WF_vars(ProcStep(p))

FairSpec == Spec /\ Fairness
----------------------------------------------------------------------------
(* A walk from the root meets exactly the superblocks that were added and  *)
(* not yet removed, however mounts and unmounts overlap.                   *)
ListComplete == InList = {m \in Mounts : at[m] \in Listed \cup {"stuck"}}

(* No two mounts have the same id, and with it the same device and proc    *)
(* directory, although ids are given out again after an unmount.           *)
UniqueIds ==
  \A m, k \in InList : m # k /\ id[m] = id[k] => id[m] = 0

(* One cvsfsd at most serves a mount, though the control daemon may start  *)
(* several and ids are given out again.                                    *)
OneDaemon ==
  \A p, q \in Procs :
    p # q /\ proc[p] \in {"open", "exit"} /\ proc[q] \in {"open", "exit"}
      => file[p] # file[q] \/ at[file[p]] = "gone"

(* A mount without a daemon is not forgotten: the control daemon finds it  *)
(* in the list, or a cvsfsd with its id is on the way to open it, or one   *)
(* that was started for its id ended before the open (main.cpp 112 does    *)
(* not look at what system returns).                                       *)
Coming(m) == \/ control = "start" /\ arg = id[m]
             \/ \E p \in Procs : proc[p] \in {"started", "found"} /\ minor[p] = id[m]

NotForgotten ==
  \A m \in Mounts :
    at[m] = "mounted" /\ ready[m] /\ inUse[m] = 0 =>
      ~notified[m] \/ Coming(m) \/ m \in forsaken

(* A mount whose daemon ended gets another one ("daemon must be restarted",*)
(* devfs.c 926), as long as it stays mounted, the control daemon runs and  *)
(* the cvsfsd it starts comes to open the device.                          *)
DaemonRestarted ==
  \A m \in Mounts :
    at[m] = "mounted" /\ (\E p \in Procs : proc[p] = "exit" /\ file[p] = m)
      ~> \/ \E p \in Procs : proc[p] = "open" /\ file[p] = m
         \/ at[m] # "mounted" \/ control = "off" \/ m \in forsaken
=============================================================================
