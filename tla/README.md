# Specifications of cvsfs

cvsfs mounts a CVS repository as a Linux file system.  A kernel module
(`cvsfs/`) turns VFS calls into text requests, a user daemon per mount
(`cvsfsd/`) answers them from its caches and from a CVS pserver, and a few
tools mount, unmount and control.  This directory holds TLA+ modules of the
parts whose correctness is hard to test, the TLC configurations that check
them on small instances, and proofs for TLAPS.

## 1. The system

| part | code | state it keeps | operations |
|---|---|---|---|
| Request channel | `cvsfs/devfs.c`, `cvsfs_serialize_request` in `cvsfs/proc.c` | two one-block queues `out` and `in` with their wait queues, `device.lock`, `proc.lock`, `in_use`, `daemon_notified`, `unmount_in_process` | open, release, read and write of `/dev/cvsfs/<id>`; add_request, retrieve_data; user_init, user_cleanup |
| Superblock list, control device | `cvsfs/superblock.c`, control_* in `cvsfs/devfs.c`, `cvsfsd/main.cpp` | the list of mounts under `root_lock`, ids, the notification flags | read_super, put_super, control_read, control_poll, control_release; start of a daemon |
| VFS operations | `cvsfs/dir.c`, `file.c`, `inode.c` | dentries with their time stamp, inodes | lookup, readdir, create, unlink, mkdir, rmdir, rename, setattr, read, write, ioctl |
| Request builders | `cvsfs/proc.c`, `cvsfsd/TModuleAction*.cpp` | none | one request and one response format per operation |
| Daemon server loop | `cvsfsd/TModuleServer.cpp` | stdio buffers on the device | init, run, read, write |
| Daemon caches | `cvsfsd/TCvsInterfacePserver.cpp`, `TCacheSystem*.cpp`, `TDirectory.cpp`, `TVersionedFile.cpp` | two trees in memory (CVS tree, merged tree), three layers on disk (remote, checked out, local) | GetEntry, GetFile, PutFile, MakeFile, MakeDirectory, RemoveFile, RemoveDirectory, TruncateFile, Move, SetAttr, Checkout, Checkin |
| Pserver session | `cvsfsd/TCvsSessionPserver.cpp`, `TCvsPserverCommand*.cpp`, `TSocket.cpp`, `TConnectedSocket.cpp` | a TCP connection, the login | connect, login, command, the lines of a response |
| proc entries | `cvsfs/procfs.c` | the view of a mount | read_mounts, read_view, write_view |
| Mount table | `cvsmnt/main.c`, `cvsmount/main.c`, `cvsumount/main.c` | `/etc/mtab` and its lock file | mount, umount |
| Tools, log, parameters | `tools/`, `TSyslog*.cpp`, `TMountParameters.cpp` | none | one ioctl per command |

How they interact.  A VFS call builds a request and calls
`cvsfs_serialize_request`, which takes `proc.lock`, adds the request to `out`
(waiting while `out` holds a block), and retrieves the response, one block
after the other, from `in`.  The daemon reads `out` in pieces of its stdio
buffer, executes the request (`TModuleAction*::doit` on
`TCvsInterfacePserver`), and writes the response to `in` in pieces of its
stdio buffer, so that one response may be several blocks.  The two queues
share one semaphore, `device.lock`; a task that has to wait gives it up,
sleeps on the queue's `full` or `empty` wait queue, and takes it again.
`open` and `release` of the device take no lock at all.  A superblock whose
`daemon_notified` and `in_use` are both clear makes `/dev/cvsfs/0` readable;
the control daemon reads the id and starts `cvsfsd <id>`.

What is hard: tasks sleeping on either side of one-block queues; a daemon that
dies at any point and its successor on the same queues; callers interrupted
while they wait; an unmount that meets a running daemon; locked sections
around which unlocked ones run.  PROJECT.json lists these hazards with their
lines.

What makes each part correct, in a sentence: the channel gives each call its
own response and always returns (section 3); the superblock list has one mount
per mount point, one id per mount and a daemon for each (section 4); a file the
daemon serves is stored, and survives a restart (section 5); a dentry that the
kernel trusts agrees with the daemon, and a request means what the kernel
module meant (section 6); a session with the server ends, and what it leaves
behind is whole (section 7).

## 2. Plan

| modules | what they model | state |
|---|---|---|
| `CvsfsDevice`, `CvsfsService`, `MCDevice`, `CvsfsDeviceProofs`, `CvsfsServiceProofs` | the request channel with the daemon's loop, its abstract specification | modelled, checked, safety and refinement proved |
| `SuperblockList`, `MCList`, `SuperblockListProofs` | mounts and unmounts, control daemon, start and end of daemons | modelled, checked, safety proved |
| `CacheTree`, `MCTree`, `CacheTreeProofs` | the merged tree and the three disk layers, with crashes | modelled, checked, proved |
| `Requests`, `RequestsProofs` | the lines of the requests, built and taken apart | modelled, proved |
| `VfsOperations`, `MCVfs`, `VfsOperationsProofs`, `VfsCacheProofs` | dentries, inodes and pages over what the daemon serves; uses `Requests` | modelled, checked, safety proved |
| `PserverSession`, `MCSession`, `PserverSessionProofs` | login, commands, answers and connections of the CVS server | modelled, checked, safety proved |

Each part meets the next at one place only, and is modelled with what it sees
of it.  `VfsOperations` sees of the channel that a call is answered or lost;
`CacheTree` and `VfsOperations` see of the session that a load succeeds or
fails, and `PserverSession` shows what a failed one leaves behind.

Every safety property that a run checks and finds true is proved (section 9);
the liveness properties stay with TLC.

## 3. The request channel

`CvsfsDevice` models `devfs.c` and `cvsfs_serialize_request` for one mount: a
set of `Requesters` (tasks in VFS calls), the `Daemon` process, and the
`Umount` task.  `pc` says where in the code a task is.

* A locked section is the down (`AddDown`, `GetDown`, `ReadDown`,
  `UmountDown`), the tests of the queue and of `in_use` (`AddAdmit`, `GetAdmit`,
  `UserCleanup`), and what ends with the up (`AddStore`, `GetTake`, `SendQuit`,
  or right after the tests `AddDrop`, `AddSleep`, ...).  These are steps of
  their own because open and release take no lock: release is `Release`,
  `ClearIn` and `ClearOut`, each of which can fall between a test of `in_use`
  and the store that depends on it.  A block stored then stays in the closed
  device, in front of the parameter string of the next open; a block that was
  to be taken is gone (`GetTakeNothing`).
* `full[q]` and `empty[q]` are the wait queues: the tasks asleep and not yet
  woken.  `wake_up` empties the set.  A sleeper continues when it is no longer
  in the set or has a signal.
* `down_interruptible` takes a free semaphore even with a signal pending, and
  gives up only where it would wait (`AddGiveUp`, `GetGiveUp`, `ReadGiveUp`,
  `ProcGiveUp`).
* A block is a record: its kind, the call it belongs to, and its position in a
  response.  The text is left out.  `ReqUnits` is the number of reads the
  daemon needs for a request (its stdio buffer is 4096 bytes), `RespUnits` the
  largest number of writes for a response; `Execute` chooses the number, 0
  standing for the empty response "0".
* `serialize_request` believes what the first block says about its size.  A
  block that is not the first of its response begins with data; what `strtoul`
  makes of it is arbitrary, so the result is either (`Retrieved`).
* The daemon in user mode is `TModuleServer`: one line of parameters
  (`TakeParameters`), then requests (`ReadCall`, `Execute`, `WriteCall`) until
  quit (`Exit`).  A kill (`Kill`) is a pending signal that ends the process
  when it reaches user mode or a wait; `release` then runs.
* `Spawn` stands for the control daemon that reads the id of a mount without a
  daemon and starts one.

Simplifications.  Copies from and to user space do not fail: the daemon's
buffers are its stdio buffers.  `O_NONBLOCK` and `poll` are not used by the
daemon.  `AllocFails` lets every `kmalloc` fail but that of `user_cleanup`:
for a block (`NoMemory`: `add_request` fails, and `write` returns `-EFAULT`,
upon which the daemon's `fwrite` drops the rest of the response and nobody
tests its result), and for a response of several blocks (`Retrieved`: the call
fails after the first, the rest stays for the next call).  `squeezed` is the
history of such failures.  No signal reaches the unmounting task (it ignores the result of
its down).  A successor daemon starts when the old one has finished its
release, and does come to open its device (section 4 has the one that does
not); that it may start between `release`'s first statement and
`down_queues` is listed as a gap in section 10.  The part of a request that a
daemon read before an end of file is dropped.

### Runs

| run | instance | checks |
|---|---|---|
| `device_faults` | 2 requesters, 3 calls, 2 kills, 1 signal, failing allocations, unmount | `TypeOK`, `LockDiscipline`, `CallerWaits`, `ParametersFirst`, `ReplyMatches`, `NoLostWakeup`, `WholeReply` |
| `device_service` | 2 requesters, 3 calls, 2 kills, failing allocations, responses of one block, unmount | refinement of `CvsfsService` |
| `device_quiet` | 2 requesters, 3 calls, no fault, unmount | liveness: `CallsReturn`, `UmountEnds` |
| `device_killed` | 1 requester, 1 kill | violation of `WaitEndsWhenClosed` |
| `device_interrupted` | 2 requesters, 1 signal | violation of `OwnReply` |

Bounds.  Two requesters are the least for which one waits behind another, and
three calls let a call follow both a lost and a late response; requests of two
reads and responses of up to two writes give every kind of partial transfer;
two kills give a daemon, a successor that dies as well and a third.  The
proofs of section 9 have no bounds.

What the two violations show.

* `WaitEndsWhenClosed`: `release` wakes only `cvsfs_restart_signal`.  A task
  that waits for a response when the daemon dies waits for ever, with
  `proc.lock` held.  A successor does not help: nobody writes to `in` before a
  request comes, and no request can come.
* `OwnReply`: an interrupted caller leaves its response behind, and every
  later caller gets the response of the one before.
The unmount has a step worth knowing that no property forbids: `user_cleanup`
waits until quit is taken, not until the daemon has closed the device, and
`put_super` then frees what the daemon's open file points to.

`CvsfsService` is what remains true when nobody is signalled: calls are served
one at a time, none twice, and none succeeds that was not served.  Daemons may
die at any time.  Allocations may fail as long as a response is one block: when
the buffer for a longer response cannot be had, the call fails after the first
block, the second stays in `in`, and the next caller takes it before its own
request is served.  `device_service` therefore has responses of one block with
failing allocations, and section 9 has the same condition as a hypothesis.

`CallerWaits` is what the race of `release` with a store comes to: the
request may be stored in a closed device after its queues were cleared, and
what keeps it from being carried out for nobody is that the next daemon reads
its parameters first.

### Fairness

`FairSpec` gives each task weak fairness for its steps (the kernel runs a
runnable task) and strong fairness for acquiring a semaphore (a waiter of a
semaphore is woken by `up`, in turn).  No fairness is assumed for new calls,
unmounts, kills or signals.  `device_quiet` assumes `QuietOpen`: nobody
reaches the queues or unmounts while an open queues its string.  It is an
assumption on the environment, not a property of the code: `open` sets `in_use`
before it queues the string, and when another task's request is stored first,
the open waits for a daemon that is itself still in its open.

## 4. The superblock list and the control daemon

`SuperblockList` models `superblock.c`, the control device of `devfs.c` and
`cvsfsd/main.cpp`.  `Mounts` are the superblock informations that may be
allocated, each used for one mount; `at` is how far `read_super` or `put_super`
is with it.  `root`, `next` and `prev` are the list as the code links it, and
`InList` is what a reader meets that walks it.

* What the code does under `root_lock` is one step; between two such sections
  anything may happen.  `ReadSuper` (the mount point is looked up),
  `AddSuperblock` (an id is chosen, the superblock linked), `SetIdString`,
  `ProcfsUserInit` and `DevfsUserInit` are steps of their own, because a
  superblock is visible to the control daemon from the second one on.
* `user_init` fails for an id that is no minor number, and `read_super` mounts
  all the same.  The device's semaphore is then never free: a cvsfsd that opens
  it, and the unmount, wait for ever (`"stuck"`).
* `open` looks the superblock up under the lock (`DevfsFind`) and uses it
  afterwards (`DevfsOpen`).  Its test of `in_use` and the increment are one
  step: the kernel calls `open` under its big lock, and nothing between the
  two waits.  A superblock that was freed in between may look like anything.
* `control_poll` looks at the list (`ControlPoll`) and then joins the wait queue
  (`PollWait`); a `select` that was woken is still in the queue when it looks
  again (`"rescan"`).
* `ControlRead` marks the mount as notified and hands out the text of its id,
  which is empty before `SetIdString`.  `StartDaemon` is the shell that the
  control daemon starts in the background.  Nothing looks at whether the cvsfsd
  comes to open its device: `EndsUnopened` leaves the mount notified and without
  a daemon, until the control daemon is restarted.  `forsaken` is the history of
  these mounts, which `NotForgotten` and `DaemonRestarted` except.
* The device of a mount that `user_init` has not reached is zeroed memory, on
  which the semaphore's wait queue does not work: whoever waits for it never
  goes on, whatever signal it gets.
* Of the data device only open, quit and release are kept; section 3 has the
  rest.  The process of a killed or quitting daemon ends with `DevfsRelease`.

| run | instance | checks |
|---|---|---|
| `list_mounts` | 3 mounts on 2 points, 2 cvsfsd at a time, 2 starts of the control daemon, `MaxMounts = 1`, `MaxMinor = 1` | `TypeOK`, `ListComplete`, `UniqueIds`, `OneDaemon`, `NotForgotten` |
| `list_poll` | 1 mount, 1 cvsfsd, fair | violation of `DaemonRestarted` |

Bounds.  Three superblocks are the least with one in the middle of the list to
remove; two processes let an old daemon of an id meet a new one; with
`MaxMounts = 1` the ids are 1 and 2, so that the third mount finds none, and
with `MaxMinor = 1` the one with id 2 has an unusable device.  A control daemon
that dies and returns gives every order of notification and release.  The run
has no deadlock check because all the mounts may be used up.

`list_poll` shows a lost wake-up: the control daemon looks at the list, finds
nothing, the last daemon of the mount is released and wakes nobody, and the
control daemon joins the queue and sleeps.  `FairSpec` assumes that every task
that can run does, and nothing of mounts, unmounts and kills.

## 5. The files a daemon serves

`CacheTree` models `TCvsInterfacePserver.cpp` with the cache systems, the
directories and the versioned files.  In memory are `tree` (`fRootDir`, the
merged tree: for each path the layer its entry has), and `treeKnown` and
`cvsKnown` (the versions whose attributes the entries of `fRootDir` and
`fCvsDir` have).  On disk are `remote`, `out` and `local`: how much of a version
is in `/remote` and in `/checkout`, and what is in `/local`.  The contents of
files, their attributes and their sizes are left out.

* A daemon does one request at a time, so an operation is one action unless a
  crash in the middle of it makes a difference.  `LoadFile` is `BeginLoad`
  (the file is there, with an unknown part of the version) and `Received` or
  `NotReceived`; `Checkout` is the deletion of the writable file, `CheckoutLoad`,
  `CheckoutCreate` and `CheckoutCopy`.  `job` says what is under way.
* `Crash` clears what is in memory; `LoadTree` of the next daemon builds the
  tree from the repository and the layers (`Fresh`).
* The layers are used as the code uses them: the checked-out layer finds a file
  by the first name that begins with the path and `@@` (`CheckedOut`, any
  version), creates no file without a version, and replaces the version it
  finds; a directory entry that no layer made (`"phantom"`, layer -1) cannot be
  removed or renamed.
* `RemoveDirectory` takes the `true` of the cache for an error number;
  `MakeFile` of a file of the repository whose attributes could not be loaded
  creates a hidden local file; a refused `Move` or `Checkout` leaves parents.
* `LoadFile` returns the entry it looked up before it loaded: `job.known`.
* No stream is asked whether it could write (`TCvsPserverCommandCheckout.cpp`
  137, the loops of `PutFile` and `Checkout`): `Written` lets a part be there
  whenever something is written, the operation succeeds, and `diskFull` records
  it.

Simplifications.  The repository does not change during a run.  The kernel looks
the parents of a path up before it sends a request, so a request below a file
does not come.  A request finds the tree loaded or loads it; that the first of
two calls of one request fails to load it and the second does not is left out.
`put` is one step.  `SetAttr`, `GetLocation`, `Checkin`, `Update` and
`Invalidate` change nothing of this state; they are in section 6.  `faulty`
records that a creation failed or that a file was made while attributes could
not be loaded; the disk may then hold what the tree does not list, and
`RestartKeeps` is stated for the behaviours without it.  It speaks of files that
are listed as writable, and of no other entry: after an rmdir with its inverted
result a directory that is gone stays listed, and the files of one that is still
there are not.

| run | instance | checks |
|---|---|---|
| `tree_versions` | a repository with one directory and one file of 2 versions, 1 local name, 1 crash | `RestartKeeps`, `ListedIsStored`, `WholeUnlessCrashed` |
| `tree_moves` | the same with 1 version and 2 local directories with a child each, no crash | `TypeOK`, `RestartKeeps`, `ListedIsStored` |

Bounds.  Two versions are what it takes for the checked-out layer to find the
wrong one; a local name beside the file lets each replace the other; two
directories with children let one be renamed to, or refused by, the other.  The
two instances together cover the actions; their product is too large to
explore.  The runs have no deadlock check: nothing in the module promises that
requests come.

Three things in the model that the properties name as exceptions.  `Checkout`
deletes the writable file and its entry first: when the load after it fails, or
is the first load of that version through the entry of `fCvsDir`, it returns
`EIO`, the user's file is gone, and the file of the repository is not listed
until the daemon is restarted.  And the cache file of a version is written in
place and its existence taken for its completeness, so that a crash in a load
leaves a part behind, and so does a write that fails, which nothing reports:
`WholeUnlessCrashed` says what holds without either (`diskFull`).  Its
second part, about files checked out, needs `~faulty` as well: a checkout whose
copy fails leaves part of a version beside the version that is checked out, and
a rename of the file takes any of its versions.  In a repository with two files
the part is then listed under the new name.

## 6. The requests and what the kernel remembers

`Requests` has the lines.  A line is a sequence of tokens, because what the
parsers of `TModuleAction*.cpp` look for is a blank, an `@` or `@@`.  One
operator builds each kind of line as `proc.c`, `dir.c` and `file.c` do, and one
takes it apart as the daemon's `doit` does.  The key, offsets, sizes and `ls`
are left out.

`VfsOperations` has the dentries, inodes and pages of one directory, the
daemon's entries, and the operations between them.  An operation is three
steps: `Begin...` builds the line from the dentry it is called with, `Serve`
is what the daemon does with the line, `Finish` is what the operation makes of
the answer.  Other processes take steps in between, except for two operations
on the directory, whose semaphore the kernel holds (`DirFree`).

* `entry` is what the daemon lists under a name: its layer (`kind`), its
  version, its contents and mode (`data`, `mode`), and which versions' attributes
  the entries of the merged tree and of the CVS tree have (`known`,
  `cvsKnown`).  What is really on the disk is `disk` (a file, a directory or
  nothing), `stored` and `access`: the daemon changes these first and copies
  them to the listing afterwards (`SetData`, the code's `FileAttribute` and
  `SetData`), and the two differ when that fails.
* `dentry`, `hash` and `held` are the dentries in memory, those hashed, and the
  one that each process has open or has looked up.  `Kernel` drops what is
  neither hashed nor used.  `valid` is `d_time = 1`.
* `GetFullEntry` answers with the version that was asked for only when it has
  just loaded it (`Described`); the first load through an entry gives no data
  (`Get`); `create` does not hash its dentry; `put` replaces the contents by
  its block; `rmdir` takes success for failure, so that a directory that was
  removed stays listed and one that could not be removed is listed no more.
* Errors after the change.  `Changes` is a step of the daemon that has changed
  the disk (a write, a truncation, a mode) and answers with an error because it
  cannot describe the result.  A move that fails so has renamed the file and
  still lists the old entry (`HalfMoved`); a directory may be listed that is in
  no layer (`mkdir` that cannot describe it: the kind `phantom`); a `mkfile` in
  an outage makes a local file that is not listed, because the repository's
  entry has its name; a write or a checkout on a full disk leaves nothing and
  answers with success.  The error of a failed clone (`ENOMEM`, line 621 of
  `TCvsInterfacePserver.cpp`) does not occur: `new` throws.
* `NotDone` is a request that changes nothing: a restarted daemon cannot reach
  the server (some operations answer with success all the same), the server does
  not give attributes or a version, or the first thing to do on the disk fails.
* `readpage` asks until the page is full or an answer has no data (`NextGet`,
  `Readpage`).  A call that is interrupted while it waits in a queue returns 0
  bytes, which counts as the end: the page is marked up to date and is empty, or
  ends where the last answer ended.  So does an outage or an error of the daemon.
* `blind` collects the files that change without their hashed dentry being told:
  through another dentry, while no dentry of theirs is hashed, by a removal or a
  write whose answer was lost, by a `checkout`, `checkin` or `update` (which set
  `d_time` to 1 where the code's comment wants the opposite), by a write that
  fails after its first block.  `CleanMeansCurrent` and `PagesCurrent` leave them
  out by name; what they say is that these are all the exceptions there are.
  `PagesCurrent` allows a page to be empty, for the reason above.

`OnlyAskedIsLost` says that what is written is not lost by accident: the
contents of a file of the layers change only by a request for this file that is
to change them (a write, a truncation, a checkout, a removal that is not
refused), or by a move that takes them along or replaces them by those of
another file, whatever these requests are answered and wherever they fail.
One move loses what it moves, and the property leaves it out by name: a file
moved to a name that is listed as checked out but is gone from the disk
(`Unnamed`).  The layer finds a file by its version, has none to go by, and the
moved file gets a name that belongs to nothing.

Simplifications.  Contents are the block written last; a page is the set of the
blocks that its gets have brought.  A process has one
dentry at a time.  Files are created with, and renamed to, names without a
version.  Only one mode differs from the one of a new file.  A file that an
operation is changing is not looked at (`Quiet`).

| run | instance | checks |
|---|---|---|
| `vfs` | 2 processes, 2 files and a name with a version, 4 operations, 2 answers lost or steps failed, 2 blocks, 3 beginnings | `TypeOK`, `CleanMeansCurrent`, `PagesCurrent`, `UnderstoodAsMeant`, `OnlyAskedIsLost` |
| `vfs_version` | the same, 6 operations, no writes, no failures | violation of `ReadsNamedVersion` |

Bounds.  Two processes are the least for one to change what the other has open.
Four operations let a file be looked up, changed, looked up again by the other
and used; four dentries are one for each name and one that is open and not
hashed.  Two failures let a second step go wrong on what the first left half
done.  The run has 1.7 million states.  The three beginnings (a file of the repository alone, checked out
beside a local one, beside a directory) save the operations it takes to get
there.  No fairness is assumed, and there is no deadlock check: the run ends
with its operations.

`vfs_version` shows that `cat filename@@1.1` reads the head version once the
attributes of 1.1 are known: the second look-up gets the attributes of the
head, `readpage` sends the version of the inode after the name, and the daemon
prefers it.

## 7. The session with the CVS server

`PserverSession` models `TCvsSessionPserver.cpp`, the commands of
`TCvsPserverCommand*.cpp`, the sockets and the functions of
`TCvsInterfacePserver.cpp` that run a command and keep what it brought.  The
server is not part of the repository and is modelled by what the daemon relies
on: it answers the last line of a login and of a command, may refuse either,
and may fall silent or close the connection at any time, with any part of its
answer lost (`ServerStops`).  The repository changes meanwhile (`Commit`).

* `Begin` connects and starts one of four commands: `Test`, `LoadCvsTree`
  (rdiff), `LoadAttribute` and `LoadFile` (both co).  `step` is where in login,
  preparation, command and answer the daemon is; `todo` the lines it has yet to
  send, one per `Send`.
* `Timeout` is the `select` in `Recv`, ten seconds without data; a connection
  that was reset ends a command in the same way.  A closed connection reads as
  an empty line or as no data at all, of which the loops over an answer make
  nothing: no action is enabled, the loop goes on.
* `ReadLine` returns the part of a line that arrived before the connection was
  closed.  It matters for the size only (`link = "cut"`, `ShortSize`): the part
  is a number too, and a command that wants the attributes ends with it.  After
  a part of any other line the loop over the answer goes on for ever.
* Nobody asks the stream whether it could write a block (`Written`): on a full
  disk a version is stored in part and the command succeeds.  `diskFull` keeps
  that this has happened.
* `SendKills` is the `SIGPIPE` of a connection that was reset: the daemon dies.
* What is kept is `cvs` and `root` (the two trees), `known` (the attributes of
  a version) and `store` (its blocks in `/remote`); a failed load deletes its
  file.
* `spare` is the socket that `Connect` makes for the next connection.  The end
  of a session shuts its socket down and does not close the descriptor, so
  `fds` grows by one for each session.

| run | instance | checks |
|---|---|---|
| `session` | 2 directories, 2 files, 2 versions of 2 blocks, 4 sessions, 4 descriptors, 1 commit, 2 breaks | `TypeOK`, `TreeIsListing`, `AttributesWhole`, `StoredWhole`, `LoginFirst`, `OutageCostsNothing`, `CommandReturns` |

Bounds.  Four sessions are a listing that fails, one that succeeds, and two
loads; two breaks let one fail in each of two ways; with four descriptors the
last session cannot make the socket of a next one.  Two blocks make a part of a version, a directory with
a file beside a file makes a part of a listing.

Fairness.  `Spec` has weak fairness of the daemon's steps only, one process
that the kernel schedules; of the server nothing is assumed, because `Timeout`
covers its silence.  `CommandReturns` holds for all but the closed connection,
which it names.

What the properties leave out, by name: `AttributesWhole` lets the size be
short once a connection has broken; `StoredWhole` holds as long as no daemon
died and every block could be written.

## 8. Mutants

Each property of a passing run has a mutant in PROJECT.json: an operator
`of` is replaced by a variant with a plausible bug (a missing wake_up, a
dropped test of `in_use`, an up that is forgotten), and TLC finds the property
violated.  The variants stand before their originals in the modules, under
`Mutant` comments.

## 9. Proofs

`CvsfsDeviceProofs` proves, for every set of requesters and every value of the
bounds,

* `TypeCorrect`: `Spec => []TypeOK`,
* `Locks`: `Spec => []LockDiscipline`,

from `DeviceAssumption` alone.  The inductive invariant `IInv` adds to
`TypeOK` and `LockDiscipline`: each task is in the code of its role (`Roles`),
`in_use` is 1 exactly between the daemon's open and its release
(`InUseCounts`), no response outlives its daemon (`Cleared`), a task in the
kernel works for a call (`CallsNumbered`), and memory runs out only where it
may (`Squeezes`).  The proof has a lemma per actor; `LeavesPreserves` covers
all the ways out of `add_to_buffer` and `get_from_buffer` at once.

`CvsfsServiceProofs` goes on from `IInv`, for every set of requesters and every
value of the bounds:

| theorem | statement | hypothesis |
|---|---|---|
| `WakeupsReach` | `Spec => []NoLostWakeup` | |
| `ParametersComeFirst` | `Spec => []ParametersFirst` | |
| `ExchangeInductive` | `Spec => [](IInv /\ Flow /\ WInv /\ XInv)` | |
| `RepliesMatch` | `Spec => []ReplyMatches` | |
| `CallersWait` | `Spec => []CallerWaits` | |
| `RepliesOwn` | `Spec => [](signals = 0 /\ (squeezed => RespUnits <= 1) => OwnReply)` | |
| `RepliesWhole` | `Spec => []WholeReply` | |
| `ServiceImplemented` | `Spec => ServiceSpec` | `MaxSignals = 0`, `AllocFails => RespUnits <= 1` |

What the statements except is needed: with a signal `OwnReply` is violated
(`device_interrupted`), and a failed allocation shortens or delays what a caller
gets (section 3), so that `ParametersFirst`, `ReplyMatches`, `CallerWaits` and
`WholeReply` speak of the behaviours up to the first one (`~squeezed`).

* `Flow` says which part of its program the daemon is in and where in the
  driver that lets it be (`Stages`), that only an unmount, beside which nobody
  uses the mount, sends a quit (`UmountAlone`), that a block is stored in an
  empty queue (`Admitted`), and that a task which finds the block gone that it
  was about to take lost it to a release (`Emptied`).
* `NoLostWakeup` needs that a daemon nobody killed closes the device only after
  it has taken the quit (`ClosesAfterQuit`), because `release` clears the
  queues without waking those who sleep for them to empty; and that only the
  daemon waits for `in` to empty (`WaitsForIn`).  Together they are `WInv`.
* `ParametersFirst` follows from `ParametersWait`: until the daemon has read
  something, `out` holds its string or a quit.
* `XInv` follows one exchange, as long as it is `Calm`: nobody was signalled, and
  no allocation failed unless responses are single blocks.  A request that waits
  (`RequestQueued`) or was read (`RequestRead`) is the one that the holder of
  `proc.lock` awaits, and nothing of a response exists; a block in `in`
  (`ResponseQueued`) or one about to be written (`ResponseWritten`) is the next
  for that task to take, and what it took (`Received`) is a beginning of the
  response.  It speaks of an open device whose daemon has read its first message
  (`Settled`): a request that was stored in a closed device stays in the queue,
  and the next open waits behind it until its process is killed.
* The refinement maps a call to the phase its requester is in.  Most steps are
  stutters (`MostUnnoticed`); that a served call is the only active one is
  `ExecuteAwaited`; that two tasks never have the same call, and a call without
  an outcome has a task, is `CInv`.

`SuperblockListProofs` proves, for every set of mounts, points and processes and
every `MaxMounts`, from `ListAssumption`,

* `ListTypeCorrect`: `Spec => []TypeOK`,
* `OneDaemonEach`: `Spec => []OneDaemon`.

`OneDaemon` needs three facts more, the parts of `Inv`: a process past its
lookup has a superblock (`HasFile`); a process that has a device open has
counted itself in `in_use`, unless the superblock is gone (`CountedInUse`); and
a device is not ready before `user_init` (`NotReadyYet`), so that the reset of
`in_use` there meets no open file.  That the id of `add_superblock` is a number
needs the existence of a smallest one (`Smallest`), from the well-foundedness
of the natural numbers.

From there it goes on to the list as it is walked, for every number of mounts
and unmounts at once and again from `ListAssumption` alone:

* `ListIsComplete`: `Spec => []ListComplete`,
* `IdsDiffer`: `Spec => []UniqueIds`,
* `NobodyForgotten`: `Spec => []NotForgotten`.

`Linked` (`ListLinked`) is the inductive invariant.  `Chained` says that there
is an enumeration of the superblocks in the list which `next` and `prev` follow;
adding puts one before its first, removing takes one out, wherever it is, and
each has its lemma that shows the new enumeration.  `InList` walks `next` as a
recursive function.  That such a walk yields the enumeration would be an
induction; instead `WalkIs` shows one function that satisfies the equation and
`FirstDifference` that there is no other, because two would differ at a smallest
place first.  `Distinct` is `UniqueIds` for the enumeration: the search for a
free id looks at every superblock in the list, so it needs the walk to be
complete.  `NotForgotten` is not inductive: a process with the mount's id that
has looked up its device may have found an older superblock.  `Remembered`
excludes that: a process counts only if it has yet to look or has found this
very superblock.  It needs `Devices` (a mount that is ready has an id that is a
minor number, its text, and no unmount under way) and that the look-up finds the
mount and no other, which is `Distinct` again.  The mounts for which a cvsfsd
ended before its open are in `forsaken` until they are reported again.

`PserverSessionProofs` proves, for every module, number of versions and blocks,
and every bound, from `SessionAssumption`,

* `LoginBeforeCommands`: `Spec => []LoginFirst`,
* `AttributesAllOrNone`: `Spec => []AttributesWhole`,
* `StoredWholeOrArriving`: `Spec => []StoredWhole`,
* `OutageIsFree`: `Spec => []OutageCostsNothing`,

the first three from the inductive invariant `Inv` (`SessionInductive`).
`AttributesWhole` and `StoredWhole` depend on what is still on its way: that
attributes are complete when the size or the end comes needs `AnswerOrder`,
which says that what was taken and what is in `down` are together a beginning
of the one answer the server gives; that there is one answer needs `AskedOnce`
(a final line is in `up` once, and only before the answer) and `SendOrder` (it
is the last line of a step); that an accepted login stands before a command
needs `Greeted`.  `StoreFollows` ties the blocks stored to the blocks taken.
The proof has one lemma per action.  `AttributesWhole` rests on `CutShort`
too: of a connection closed within the size, what is left to take is the lines
before it.

From the same assumption follow

* `TreeIsWhatWasListed`: `Spec => []TreeIsListing`,
* `SessionTypeCorrect`: `Spec => []TypeOK`.

The tree is right at the end of a listing because of `TreeArrives`: the daemon
has taken some number of lines of one report of the server (`listing`), its
directory and the files it knows are those of a listing broken off there
(`KnownAfter`), and what is on its way is the rest (`Follows`).  `TreeKept` says
that between two listings nothing touches the tree.  So a property of the
reports is needed, `Reports`: every file of a directory comes after the line
that opens its directory and before the next such line, and nothing else comes.
`DifferencesReport` proves it of the lines the server makes.  They are made by
`FlattenSeq` and `SetToSeq`, one a recursive function and one a choice.
`FlattenExists` shows that there is a function which satisfies the equation of
the first (a smallest length without one is contradicted by the length before),
`FlattenIs` what it returns; `SetToSeqLists` shows that an injection of
`1 .. Cardinality(S)` into a finite `S` reaches all of it.  For this
`SessionAssumption` says that the files are finitely many sequences, that the
list of directories is a sequence and does not contain `NoDir`, the value that
stands for the variable of the daemon before the first line, and that there is
at least one version.

`RequestsProofs` proves `LinesUnderstood`: for every set of tokens, every name
that is not empty and every version, both without a blank, `@` and `@@`, each
kind of line is taken apart into the name, the version and the rest it was
built from.  The data of a put may be any token, the new name of a rename any
name without a blank.  It rests on `CutPlace` and `TrimPlace`, what cutting at
the first token and trimming the blanks return.

`VfsOperationsProofs` proves `AllUnderstood`: `Spec => []UnderstoodAsMeant`, for
every set of processes, names, versions, contents and commands, from
`VfsAssumption` and `Tokens`: names, versions and what is written are made of
tokens, and versions, modes and commands are words without a blank, the
versions without an `@` too.  The names themselves are free; the property
speaks of those without a blank and an `@`.  `LinesUnderstood` says that a line
is understood as it was built, so what is left is that each line was built for
the name the operation was called with and the version its inode has now,
however long ago that was.  This
is `Lines` in the inductive invariant `Inv`, which needs `Calls` and `Dentries`
(what a call and a dentry are), and that a dentry some call works with is
neither freed nor made anew (`DoneKeeps`, `NewDentryKeeps`) and keeps its
version (`Like`): only its contents, its validity and, in a rename, its name
change.  `NextBlockInv` shows that the name of a write's second block, cut from
the line of the first, already has its version.  Every version the daemon says
is one of `Versions` (`Entries`, `ServeInv`).

`VfsCacheProofs` goes on from there, with the same hypothesis `Tokens`:

* `CleanIsCurrent`: `Spec => []CleanMeansCurrent`,
* `PagesAreCurrent`: `Spec => []PagesCurrent`,
* `WrittenIsKept`: `Spec => OnlyAskedIsLost`,
* `VfsTypeCorrect`: `Spec => []TypeOK`.

The first two are for files whose names have no blank and no `@`; the other
`Names`, those with a version, are free.  The hypothesis is needed: a request
for a file whose name has a blank is understood as one for another file, or for
another version, and changes what no dentry of that file is told.  The third has
no such hypothesis.  It needs of the invariant only what entries and calls are:
`OnlyServeChanges` says that no step but the daemon's touches an entry, and
`ServeAsked` goes through the requests, with what a move leaves at both names
(`RenamedFile`) and that neither loading attributes nor copying them to the
listing touches a file (`LoadedFile`, `SetDataFile`).

`CleanMeansCurrent` speaks of a dentry that no call is changing.  For the
induction `Current` has to say when that becomes true again: a dentry is
`Fresh` unless a call that the daemon has done something for still has to tell
it (`Settled`), and a call that has been answered without having changed
anything (`Harmless`) has nothing to tell.  `DentriesCurrent` is the property
for these; `FoundCurrent` and `ReadsCurrent` say that an answer of `attr`, or
what the gets of a read have brought so far (`Got`), is still right as long as
it has not been used, because whatever changes the
file in between either holds the semaphore of the directory
(`OneInDirectory`) or makes the file blind; `ByName` says that the dentry is
hashed by the name by which a call on it names the file.  `Serve` has a lemma
for each kind of request, from what `Split` makes of the line (`RequestsProofs`).

`TypeOK` says of an entry which kinds go with which versions and contents, and
that needs to know what the daemon writes.  `Typed` adds to the invariants above
`Properly`, that every entry fits its kind, which `MovedProper` and
`CheckedOutProper` keep because a rename does not put a directory in the place
of a file checked out and a checkout uses a known version only; and `Blocks`,
that the line of a put is a name without a blank, a blank and a block of `Data`,
so that the daemon cuts off the block and nothing else (`BlockArrives`).  The
hypothesis is that no name of `Names` has a blank in it: of `put a b ...` the
daemon would write the rest of the name too.

`CacheTreeProofs` proves, for every set of paths of any depth, every repository
over them, every number of versions, crashes and failures, from
`TreeAssumption` alone,

* `TreeTypeCorrect`: `Spec => []TypeOK`,
* `ListedFilesStored`: `Spec => []ListedIsStored`,
* `RestartKeepsFiles`: `Spec => []RestartKeeps`,
* `PartsNeverServed`: `Spec => []WholeUnlessCrashed`.

`Inv` adds to the types the kinds of entry a path can have (`Entries`), what is
on the disk where the tree has an entry (`Places`, which contains
`ListedIsStored`) and which file a request under way is about (`JobFile`).
`RestartKeeps` depends on the order in which a new daemon looks at the layers
and on the checked-out layer's search by prefix, and so on `Unmixed`: unless a
creation failed, a version that is checked out is the only one of its file,
there is no local copy beside it, and it is listed or just being copied.
`WholeUnlessCrashed` is `PartsInWork`: without a crash or a failed write, a part
of a version is the one being written.  It needs `Unmixed` for the layer of files checked out,
because a rename takes any version it finds.  Each request has its lemma;
renames and removals of whole subtrees use that paths are ordered by
`IsStrictPrefix` like a forest (`PathOrder`), that renaming a prefix is
injective and keeps that order (`RenamedNames`, `Renaming`), and that no path
lies below a file.  `TreeAssumption` says for this that paths are sequences.

Only model-checked are the liveness properties `CallsReturn`, `UmountEnds` and
`CommandReturns`, for which the prover has no rule for fairness, and what runs
show violated.

## 10. Gaps

* A successor daemon that opens the device between the first statement of
  `release` and `down_queues`, which would lose its parameter string.
* Two mounts of one mount point at once: the model has the window between the
  look-up and the insertion, no run states a property about it.
* A tree that is loaded for the first of two calls of a request and not for
  the second, and the reverse.
* Contents of more than one block in `VfsOperations` and several directories
  there; versions of files in directories that move.

### Not modelled

* `readdir` and `ls`: a listing by position; nothing but its reader depends on
  it, and the position is the VFS's.
* The text of `/proc` (`procfs.c`): formatting for a reader.  The view rules
  it would set are stubs in `proc.c`.
* `cvsmnt`, `cvsmount`, `cvsumount`: command line tools around one system call.
  The lock file of mtab is one `open` with `O_EXCL`, and no other part of the
  repository depends on mtab.
* `cvsctl`: one ioctl per call, without state.
* Logging, parameters, paths and name parsing: formatting and parsing without
  state that another part depends on.
* Numbers in requests and answers (offsets, sizes, times) and the sizes of the
  buffers they are printed into.
