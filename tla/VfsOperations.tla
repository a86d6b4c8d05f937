--------------------------- MODULE VfsOperations ---------------------------
(***************************************************************************)
(* What the kernel remembers of the files of a mount: the dentries, inodes *)
(* and pages that the operations of src/cvsfs/dir.c, file.c and inode.c    *)
(* make, over the files as the daemon serves them                          *)
(* (src/cvsfsd/TModuleAction*.cpp, TCvsInterfacePserver.cpp).              *)
(*                                                                         *)
(* An operation builds a line from the dentry it is called with, the       *)
(* daemon acts on the line, and the operation works on with the answer:    *)
(* three steps, between which other processes take theirs.  All names are  *)
(* in one directory.  A dentry has an inode of its own: cvsfs_iget always  *)
(* makes a new one.                                                        *)
(***************************************************************************)
EXTENDS Requests, FiniteSets

CONSTANTS
  Procs,        \* processes; each holds one dentry at most
  Files,        \* names without a version, each a sequence of tokens
  Names,        \* the names that are looked up
  CvsFiles,     \* the files of the repository
  Versions,     \* their versions, each a sequence of one token
  HeadVersion,  \* the latest one
  Modes,        \* the modes that files are given
  Data,         \* what is written, one after the other
  Commands,     \* the ioctl calls that are made
  Beginnings,   \* the kinds of entry that the daemon begins with
  MaxDentries,  \* bound on the dentries in memory
  MaxCalls,     \* bound on the operations
  MaxFailures   \* bound on the answers that are lost and the steps that fail

Unversioned == {"rescan", "version", "checkout", "checkin", "update"}

ASSUME VfsAssumption ==
  /\ Files \subseteq Names /\ CvsFiles \subseteq Files /\ HeadVersion \in Versions
  /\ \A n \in Files : n # <<>> /\ ~Has(n, AtAt)
  /\ \A n \in Names : Before(n, AtAt) \in Files
  /\ \A v \in Versions : Len(v) = 1
  /\ Commands \subseteq Unversioned \cup {"checkout_version", "checkin_version"}
  /\ MaxDentries \in Nat /\ MaxCalls \in Nat /\ MaxFailures \in Nat

VARIABLES
  entry,     \* what the daemon lists under a name
  dentry,    \* the dentries in memory, with their inodes and pages
  hash,      \* the dentry hashed under a name, or 0
  held,      \* the dentry a process has open or has looked up, or 0
  call,      \* the request of a process
  written,   \* history: how much of Data has been written
  calls,     \* history: operations begun
  failures,  \* history: answers lost, steps failed
  blind      \* history: files that have changed behind their hashed dentry

kernel == <<dentry, hash, held>>
vars   == <<entry, kernel, call, written, calls, failures, blind>>

Ids      == 1 .. MaxDentries
Contents == {<<>>} \cup Versions \cup {<<Data[i]>> : i \in DOMAIN Data}

Attribute(dir, data, mode, version) ==
  [dir |-> dir, data |-> data, mode |-> mode, version |-> version]
NoAttribute == Attribute(FALSE, <<>>, "rw", <<>>)

(* An entry: a file of the repository with the versions whose attributes   *)
(* are known, a file checked out, a local file, a directory, or a          *)
(* directory of no layer.  What is listed of it is data and mode; disk,    *)
(* stored and access are what is really there, which may be nothing.       *)
Entry(kind, version, data, mode) ==
  [kind |-> kind, version |-> version, data |-> data, mode |-> mode, stored |-> data, access |-> mode,
   disk |-> IF kind \in {"out", "local"} THEN "file" ELSE IF kind = "dir" THEN "dir" ELSE "none",
   known |-> {}, cvsKnown |-> {}]
Remote  == Entry("remote", <<>>, <<>>, "rw")
Missing == Entry("none", <<>>, <<>>, "rw")

Dentry(name, attr) == [name |-> name, attr |-> attr, page |-> {}, valid |-> TRUE]
Unused == [name |-> <<>>, attr |-> NoAttribute, page |-> {}, valid |-> FALSE]

Reply(tag, attr) == [tag |-> tag, attr |-> attr]
None  == Reply("none", NoAttribute)    \* "0": nothing
Lost  == Reply("lost", NoAttribute)    \* the call was interrupted
Ok    == Reply("code 0", NoAttribute)
Errno == Reply("errno", NoAttribute)
Idle  == [key |-> "idle", d |-> 0, target |-> 0, name |-> <<>>, to |-> <<>>, line |-> <<>>,
          stage |-> "idle", reply |-> None, more |-> FALSE, read |-> {}]

DirKeys  == {"attr", "mkfile", "mkdir", "rmfile", "rmdir", "move"}
FileKeys == {"truncfile", "get", "put", "setattr", "ioctl"}

TypeOK ==
  /\ \A n \in Files :
       /\ entry[n].kind \in {"none", "remote", "out", "local", "dir", "phantom"}
       /\ entry[n].disk = "none" \/ entry[n].kind \in {"out", "local", "dir"}
       /\ entry[n].version \in Versions \cup {<<>>}
       /\ entry[n].data \in Contents /\ entry[n].stored \in Contents
       /\ entry[n].known \subseteq Versions /\ entry[n].cvsKnown \subseteq Versions
       /\ entry[n].kind \in {"remote", "out"} => n \in CvsFiles
       /\ entry[n].kind = "out" <=> entry[n].version # <<>>
  /\ hash \in [Names -> Ids \cup {0}] /\ held \in [Procs -> Ids \cup {0}]
  /\ \A n \in Names : hash[n] # 0 => dentry[hash[n]].name = n
  /\ \A p \in Procs : call[p].key \in DirKeys \cup FileKeys \cup {"idle"}
  /\ \A p \in Procs : held[p] # 0 => dentry[held[p]].name \in Names
  /\ \A p \in Procs : call[p].read \subseteq Contents \ {<<>>}
  /\ calls \in 0 .. MaxCalls /\ failures \in 0 .. MaxFailures /\ written \in 0 .. Len(Data)

(* What a daemon can begin with: the repository and what earlier ones have *)
(* left on the disk.                                                       *)
Listings ==
  {e \in [Files -> {Remote} \cup {Entry(k, <<>>, <<>>, "rw") : k \in {"none", "local", "dir"}}
                         \cup {Entry("out", v, v, "rw") : v \in Versions}] :
     \A n \in Files : e[n].kind \in {"remote", "out"} <=> n \in CvsFiles}

Init ==
  /\ entry \in {e \in Listings : [n \in Files |-> e[n].kind] \in Beginnings}
  /\ dentry = [i \in Ids |-> Unused] /\ hash = [n \in Names |-> 0] /\ held = [p \in Procs |-> 0]
  /\ call = [p \in Procs |-> Idle]
  /\ written = 0 /\ calls = 0 /\ failures = 0 /\ blind = {}
----------------------------------------------------------------------------
(* The dentry cache.  A dentry goes when it is neither hashed nor in use.  *)
Used(h, hd, c) ==
  {h[n] : n \in Names} \cup {hd[p] : p \in Procs}
    \cup {c[p].d : p \in Procs} \cup {c[p].target : p \in Procs}

Kernel(dn, h, hd, c) ==
  LET used == Used(h, hd, c) IN
  /\ hash' = h /\ held' = hd /\ call' = c
  /\ dentry' = [i \in Ids |-> IF i \in used THEN dn[i] ELSE Unused]

Free == Ids \ Used(hash, held, call)
IsDir(d) == dentry[d].attr.dir

(* cvsfs_lookup_validate.  A directory in use is not dropped.              *)
Valid(d) ==
  d # 0 /\ (dentry[d].valid \/ (IsDir(d) /\ d \in {held[p] : p \in Procs}))

(* The semaphore of the directory lets one of its operations in.           *)
DirFree == \A p \in Procs : call[p].key \notin DirKeys

Begin(p, key, d, target, name, to, line) ==
  [call EXCEPT ![p] = [Idle EXCEPT !.key = key, !.d = d, !.target = target, !.name = name,
                                   !.to = to, !.line = line, !.stage = "sent"]]

CanCall(p) == call[p] = Idle /\ calls < MaxCalls

(* The path walk finds a dentry that is valid. *)
Walk(p, n) ==
  /\ CanCall(p) /\ held[p] = 0 /\ Valid(hash[n])
  /\ Kernel(dentry, hash, [held EXCEPT ![p] = hash[n]], call)
  /\ calls' = calls + 1 /\ UNCHANGED <<entry, written, failures, blind>>

(* Or it drops the dentry, if there is one, and asks the file system. *)
BeginLookup(p, n) ==
  /\ CanCall(p) /\ held[p] = 0 /\ DirFree /\ ~Valid(hash[n])
  /\ Kernel(dentry, [hash EXCEPT ![n] = 0], held, Begin(p, "attr", 0, 0, n, <<>>, NameLine(n)))
  /\ calls' = calls + 1 /\ UNCHANGED <<entry, written, failures, blind>>

(* release, or the end of a path walk: nothing is asked. *)
Close(p) ==
  /\ call[p] = Idle /\ held[p] # 0
  /\ Kernel(dentry, hash, [held EXCEPT ![p] = 0], call)
  /\ UNCHANGED <<entry, written, calls, failures, blind>>

(* Memory is short: a dentry nobody uses is dropped. *)
Prune(n) ==
  /\ hash[n] # 0 /\ hash[n] \notin {held[p] : p \in Procs}
  /\ hash[n] \notin UNION {{call[p].d, call[p].target} : p \in Procs}
  /\ Kernel(dentry, [hash EXCEPT ![n] = 0], held, call)
  /\ UNCHANGED <<entry, written, calls, failures, blind>>
----------------------------------------------------------------------------
(* The operations on a directory, as far as the request. *)
BeginDirectory(p, key, d, target, n, r, line) ==
  /\ CanCall(p) /\ held[p] = 0 /\ DirFree
  /\ Kernel(dentry, hash, held, Begin(p, key, d, target, n, r, line))
  /\ calls' = calls + 1 /\ UNCHANGED <<entry, written, failures, blind>>

BeginCreate(p, n) ==
  /\ hash[n] = 0 /\ n \in Files
  /\ \/ BeginDirectory(p, "mkfile", 0, 0, n, <<>>, ModeLine(n, "rw"))
     \/ BeginDirectory(p, "mkdir", 0, 0, n, <<>>, ModeLine(n, "rw"))

BeginRemove(p, n) ==
  /\ Valid(hash[n])
  /\ BeginDirectory(p, IF IsDir(hash[n]) THEN "rmdir" ELSE "rmfile", hash[n], 0, n, <<>>,
                    NameLine(n))

(* The VFS compares the types of the two files first. *)
BeginRename(p, n, r) ==
  LET old == hash[n]  name == WithVersion(n, dentry[old].attr.version) IN
  /\ Valid(old) /\ n # r /\ r \in Files /\ (hash[r] = 0 \/ Valid(hash[r]))
  /\ hash[r] # 0 => IsDir(old) = IsDir(hash[r])
  /\ BeginDirectory(p, "move", old, hash[r], n, r, MoveLine(name, r))

(* The operations on a file that is open or has been looked up. *)
BeginFile(p, key, line) ==
  /\ Kernel(dentry, hash, held, Begin(p, key, held[p], 0, dentry[held[p]].name, <<>>, line))
  /\ calls' = calls + 1 /\ written' = (IF key = "put" THEN written + 1 ELSE written)
  /\ UNCHANGED <<entry, failures, blind>>

Version(d)  == dentry[d].attr.version
FullName(d) == WithVersion(dentry[d].name, Version(d))

Holds(p) == CanCall(p) /\ held[p] # 0
HoldsFile(p) == Holds(p) /\ ~IsDir(held[p])

BeginOpenTruncating(p) == HoldsFile(p) /\ BeginFile(p, "truncfile", NameLine(FullName(held[p])))

(* readpage: unless the page is in memory. *)
BeginRead(p) ==
  /\ HoldsFile(p) /\ dentry[held[p]].page = {}
  /\ BeginFile(p, "get", GetLine(dentry[held[p]].name, Version(held[p])))

BeginWrite(p) ==
  /\ HoldsFile(p) /\ written < Len(Data)
  /\ BeginFile(p, "put", PutLine(FullName(held[p]), Version(held[p]), Data[written + 1]))

BeginChmod(p, mode) == Holds(p) /\ BeginFile(p, "setattr", ModeLine(FullName(held[p]), mode))

BeginIoctl(p, command) ==
  HoldsFile(p) /\ BeginFile(p, "ioctl", IoctlLine(command, FullName(held[p])))
BeginIoctlVersion(p, command, v) ==
  /\ HoldsFile(p)
  /\ BeginFile(p, "ioctl",
       IoctlLine(command, AskedVersion(dentry[held[p]].name, Version(held[p]), v)))

(* truncate(2) to nothing: the inode changes, and nobody is told. *)
TruncateInode(p) ==
  LET d == held[p] IN
  /\ CanCall(p) /\ d # 0 /\ ~IsDir(d)
  /\ Kernel([dentry EXCEPT ![d].attr.data = <<>>, ![d].page = {}, ![d].valid = FALSE],
            hash, held, call)
  /\ calls' = calls + 1 /\ UNCHANGED <<entry, written, failures, blind>>
----------------------------------------------------------------------------
(* The daemon.  What it says of an entry, asked for a version. *)
Real(v)   == IF v = <<>> THEN HeadVersion ELSE v
Exists(n) == n \in Files /\ entry[n].kind # "none"
Editable(n) == entry[n].kind \in {"out", "local"}     \* in a layer of files
OnDisk(e)   == e.kind \in {"out", "local"} /\ e.disk = "file"
Writable(n) == OnDisk(entry[n])

Attributes(e) ==
  IF e.kind = "remote" THEN Attribute(FALSE, HeadVersion, "rw", HeadVersion)
  ELSE Attribute(e.kind \in {"dir", "phantom"}, e.data, e.mode, e.version)

(* What a read of it gives. *)
Text(e) == IF e.kind = "remote" THEN HeadVersion ELSE e.stored

(* GetFullEntry loads the attributes of a version that it has not yet. *)
Loads(r) == Exists(r.name) /\ entry[r.name].kind = "remote" /\ Real(r.version) \notin entry[r.name].known
Found(r) == Exists(r.name) /\ (Loads(r) => Real(r.version) \in Versions)
Loaded(r) ==
  IF Found(r) /\ Loads(r) THEN [entry EXCEPT ![r.name].known = @ \cup {Real(r.version)}] ELSE entry

(* Loaded for this request, the version answers; later the file itself     *)
(* does, with its latest version or, that unknown, nothing.                *)
Described(r) ==
  IF Loads(r) THEN Reply("attr", Attribute(FALSE, Real(r.version), "rw", Real(r.version)))
  ELSE IF entry[r.name].kind = "remote" /\ HeadVersion \notin entry[r.name].known THEN None
  ELSE Reply("attr", Attributes(entry[r.name]))

(* The files that a step of the daemon changes, and those among them whose *)
(* hashed dentry is not the one that the operation works with or will be   *)
(* taken for valid after it.                                               *)
Changed ==
  {n \in Files : \/ Attributes(entry'[n]) # Attributes(entry[n])
                 \/ Text(entry'[n]) # Text(entry[n])
                 \/ (entry'[n].kind = "none") # (entry[n].kind = "none")}
Keeps(p, reply) ==
  \/ call[p].key \in {"rmfile", "rmdir"} /\ reply = Lost
  \/ call[p].key = "put" /\ reply \in {Lost, Errno}
  \/ call[p].key = "ioctl" /\ Command(call[p].line) \in {"checkout", "checkin", "update"}
Bypassed(p, reply) ==
  {n \in Changed :
     \/ Keeps(p, reply)
     \/ hash[n] \notin {call[p].d, call[p].target}
     \/ hash[n] = 0 /\ call[p].key \in FileKeys}   \* it may be being looked up

Answer(p, reply) ==
  /\ call' = [call EXCEPT ![p].stage = "answered", ![p].reply = reply]
  /\ UNCHANGED <<kernel, written, calls>>

(* The answer arrives, or the caller was interrupted. *)
Answers(p, reply, seen) ==
  \/ /\ Answer(p, reply) /\ UNCHANGED failures
     /\ blind' = (blind \ seen) \cup Bypassed(p, reply)
  \/ /\ failures < MaxFailures /\ failures' = failures + 1
     /\ Answer(p, Lost) /\ blind' = blind \cup Bypassed(p, Lost)

(* A step of the daemon fails: the server, the disk or memory. *)
Fails(p, reply) ==
  /\ failures < MaxFailures /\ failures' = failures + 1
  /\ Answer(p, reply) /\ blind' = blind \cup Bypassed(p, reply)

(* FileAttribute and SetData: what is there becomes what is listed.  If it *)
(* cannot be found out the request is answered with an error, although it  *)
(* has been done.                                                          *)
SetData(e) == [e EXCEPT !.data = e.stored, !.mode = e.access]
Changes(p, n, e) ==
  \/ entry' = [entry EXCEPT ![n] = SetData(e)] /\ Answers(p, Ok, {})
  \/ entry' = [entry EXCEPT ![n] = e] /\ Fails(p, Errno)

Serving(p, key) == call[p].stage = "sent" /\ call[p].key = key
----------------------------------------------------------------------------
Attr(p) ==
  LET r == ParseName(call[p].line) IN
  /\ Serving(p, "attr") /\ entry' = Loaded(r)
  /\ IF Found(r) THEN Answers(p, Described(r), {call[p].name} \cap Files)
     ELSE Answers(p, None, {})

(* mkfile and mkdir: not if GetFullEntry finds something.  A file that it  *)
(* does not find because the server cannot be reached is made all the same *)
(* and not listed: AddEntry does not replace an entry.  A directory that   *)
(* cannot be described is listed before it has a layer.                    *)
Make(p, key, kind) ==
  LET r == ParseMode(call[p].line)  new == Entry(kind, <<>>, <<>>, "rw")
      made(e) == [entry EXCEPT ![r.name] = [e EXCEPT !.cvsKnown = entry[r.name].cvsKnown]]
  IN /\ Serving(p, key)
     /\ \/ /\ (Exists(r.name) \/ r.name \notin Files)
           /\ entry' = Loaded(r) /\ Answers(p, None, {})
        \/ /\ ~Exists(r.name) /\ r.name \in Files
           /\ \/ entry' = made(new) /\ Answers(p, Reply("attr", Attributes(new)), {})
              \/ /\ key = "mkdir" /\ entry' = made(Entry("phantom", <<>>, <<>>, "rw"))
                 /\ Fails(p, None)
        \/ /\ key = "mkfile" /\ Loads(r)
           /\ UNCHANGED entry /\ Fails(p, Reply("attr", Attributes(new)))

Mkfile(p) == Make(p, "mkfile", "local")
Mkdir(p)  == Make(p, "mkdir", "dir")

(* Mutant: an entry of the repository, whether there was one or not. *)
PopUpAlways(n) == [Remote EXCEPT !.known = entry[n].cvsKnown, !.cvsKnown = entry[n].cvsKnown]

(* What stays at a name: the file of the repository. *)
PopUp(n) ==
  IF n \in CvsFiles THEN [Remote EXCEPT !.known = entry[n].cvsKnown, !.cvsKnown = entry[n].cvsKnown]
  ELSE Missing

(* RemoveEntry alone: the file of the repository stays away. *)
Unlisted(n) == [Missing EXCEPT !.cvsKnown = entry[n].cvsKnown]

Rmfile(p) ==
  LET r == ParseName(call[p].line) IN
  /\ Serving(p, "rmfile")
  /\ IF Found(r) /\ Writable(r.name)
     THEN entry' = [entry EXCEPT ![r.name] = PopUp(r.name)] /\ Answers(p, Ok, {})
     ELSE entry' = Loaded(r) /\ Answers(p, Errno, {})

(* rmdir takes its success for an error, and its failure for success: a    *)
(* directory that has been removed stays listed, one that cannot be        *)
(* removed, or is not there, is listed no more.                            *)
Rmdir(p) ==
  LET r == ParseName(call[p].line)
      unlisted == [entry EXCEPT ![r.name] = Unlisted(r.name)]
  IN /\ Serving(p, "rmdir")
     /\ IF ~(Exists(r.name) /\ entry[r.name].kind = "dir")
        THEN entry' = Loaded(r) /\ Answers(p, Errno, {})
        ELSE \/ /\ entry[r.name].disk = "dir"
                /\ \/ entry' = [entry EXCEPT ![r.name].disk = "none"] /\ Answers(p, Errno, {})
                   \/ entry' = unlisted /\ Fails(p, Ok)
             \/ entry[r.name].disk # "dir" /\ entry' = unlisted /\ Answers(p, Ok, {})

(* CreateFile, with the mode that is listed.  In the checkout layer it     *)
(* wants a name with a version and refuses.                                *)
Truncfile(p) ==
  LET r == ParseName(call[p].line)  e == entry[r.name] IN
  /\ Serving(p, "truncfile")
  /\ IF Exists(r.name) /\ e.kind = "local" /\ e.disk # "dir"
     THEN Changes(p, r.name, [e EXCEPT !.stored = <<>>, !.access = e.mode, !.disk = "file"])
     ELSE entry' = Loaded(r) /\ Answers(p, Errno, {})

(* An entry that is replaced stays, in its layer, with the new contents;   *)
(* where there is none the old one is cloned.  In the checkout layer a     *)
(* file is found by its version, and without it what is moved there is     *)
(* lost.  Until the new entry is described the old one stays listed.       *)
Target(n, r) ==
  LET old == entry[n] IN
  IF entry[r].kind # "none" THEN entry[r]
  ELSE [Entry(IF old.kind = "dir" THEN "dir" ELSE "local", <<>>, old.data, old.mode)
          EXCEPT !.cvsKnown = entry[r].cvsKnown]
Unnamed(n, r) == Target(n, r).kind = "out" /\ Target(n, r).disk = "none"
Renamed(n, r) ==
  IF Unnamed(n, r) THEN Target(n, r)
  ELSE [Target(n, r) EXCEPT !.disk = entry[n].disk, !.stored = entry[n].stored, !.access = entry[n].access]
Moved(n, r)     == [entry EXCEPT ![r] = SetData(Renamed(n, r)), ![n] = PopUp(n)]
HalfMoved(n, r) == [entry EXCEPT ![r] = Renamed(n, r), ![n].disk = "none", ![n].stored = <<>>]

(* rename(2) wants a file or nothing in the place of a file.  A file that  *)
(* is to be moved onto itself is left alone.                               *)
CanMove(n, r) ==
  /\ n \in Files /\ n # r /\ entry[n].disk # "none"
  /\ entry[r].kind \notin {"remote", "phantom"} /\ entry[r].disk \in {"none", entry[n].disk}

(* Mutant: the old entry goes although the move was refused. *)
MoveForgetting(p) ==
  LET r == ParseMove(call[p].line)  to == MoveTarget(call[p].line) IN
  /\ Serving(p, "move") /\ to \in Files
  /\ IF CanMove(r.name, to)
     THEN entry' = Moved(r.name, to) /\ Answers(p, Ok, {})
     ELSE /\ entry' = IF r.name \in Files THEN [entry EXCEPT ![r.name] = PopUp(r.name)] ELSE entry
          /\ Answers(p, Errno, {})

Move(p) ==
  LET r == ParseMove(call[p].line)  to == MoveTarget(call[p].line) IN
  /\ Serving(p, "move") /\ to \in Files
  /\ IF CanMove(r.name, to)
     THEN \/ /\ ~Unnamed(r.name, to)
             /\ \/ entry' = Moved(r.name, to) /\ Answers(p, Ok, {})
                \/ entry' = HalfMoved(r.name, to) /\ Fails(p, Errno)
          \/ Unnamed(r.name, to) /\ entry' = HalfMoved(r.name, to) /\ Answers(p, Errno, {})
     ELSE entry' = Loaded(r) /\ Answers(p, IF Found(r) /\ r.name = to THEN Ok ELSE Errno, {})

(* get, of a version: the first load through an entry that lacks it gives  *)
(* nothing.  After a part of the file comes the end, or, if it has become  *)
(* longer, a part of that.                                                 *)
Get(p) ==
  LET r == ParseGet(call[p].line)  e == entry[r.name]
      nothing == Answers(p, None, {})
      given(data) ==
        \/ (data = <<>> \/ call[p].read # {}) /\ nothing
        \/ /\ data \notin call[p].read \cup {<<>>}
           /\ Answers(p, Reply("data", Attribute(FALSE, data, "rw", <<>>)), {})
  IN /\ Serving(p, "get") /\ entry' = Loaded(r)
     /\ IF ~Found(r) \/ Loads(r) THEN nothing
        ELSE IF e.kind = "remote" THEN given(Real(r.version))
        ELSE IF OnDisk(e) THEN given(e.stored) ELSE nothing

(* put opens the file anew: what is in it afterwards is the block, or      *)
(* nothing, if the disk is full: the stream is not asked.                  *)
Put(p) ==
  LET r == ParsePut(call[p].line)  e == entry[r.name] IN
  /\ Serving(p, "put")
  /\ IF Exists(r.name) /\ Writable(r.name)
     THEN \/ Changes(p, r.name, [e EXCEPT !.stored = DataOf(call[p].line)])
          \/ /\ entry' = [entry EXCEPT ![r.name] = SetData([e EXCEPT !.stored = <<>>])]
             /\ Fails(p, Ok)
     ELSE UNCHANGED entry /\ Answers(p, Errno, {})

Setattr(p) ==
  LET r == ParseMode(call[p].line)  e == entry[r.name] IN
  /\ Serving(p, "setattr")
  /\ IF Exists(r.name) /\ e.disk # "none"
     THEN Changes(p, r.name, [e EXCEPT !.access = ModeOf(call[p].line)[1]])
     ELSE UNCHANGED entry /\ Answers(p, Errno, {})
----------------------------------------------------------------------------
(* Checkout deletes a writable file before it loads the version.  Loaded   *)
(* for the first time through its entry, the version is not used.          *)
CheckedOut(r) ==
  LET e == entry[r.name]  v == Real(r.version)  found == Editable(r.name)
      known == IF found THEN e.cvsKnown ELSE e.known
      learnt == IF v \in Versions THEN known \cup {v} ELSE known
      done == r.name \in CvsFiles /\ v \in known
  IN [done |-> done,
      entry |-> IF done THEN [Entry("out", v, v, "rw") EXCEPT !.cvsKnown = e.cvsKnown]
                ELSE IF ~found THEN [e EXCEPT !.known = learnt]
                ELSE [Missing EXCEPT !.cvsKnown = IF r.name \in CvsFiles THEN learnt ELSE {}]]

(* What fails after the deletion leaves nothing listed; what is missing in *)
(* the copy because the disk is full nobody notices.                       *)
Checkout(p) ==
  LET r == ParseIoctl(call[p].line)  result == CheckedOut(r) IN
  /\ Serving(p, "ioctl") /\ Command(call[p].line) \in {"checkout", "checkout_version"}
  /\ IF Exists(r.name) /\ (entry[r.name].kind = "remote" \/ Editable(r.name))
     THEN \/ /\ entry' = [entry EXCEPT ![r.name] = result.entry]
             /\ Answers(p, IF result.done THEN Ok ELSE Errno, {})
          \/ /\ result.done
             /\ entry' = [entry EXCEPT ![r.name] = SetData([result.entry EXCEPT !.stored = <<>>])]
             /\ Fails(p, Ok)
          \/ /\ Editable(r.name)
             /\ entry' = [entry EXCEPT ![r.name] = Unlisted(r.name)]
             /\ Fails(p, Errno)
     ELSE UNCHANGED entry /\ Answers(p, Errno, {})

(* GetLocation: which file a name stands for. *)
Location(r) ==
  LET e == entry[r.name] IN
  IF e.kind = "local" THEN <<"view private">>
  ELSE IF e.kind = "out" THEN <<"checked out from">> \o e.version
  ELSE Real(r.version)

(* rescan and update do nothing, checkin only refuses, and version asks    *)
(* for the location: none of them changes a file.                          *)
OtherIoctl(p) ==
  LET r == ParseIoctl(call[p].line)  command == Command(call[p].line) IN
  /\ Serving(p, "ioctl") /\ command \in {"rescan", "update", "checkin", "checkin_version", "version"}
  /\ UNCHANGED entry
  /\ LET refused == \/ command \in {"checkin", "checkin_version"} /\ (Exists(r.name) => entry[r.name].kind # "out")
                    \/ command = "version" /\ ~Exists(r.name)
     IN Answers(p, IF refused THEN Errno
                   ELSE IF command = "version" /\ entry[r.name].kind \notin {"dir", "phantom"}
                     THEN Reply("code 0", Attribute(FALSE, <<>>, "", Location(r)))
                   ELSE Ok, {})

(* Nothing that is listed changes: no tree is loaded, because the daemon   *)
(* has been restarted and the server cannot be reached (PutFile,           *)
(* Invalidate and Update return 0 all the same); the server does not give  *)
(* attributes or a version; or the first thing to do on the disk fails.    *)
NotDone(p) ==
  LET command == IF call[p].key = "ioctl" THEN Command(call[p].line) ELSE "" IN
  /\ call[p].stage = "sent" /\ UNCHANGED entry
  /\ \/ call[p].key \in {"attr", "mkfile", "mkdir", "get"} /\ Fails(p, None)
     \/ (call[p].key = "put" \/ command \in {"rescan", "update"}) /\ Fails(p, Ok)
     \/ /\ call[p].key \notin {"attr", "mkfile", "mkdir", "get"} /\ command \notin {"rescan", "update"}
        /\ Fails(p, Errno)

Serve(p) ==
  \/ Attr(p) \/ Mkfile(p) \/ Mkdir(p) \/ Rmfile(p) \/ Rmdir(p) \/ Truncfile(p) \/ Move(p)
  \/ Get(p) \/ Put(p) \/ Setattr(p) \/ Checkout(p) \/ OtherIoctl(p) \/ NotDone(p)
----------------------------------------------------------------------------
(* What the functions of proc.c make of the answer: no answer is EIO, a    *)
(* code is negated.  change_attr does not negate it.                       *)
Result(key, reply) ==
  IF reply.tag \in {"none", "lost"} THEN "error"
  ELSE IF reply.tag = "errno" THEN (IF key = "setattr" THEN "positive" ELSE "error")
  ELSE "ok"

Answered(p, key) == call[p].stage = "answered" /\ call[p].key = key
Succeeded(p) == Result(call[p].key, call[p].reply) = "ok"
Done(p) == [call EXCEPT ![p] = Idle]

Return(p, dn, h, hd, seen) ==
  /\ Kernel(dn, h, hd, Done(p)) /\ blind' = blind \cup seen
  /\ UNCHANGED <<entry, written, calls, failures>>

(* lookup: a new dentry with a new inode; nothing is hashed for a name     *)
(* that was not found.                                                     *)
Lookup(p) ==
  /\ Answered(p, "attr")
  /\ IF ~Succeeded(p) THEN Return(p, dentry, hash, held, {})
     ELSE \E d \in Free :
       /\ \A i \in Free : d <= i
       /\ Return(p, [dentry EXCEPT ![d] = Dentry(call[p].name, call[p].reply.attr)],
                 [hash EXCEPT ![call[p].name] = d], [held EXCEPT ![p] = d], {})

(* create: d_instantiate does not hash the dentry.  It stays while the     *)
(* file is open; the one of a new directory goes at once.                  *)
Create(p) ==
  /\ Answered(p, "mkfile")
  /\ IF ~Succeeded(p) THEN Return(p, dentry, hash, held, {})
     ELSE \E d \in Free :
       /\ \A i \in Free : d <= i
       /\ Return(p, [dentry EXCEPT ![d] = Dentry(call[p].name, call[p].reply.attr)],
                 hash, [held EXCEPT ![p] = d], {})

Makedir(p) == Answered(p, "mkdir") /\ Return(p, dentry, hash, held, {})

(* unlink and rmdir: d_delete drops the dentry. *)
Unlink(p) ==
  LET d == call[p].d IN
  /\ Answered(p, "rmfile") \/ Answered(p, "rmdir")
  /\ IF ~Succeeded(p) THEN Return(p, dentry, hash, held, {})
     ELSE Return(p, [dentry EXCEPT ![d].valid = FALSE], [hash EXCEPT ![dentry[d].name] = 0], held, {})

(* rename: both dentries become invalid; after a success the VFS gives the *)
(* old one the new name, hashed if the target was (d_move).                *)
Rename(p) ==
  LET d == call[p].d  t == call[p].target
      n == dentry[d].name  r == call[p].to
      invalid == [i \in Ids |-> IF i \in {d, t} THEN [dentry[i] EXCEPT !.valid = FALSE] ELSE dentry[i]]
  IN /\ Answered(p, "move")
     /\ IF ~Succeeded(p) THEN Return(p, invalid, hash, held, {})
        ELSE Return(p, [invalid EXCEPT ![d].name = r],
                    [hash EXCEPT ![n] = 0, ![r] = IF t = 0 THEN 0 ELSE d], held, {})

Invalid(d) == [dentry EXCEPT ![d].valid = FALSE]

(* open with O_TRUNC: the dentry becomes invalid in any case. *)
Open(p) ==
  /\ Answered(p, "truncfile")
  /\ Return(p, Invalid(call[p].d), hash,
            IF Succeeded(p) THEN held ELSE [held EXCEPT ![p] = 0], {})

(* write, after a block: another one to the same name, or the end.  What   *)
(* was written before a block that fails leaves the dentry valid.          *)
NextBlock(p) ==
  /\ Answered(p, "put") /\ Succeeded(p) /\ ~call[p].more /\ written < Len(Data) /\ calls < MaxCalls
  /\ LET name == Before(call[p].line, Blank)
     IN call' = [call EXCEPT ![p].stage = "sent", ![p].reply = None,
                   ![p].more = TRUE, ![p].line = PutLine(name, <<>>, Data[written + 1])]
  /\ written' = written + 1 /\ calls' = calls + 1
  /\ UNCHANGED <<entry, kernel, failures, blind>>

(* Mutant: the dentry stays valid. *)
WriteEndValid(p) ==
  /\ Answered(p, "put") /\ Kernel(dentry, hash, held, Done(p))
  /\ UNCHANGED <<entry, written, calls, failures, blind>>

WriteEnd(p) ==
  /\ Answered(p, "put")
  /\ IF Succeeded(p)
     THEN /\ Kernel(Invalid(call[p].d), hash, held, Done(p)) /\ UNCHANGED blind
     ELSE /\ Kernel(dentry, hash, held, Done(p))
          /\ blind' = IF call[p].more THEN blind \cup {ParsePut(call[p].line).name} ELSE blind
  /\ UNCHANGED <<entry, written, calls, failures>>

(* readpage: another get for the rest of the page, *)
NextGet(p) ==
  /\ Answered(p, "get") /\ call[p].reply.tag = "data"
  /\ call' = [call EXCEPT ![p].stage = "sent", ![p].reply = None,
                ![p].read = @ \cup {call[p].reply.attr.data}]
  /\ UNCHANGED <<entry, kernel, written, calls, failures, blind>>

(* until it is full or an answer has no data.  A get that waits for a      *)
(* queue when its caller is interrupted counts as one without data, and    *)
(* one that waits for proc.lock as an error: then there is no page.        *)
Readpage(p) ==
  LET d == call[p].d  reply == call[p].reply
      got == call[p].read \cup (IF reply.tag = "data" THEN {reply.attr.data} ELSE {})
  IN /\ Answered(p, "get")
     /\ \/ Return(p, [dentry EXCEPT ![d].page = IF got = {} THEN {<<>>} ELSE got], hash, held, {})
        \/ reply = Lost /\ Return(p, dentry, hash, held, {})

(* Mutant: the dentry stays valid. *)
ChmodValid(p) == Answered(p, "setattr") /\ Return(p, dentry, hash, held, {})

Chmod(p) == Answered(p, "setattr") /\ Return(p, Invalid(call[p].d), hash, held, {})

(* ioctl: rescan makes the dentry invalid unless it failed, checkout and   *)
(* checkin of a version always; checkout, checkin and update make it valid.*)
Ioctl(p) ==
  LET d == call[p].d  command == Command(call[p].line) IN
  /\ Answered(p, "ioctl")
  /\ \/ command = "version" /\ Return(p, dentry, hash, held, {})
     \/ /\ command \in {"rescan", "checkout_version", "checkin_version"}
        /\ Return(p, IF command = "rescan" /\ ~Succeeded(p) THEN dentry ELSE Invalid(d),
                  hash, held, {})
     \/ /\ command \in {"checkout", "checkin", "update"}
        /\ Return(p, [dentry EXCEPT ![d].valid = TRUE], hash, held,
                  {Before(dentry[d].name, AtAt)})

Finish(p) ==
  \/ Lookup(p) \/ Create(p) \/ Makedir(p) \/ Unlink(p) \/ Rename(p) \/ Open(p)
  \/ NextBlock(p) \/ WriteEnd(p) \/ NextGet(p) \/ Readpage(p) \/ Chmod(p) \/ Ioctl(p)
----------------------------------------------------------------------------
Next ==
  \/ \E p \in Procs :
       \/ Close(p) \/ TruncateInode(p) \/ Serve(p) \/ Finish(p)
       \/ BeginOpenTruncating(p) \/ BeginRead(p) \/ BeginWrite(p)
       \/ \E mode \in Modes : BeginChmod(p, mode)
       \/ \E c \in Commands \cap Unversioned : BeginIoctl(p, c)
       \/ \E c \in Commands \ Unversioned, v \in Versions : BeginIoctlVersion(p, c, v)
       \/ \E n \in Names :
            \/ Walk(p, n) \/ BeginLookup(p, n) \/ BeginCreate(p, n) \/ BeginRemove(p, n)
            \/ \E r \in Files : BeginRename(p, n, r)
  \/ \E n \in Names : Prune(n)

Spec == Init /\ [][Next]_vars
----------------------------------------------------------------------------
(* Nobody is changing the file of this dentry. *)
Quiet(d) ==
  \A p \in Procs :
    call[p].stage = "answered" \/ call[p].more => d \notin {call[p].d, call[p].target}

(* The names whose dentry is hashed and taken for valid, although nothing  *)
(* excuses it from being right: no change went past it.                    *)
Trusted ==
  {n \in Files \ blind : hash[n] # 0 /\ dentry[hash[n]].valid /\ Quiet(hash[n])}

(* d_time = 1 means "dentry valid" (dir.c 284): the inode says of the file *)
(* what the daemon would say, unless a change went past this dentry.       *)
CleanMeansCurrent ==
  \A n \in Trusted : entry[n].kind # "none" /\ dentry[hash[n]].attr = Attributes(entry[n])

(* The pages of such an inode are those of the file, or empty: parts that  *)
(* several gets have brought are of the same contents.                     *)
PagesCurrent ==
  \A n \in Trusted : ~IsDir(hash[n]) =>
    dentry[hash[n]].page \subseteq {Text(entry[n]), <<>>}

(* What the daemon takes a line for. *)
Understood(p) ==
  LET key == call[p].key  line == call[p].line IN
  IF key \in {"mkfile", "mkdir", "setattr"} THEN ParseMode(line)
  ELSE IF key = "get" THEN ParseGet(line) ELSE IF key = "put" THEN ParsePut(line)
  ELSE IF key = "move" THEN ParseMove(line) ELSE IF key = "ioctl" THEN ParseIoctl(line)
  ELSE ParseName(line)

(* What is written is not lost (Move, TruncateFile, PutFile and Checkout   *)
(* change the disk first and find out then whether they can go on): the    *)
(* contents of a writable file change only by a request for this file that *)
(* is to change them, whatever it is answered.  A rmfile that is refused   *)
(* changes nothing; a move, refused or not, takes them along, but for a    *)
(* checked-out file in its way that is gone from the disk.                 *)
Asked(p, n) ==
  LET key == call[p].key  to == MoveTarget(call[p].line) IN
  /\ call[p].stage = "sent" /\ call'[p].stage = "answered"
  /\ \/ /\ Understood(p).name = n
        /\ \/ key \in {"put", "truncfile"}
           \/ key = "rmfile" /\ call'[p].reply # Errno
           \/ key = "ioctl" /\ Command(call[p].line) \in {"checkout", "checkout_version"}
           \/ /\ key = "move" /\ to \in Files
              /\ \/ entry'[to].disk = "file" /\ entry'[to].stored = entry[n].stored
                 \/ entry[to].kind = "out" /\ entry[to].disk = "none"
     \/ /\ key = "move" /\ to = n /\ Understood(p).name \in Files
        /\ entry'[n].disk = "file" /\ entry'[n].stored = entry[Understood(p).name].stored

OnlyAskedIsLost ==
  [][\A n \in Files :
       Writable(n) /\ ~(OnDisk(entry'[n]) /\ entry'[n].stored = entry[n].stored)
       => \E p \in Procs : Asked(p, n)]_vars

(* The daemon understands a line as the kernel module means it: the name   *)
(* of the dentry and the version of its inode, for names without blanks,   *)
(* without an @ and without a version of their own.                        *)
UnderstoodAsMeant ==
  \A p \in Procs :
    /\ call[p].stage = "sent" /\ ~Has(call[p].to, Blank)
    /\ \A token \in {Blank, At, AtAt} : ~Has(call[p].name, token)
    => /\ Understood(p).name = call[p].name
       /\ call[p].key \in {"truncfile", "get", "put", "setattr", "move"} =>
            Understood(p).version = Version(call[p].d)
       /\ call[p].key = "move" => MoveTarget(call[p].line) = call[p].to

(* "cat filename@@1.1 will retrieve the version 1.1" (README 246): what is *)
(* read under such a name, while the file is the repository's, is of that  *)
(* version.                                                                *)
ReadsNamedVersion ==
  \A p \in Procs :
    call[p].stage = "answered" /\ call[p].key = "get" /\ call[p].reply.tag = "data"
      /\ Has(call[p].name, AtAt) /\ entry[Before(call[p].name, AtAt)].kind = "remote"
    => call[p].reply.attr.data = After(call[p].name, AtAt)
=============================================================================
