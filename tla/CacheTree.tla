----------------------------- MODULE CacheTree -----------------------------
(***************************************************************************)
(* The files a cvsfsd serves: src/cvsfsd/TCvsInterfacePserver.cpp with the *)
(* cache systems, the directories and the versioned files it works on.     *)
(*                                                                         *)
(* A daemon keeps two trees in memory, the one of the CVS server (fCvsDir) *)
(* and the merged one it serves (fRootDir), and three layers of files on   *)
(* disk: versions loaded from the server (/remote), files checked out      *)
(* (/checkout) and local files (/local).  A crash loses what is in memory. *)
(* Operations that take several steps on the disk or wait for the server   *)
(* are several steps here.                                                 *)
(***************************************************************************)
EXTENDS Naturals, Sequences, SequencesExt

CONSTANTS
  Paths,       \* the names in the file system: sequences that are not empty
  CvsDirs,     \* the directories of the repository
  CvsFiles,    \* its files
  Versions,    \* the versions of each of its files
  MaxCrashes   \* bound on the crashes of the daemon

ASSUME TreeAssumption ==
  /\ CvsDirs \subseteq Paths /\ CvsFiles \subseteq Paths
  /\ CvsDirs \cap CvsFiles = {} /\ 0 \notin Versions /\ MaxCrashes \in Nat
  /\ \A p \in Paths : p \in Seq(Range(p)) /\ Len(p) > 0 /\ Prefixes(p) \ {<<>>} \subseteq Paths
  /\ \A p \in CvsDirs \cup CvsFiles, q \in Paths : IsStrictPrefix(q, p) => q \in CvsDirs

VARIABLES
  loaded,      \* fTreeLoaded
  tree,        \* fRootDir: the entry of each path
  treeKnown,   \* the versions whose attributes an entry of fRootDir has
  cvsKnown,    \* the same for the entries of fCvsDir
  remote,      \* /remote: how much of a version has been stored
  out,         \* /checkout: how much of a version has been copied
  local,       \* /local
  job,         \* the operation that is under way
  crashes,     \* history: crashes of the daemon
  faulty,      \* history: a creation or the load of attributes has failed
  diskFull     \* history: a write to a file has failed

memory == <<loaded, tree, treeKnown, cvsKnown>>
disk   == <<remote, out, local>>
vars   == <<memory, disk, job, crashes, faulty, diskFull>>

Kinds   == {"none", "remoteDir", "localDir", "phantom", "cvs", "out", "local"}
Stored  == {"none", "partial", "whole"}
Entry(kind, v) == [kind |-> kind, version |-> v]
None    == Entry("none", 0)
Idle    == [op |-> "idle", path |-> <<>>, version |-> 0, found |-> FALSE, known |-> FALSE]
Nowhere == [p \in Paths |-> None]
Unknown == [p \in CvsFiles |-> {}]
NoCopy  == [p \in CvsFiles |-> [v \in Versions |-> "none"]]

IsDir(e) == e.kind \in {"remoteDir", "localDir", "phantom"}

(* The place of a path: the proper prefixes, and what lies below it. *)
Above(p) == {q \in Paths : IsStrictPrefix(q, p)}
Below(p) == {q \in Paths : IsStrictPrefix(p, q)}
AtOrBelow(p) == Below(p) \cup {p}

(* The path of q, which lies at or below p, when p becomes r. *)
Renamed(q, p, r) == r \o SubSeq(q, Len(p) + 1, Len(q))

TypeOK ==
  /\ loaded \in BOOLEAN
  /\ tree \in [Paths -> [kind : Kinds, version : Versions \cup {0}]]
  /\ treeKnown \in [CvsFiles -> SUBSET Versions] /\ cvsKnown \in [CvsFiles -> SUBSET Versions]
  /\ remote \in [CvsFiles -> [Versions -> Stored]]
  /\ out \in [CvsFiles -> [Versions -> Stored]]
  /\ local \in [Paths -> {"none", "dir", "file"}]
  /\ job \in [op : {"idle", "get", "load", "fetch", "create", "copy"},
              path : CvsFiles \cup {<<>>}, version : Versions \cup {0},
              found : BOOLEAN, known : BOOLEAN]
  /\ crashes \in 0 .. MaxCrashes /\ faulty \in BOOLEAN /\ diskFull \in BOOLEAN
  /\ \A p \in Paths : tree[p] # None => \A q \in Above(p) : IsDir(tree[q])
  /\ \A p \in Paths : local[p] # "none" => \A q \in Above(p) : local[q] = "dir"

Init ==
  /\ loaded = FALSE /\ tree = Nowhere /\ treeKnown = Unknown /\ cvsKnown = Unknown
  /\ remote = NoCopy /\ out = NoCopy /\ local = [p \in Paths |-> "none"]
  /\ job = Idle /\ crashes = 0 /\ faulty = FALSE /\ diskFull = FALSE

Ready == loaded /\ job = Idle
----------------------------------------------------------------------------
(* The versions checked out, any of which EvaluateFullName may find. *)
CheckedOut(p) == IF p \in CvsFiles THEN {v \in Versions : out[p][v] # "none"} ELSE {}

(* What the daemon begins with: the repository, the files checked out over *)
(* it, and the local files over both.                                      *)
Fresh(p, last) ==
  IF local[p] = "file" THEN Entry("local", 0)
  ELSE IF local[p] = "dir" \/ p \in CvsDirs
    THEN Entry(IF p \in CvsDirs THEN "remoteDir" ELSE "localDir", 0)
  ELSE IF CheckedOut(p) # {} THEN Entry("out", last[p])
  ELSE IF p \in CvsFiles THEN Entry("cvs", 0) ELSE None

(* Of several versions checked out any may come last.  A parent that is a  *)
(* file hides what lies below it.                                          *)
FreshTrees ==
  {[p \in Paths |-> IF \A q \in Above(p) : IsDir(Fresh(q, last)) THEN Fresh(p, last) ELSE None]
     : last \in {l \in [CvsFiles -> Versions] :
                   \A p \in CvsFiles : CheckedOut(p) = {} \/ l[p] \in CheckedOut(p)}}

LoadTree ==
  /\ ~loaded /\ job = Idle /\ loaded' = TRUE /\ tree' \in FreshTrees
  /\ treeKnown' = Unknown /\ cvsKnown' = Unknown
  /\ UNCHANGED <<disk, job, crashes, faulty, diskFull>>
----------------------------------------------------------------------------
(* Entries of the merged tree. *)
With(t, p, e)  == [q \in Paths |-> IF q = p THEN e ELSE t[q]]

(* Mutant: what lies below is forgotten. *)
WithoutOne(t, p) == [q \in Paths |-> IF q = p THEN None ELSE t[q]]

Without(t, p)  == [q \in Paths |-> IF q \in AtOrBelow(p) THEN None ELSE t[q]]

(* GetParentDirectory adds the parents that are missing, of no layer. *)
ParentFound(p) == \A q \in Above(p) : tree[q] = None \/ IsDir(tree[q])
WithParents(p) ==
  [q \in Paths |-> IF q \in Above(p) /\ tree[q] = None THEN Entry("phantom", 0) ELSE tree[q]]

(* Mutants: the entry goes only where there is none in the repository, and *)
(* only where there is one.                                                *)
PopUpMissing(t, p) == IF p \in CvsFiles THEN t ELSE Without(t, p)
PopUpOnly(t, p) ==
  IF p \in CvsFiles THEN With(Without(t, p), p, Entry("cvs", 0)) ELSE t

(* What RemoveFile and Move leave at a path: the entry of the repository. *)
PopUp(t, p) ==
  IF p \in CvsFiles THEN With(Without(t, p), p, Entry("cvs", 0)) ELSE Without(t, p)

KnownAfterPopUp(p) ==
  IF p \in CvsFiles THEN [treeKnown EXCEPT ![p] = cvsKnown[p]] ELSE treeKnown

(* TCacheSystem on /local: the parents are created on the way. *)
Parents(p, n) ==
  [q \in Paths |-> IF q \in Above(p) /\ Len(q) <= n /\ local[q] = "none" THEN "dir" ELSE local[q]]

CanCreate(p, kind) ==
  /\ \A q \in Above(p) : local[q] # "file"
  /\ local[p] \in {"none", kind}

Create(p, kind) == local' = [Parents(p, Len(p)) EXCEPT ![p] = kind]

(* A mkdir or creat fails, after any number of parents. *)
CreateFails(p) ==
  \E n \in 0 .. Len(p) - 1 :
    /\ \A q \in Above(p) : Len(q) <= n => local[q] # "file"
    /\ local' = Parents(p, n) /\ faulty' = TRUE
----------------------------------------------------------------------------
(* GetFullEntry: the attributes of a version are asked of the server.      *)
GetFullEntry(p, v) ==
  /\ Ready /\ p \in CvsFiles /\ tree[p].kind = "cvs"
  /\ treeKnown' = [treeKnown EXCEPT ![p] = @ \cup {v}]
  /\ UNCHANGED <<loaded, tree, cvsKnown, disk, job, crashes, faulty, diskFull>>

(* mkdir: the entry was not found.  AllocateDir gives missing parents no   *)
(* layer.                                                                  *)
MakeDirectory(p) ==
  /\ Ready /\ tree[p] = None /\ ParentFound(p)
  /\ \/ /\ CanCreate(p, "dir") /\ Create(p, "dir")
        /\ tree' = With(WithParents(p), p, Entry("localDir", 0)) /\ UNCHANGED faulty
     \/ CreateFails(p) /\ UNCHANGED tree
  /\ UNCHANGED <<loaded, treeKnown, cvsKnown, remote, out, job, crashes, diskFull>>

(* rmdir: the result of the cache, true for success, is taken for an error *)
(* number: the entry goes when the directory stays.                        *)
RemoveDirectory(p) ==
  /\ Ready /\ tree[p].kind = "localDir"
  /\ \/ /\ local[p] = "dir" /\ \A q \in Below(p) : local[q] = "none"
        /\ local' = [local EXCEPT ![p] = "none"] /\ UNCHANGED tree
     \/ /\ local[p] # "dir" \/ \E q \in Below(p) : local[q] # "none"
        /\ tree' = Without(tree, p) /\ UNCHANGED local
  /\ UNCHANGED <<loaded, treeKnown, cvsKnown, remote, out, job, crashes, faulty, diskFull>>

(* mkfile: GetFullEntry found nothing, or could not load the attributes of *)
(* a file of the repository.  The new entry does not replace an old one.   *)
MakeFile(p) ==
  /\ Ready /\ ParentFound(p)
  /\ LET unloaded == tree[p].kind = "cvs" /\ treeKnown[p] # Versions
     IN \/ /\ tree[p] = None \/ unloaded
           /\ CanCreate(p, "file") /\ Create(p, "file") /\ faulty' = (faulty \/ unloaded)
           /\ tree' = IF unloaded THEN tree
                      ELSE With(WithParents(p), p, Entry("local", 0))
        \/ /\ tree[p] = None \/ unloaded
           /\ CreateFails(p) /\ tree' = WithParents(p)
        \/ /\ tree[p] = None /\ ~CanCreate(p, "file")
           /\ tree' = WithParents(p) /\ UNCHANGED <<local, faulty>>
  /\ UNCHANGED <<loaded, treeKnown, cvsKnown, remote, out, job, crashes, diskFull>>
----------------------------------------------------------------------------
(* Mutant: only local files are deleted. *)
DeleteLocal(p) ==
  /\ local' = IF tree[p].kind = "local" THEN [local EXCEPT ![p] = "none"] ELSE local
  /\ UNCHANGED out

(* rmfile, of a file that is not the repository's: any version checked out *)
(* is deleted, and the repository's entry comes back.                      *)
DeleteFile(p) ==
  IF tree[p].kind = "local"
    THEN local[p] = "file" /\ local' = [local EXCEPT ![p] = "none"] /\ UNCHANGED out
    ELSE /\ \E v \in CheckedOut(p) : out' = [out EXCEPT ![p][v] = "none"]
         /\ UNCHANGED local

RemoveFile(p) ==
  /\ Ready /\ tree[p].kind \in {"local", "out"} /\ DeleteFile(p)
  /\ tree' = PopUp(tree, p) /\ treeKnown' = KnownAfterPopUp(p)
  /\ UNCHANGED <<loaded, cvsKnown, remote, job, crashes, faulty, diskFull>>

(* truncfile: creating the file again is all it takes, but the checked-out *)
(* layer creates no file without a version.                                *)
TruncateFile(p) ==
  /\ Ready /\ tree[p].kind = "local"
  /\ \/ CanCreate(p, "file") /\ Create(p, "file") /\ UNCHANGED faulty
     \/ CreateFails(p)
  /\ UNCHANGED <<memory, remote, out, job, crashes, diskFull>>

(* No stream is asked whether it could write what it was given: of a write *)
(* to a full disk a part is there, and the operation succeeds.             *)
Written(given, there) ==
  there \in {given, "partial"} /\ diskFull' = (diskFull \/ there # given)

(* put: the file is rewritten, so that a version checked out is the user's *)
(* from now on.                                                            *)
PutFile(p) ==
  /\ Ready /\ tree[p].kind = "out" /\ out[p][tree[p].version] # "none"
  /\ \E there \in Stored : /\ Written("whole", there)
                           /\ out' = [out EXCEPT ![p][tree[p].version] = there]
  /\ UNCHANGED <<memory, remote, local, job, crashes, faulty>>
----------------------------------------------------------------------------
(* Mutant: a file goes to the local layer whatever it replaces. *)
CopiesLocal(p) == {0}

(* rename(2) of a file, between any two of the writable layers; 0 stands   *)
(* for the local one.  A file of the checked-out layer replaces the one    *)
(* version that is checked out.                                            *)
Copies(p) == IF tree[p].kind = "out" THEN CheckedOut(p) ELSE {0}

RenameFile(p, r) ==
  \E from \in Copies(p), to \in Copies(r) :
    /\ from = 0 => local[p] = "file"
    /\ to = 0 => local[r] # "dir" /\ \A q \in Above(r) : local[q] = "dir"
    /\ out' = [f \in CvsFiles |-> [v \in Versions |->
         IF f = p /\ v = from THEN "none"
         ELSE IF f = r /\ v = to THEN (IF from = 0 THEN "whole" ELSE out[p][from])
         ELSE out[f][v]]]
    /\ local' = [q \in Paths |->
         IF q = p /\ from = 0 THEN "none" ELSE IF q = r /\ to = 0 THEN "file" ELSE local[q]]

(* rename(2) of a directory: to nothing or over an empty directory.        *)
RenameDirectory(p, r) ==
  /\ local[p] = "dir" /\ local[r] # "file" /\ tree[r].kind # "out"
  /\ r \notin Below(p) /\ \A q \in Above(r) : local[q] = "dir"
  /\ \A q \in Below(r) : local[q] = "none"
  /\ local' = [q \in Paths |->
       IF q \in AtOrBelow(r) /\ Renamed(q, r, p) \in Paths THEN local[Renamed(q, r, p)]
       ELSE IF q \in AtOrBelow(p) THEN "none" ELSE local[q]]
  /\ UNCHANGED out

(* CloneEntry: what is not a directory becomes a local file.               *)
Clone(e) == IF e = None THEN None
            ELSE Entry(IF IsDir(e) THEN "localDir" ELSE "local", 0)

(* An entry that is there already stays, without the contents of the old.  *)
MovedTree(p, r) ==
  [q \in Paths |-> IF tree[r] = None /\ q \in AtOrBelow(r) /\ Renamed(q, r, p) \in Paths
                   THEN Clone(tree[Renamed(q, r, p)]) ELSE WithParents(r)[q]]

(* A move that is refused or fails leaves the new parents. *)
Move(p, r) ==
  /\ Ready /\ p # r /\ tree[p] # None /\ ParentFound(r)
  /\ \/ /\ tree[p].kind \in {"local", "out", "localDir"}
        /\ tree[r].kind \in {"none", "local", "out", "localDir"}
        /\ \A q \in Below(p) : local[q] = "none" \/ Renamed(q, p, r) \in Paths
        /\ RenameFile(p, r) \/ RenameDirectory(p, r)
        /\ tree' = PopUp(MovedTree(p, r), p) /\ treeKnown' = KnownAfterPopUp(p)
     \/ tree' = WithParents(r) /\ UNCHANGED <<treeKnown, out, local>>
  /\ UNCHANGED <<loaded, cvsKnown, remote, job, crashes, faulty, diskFull>>
----------------------------------------------------------------------------
(* LoadFile: a version that the cache has is used, unless its attributes   *)
(* are missing; otherwise it is loaded from the server into the cache.     *)
Start(op, p, v, found, known) ==
  job' = [op |-> op, path |-> p, version |-> v, found |-> found, known |-> known]

Cached(p, v, known) == v \in known[p] /\ remote[p][v] # "none"

BeginLoad(p, v) ==
  \/ remote' = [remote EXCEPT ![p][v] = "partial"] /\ UNCHANGED faulty
  \/ /\ remote[p][v] = "none" /\ faulty' = TRUE
     /\ UNCHANGED remote

(* get, of a version of a file of the repository.  Reading what is cached  *)
(* changes nothing.                                                        *)
GetFile(p, v) ==
  /\ Ready /\ tree[p].kind = "cvs" /\ ~Cached(p, v, treeKnown)
  /\ BeginLoad(p, v) /\ Start("get", p, v, FALSE, v \in treeKnown[p])
  /\ UNCHANGED <<memory, out, local, crashes, diskFull>>

(* The server has sent the version.  LoadFile returns the entry it looked  *)
(* for before: nothing, if the attributes were missing.                    *)
Received ==
  LET p == job.path  v == job.version
      added(known) == [known EXCEPT ![p] = @ \cup {v}]
  IN /\ job.op \in {"get", "fetch"}
     /\ \E there \in Stored :
          /\ Written("whole", there)
          /\ remote' = [remote EXCEPT ![p][v] = IF @ = "none" THEN "none" ELSE there]
     /\ treeKnown' = IF job.found THEN treeKnown ELSE added(treeKnown)
     /\ cvsKnown' = IF job.found THEN added(cvsKnown) ELSE cvsKnown
     /\ job' = IF job.op = "fetch" /\ job.known THEN [job EXCEPT !.op = "create"] ELSE Idle
     /\ UNCHANGED <<loaded, tree, out, local, crashes, faulty>>

(* Mutant: what was received is kept. *)
NotReceivedKept ==
  /\ job.op \in {"get", "fetch"} /\ job' = Idle
  /\ UNCHANGED <<memory, disk, crashes, faulty, diskFull>>

(* The server fails: the file is deleted again. *)
NotReceived ==
  /\ job.op \in {"get", "fetch"} /\ job' = Idle
  /\ remote' = [remote EXCEPT ![job.path][job.version] = "none"]
  /\ UNCHANGED <<memory, out, local, crashes, faulty, diskFull>>
----------------------------------------------------------------------------
(* Checkout: a writable file is deleted first, and its entry with it.  It  *)
(* is not looked up before, so that a missing one gets parents.            *)
Checkout(p, v) ==
  LET found == tree[p].kind \in {"local", "out"} IN
  /\ Ready
  /\ \/ found /\ DeleteFile(p) /\ tree' = Without(tree, p)
     \/ tree[p].kind = "cvs" /\ UNCHANGED <<tree, out, local>>
     \/ tree[p] = None /\ ParentFound(p) /\ tree' = WithParents(p) /\ UNCHANGED <<out, local>>
  /\ IF p \in CvsFiles /\ tree[p] # None
       THEN Start("load", p, v, found, v \in (IF found THEN cvsKnown ELSE treeKnown)[p])
       ELSE UNCHANGED job
  /\ UNCHANGED <<loaded, treeKnown, cvsKnown, remote, crashes, faulty, diskFull>>

(* Then the version is loaded if need be, or there is no connection. *)
CheckoutLoad ==
  /\ job.op = "load"
  /\ \/ /\ job.known /\ remote[job.path][job.version] # "none"
        /\ job' = [job EXCEPT !.op = "create"] /\ UNCHANGED <<remote, faulty>>
     \/ /\ ~(job.known /\ remote[job.path][job.version] # "none")
        /\ \/ BeginLoad(job.path, job.version) /\ job' = [job EXCEPT !.op = "fetch"]
           \/ job' = Idle /\ UNCHANGED <<remote, faulty>>
  /\ UNCHANGED <<memory, out, local, crashes, diskFull>>

CheckoutCreate ==
  /\ job.op = "create"
  /\ \/ /\ out' = [out EXCEPT ![job.path][job.version] = "partial"]
        /\ job' = [job EXCEPT !.op = "copy"] /\ UNCHANGED faulty
     \/ job' = Idle /\ faulty' = TRUE /\ UNCHANGED out
  /\ UNCHANGED <<memory, remote, local, crashes, diskFull>>

CheckoutCopy ==
  LET p == job.path  v == job.version IN
  /\ job.op = "copy" /\ job' = Idle
  /\ IF remote[p][v] = "none"
       THEN UNCHANGED <<tree, treeKnown, out, diskFull>>
       ELSE /\ \E there \in Stored : /\ Written(remote[p][v], there)
                                     /\ out' = [out EXCEPT ![p][v] = there]
            /\ tree' = With(tree, p, Entry("out", v))
            /\ treeKnown' = [treeKnown EXCEPT ![p] = {}]
  /\ UNCHANGED <<loaded, cvsKnown, remote, local, crashes, faulty>>
----------------------------------------------------------------------------
(* The daemon dies, and another is started. *)
Crash ==
  /\ crashes < MaxCrashes /\ crashes' = crashes + 1
  /\ loaded' = FALSE /\ tree' = Nowhere /\ treeKnown' = Unknown /\ cvsKnown' = Unknown
  /\ job' = Idle /\ UNCHANGED <<disk, faulty, diskFull>>

Next ==
  \/ LoadTree \/ Received \/ NotReceived \/ Crash
  \/ CheckoutLoad \/ CheckoutCreate \/ CheckoutCopy
  \/ \E p \in Paths :
       \/ MakeDirectory(p) \/ RemoveDirectory(p) \/ MakeFile(p) \/ RemoveFile(p)
       \/ TruncateFile(p) \/ PutFile(p) \/ \E r \in Paths : Move(p, r)
       \/ \E v \in Versions : GetFullEntry(p, v) \/ GetFile(p, v) \/ Checkout(p, v)

Spec == Init /\ [][Next]_vars
----------------------------------------------------------------------------
(* A file that can be written is listed as a daemon started again would    *)
(* find it: in the same layer, in the same version.  (The cache functions  *)
(* of TCvsInterfacePserver.cpp change the tree and the disk together.)     *)
RestartKeeps ==
  loaded /\ ~faulty =>
    \A p \in Paths : tree[p].kind \in {"local", "out"} =>
      \A t \in FreshTrees : t[p] = tree[p]

(* Also when a creation failed, a listed file is on the disk, in the layer *)
(* and the version listed: what the tree offers can be opened.             *)
ListedIsStored ==
  \A p \in Paths :
    /\ tree[p].kind = "local" => local[p] = "file"
    /\ tree[p].kind = "out" => out[p][tree[p].version] # "none"

(* What get takes from the cache is the whole of the version: it is to     *)
(* "load file from cvs server if necessary and store it in cache" (GetFile,*)
(* TCvsInterfacePserver.cpp 457).                                          *)
CachedIsWhole ==
  Ready => \A p \in CvsFiles, v \in Versions :
    tree[p].kind = "cvs" /\ Cached(p, v, treeKnown) => remote[p][v] = "whole"

(* As long as no daemon died and every write could be done, a read gives   *)
(* the whole of a version, whatever the server did before, and so does a   *)
(* checkout if no creation failed: one that did may leave a part of a      *)
(* version beside the version checked out, and a rename takes any of them. *)
WholeUnlessCrashed ==
  crashes = 0 /\ ~diskFull =>
    /\ CachedIsWhole
    /\ ~faulty => \A p \in Paths :
         tree[p].kind = "out" => out[p][tree[p].version] # "partial"
============================================================================
