------------------------ MODULE VfsOperationsProofs ------------------------
(***************************************************************************)
(* The requests that the operations of VfsOperations send are understood   *)
(* as they are meant, whatever the names, the versions and the files are   *)
(* and whatever other processes do between the steps of an operation.      *)
(***************************************************************************)
EXTENDS VfsOperations, RequestsProofs

(* What the lines are made of: versions, modes and commands are words that *)
(* the format of the lines does not use.                                   *)
Tokens(T) ==
  /\ {Blank, At, AtAt, "rw"} \cup Modes \cup Commands \subseteq T
  /\ Blank \notin Modes \cup Commands
  /\ Names \subseteq Seq(T) /\ Data \in Seq(T)
  /\ Versions \subseteq Seq(T) /\ \A v \in Versions : Plain(v)

Stamps == Versions \cup {<<>>}

IsEntry(e) ==
  /\ e = [kind |-> e.kind, version |-> e.version, data |-> e.data, mode |-> e.mode,
          stored |-> e.stored, access |-> e.access, disk |-> e.disk,
          known |-> e.known, cvsKnown |-> e.cvsKnown]
  /\ e.version \in Stamps /\ e.known \subseteq Versions /\ e.cvsKnown \subseteq Versions
Entries(f) == f = [n \in Files |-> f[n]] /\ \A n \in Files : IsEntry(f[n])

IsAttr(a) ==
  /\ a = [dir |-> a.dir, data |-> a.data, mode |-> a.mode, version |-> a.version]
  /\ a.version \in Stamps
IsDentry(x) ==
  /\ x = [name |-> x.name, attr |-> x.attr, page |-> x.page, valid |-> x.valid]
  /\ IsAttr(x.attr)
Dentries(f) == f = [i \in Ids |-> f[i]] /\ \A i \in Ids : IsDentry(f[i])

IsCall(c) ==
  /\ c = [key |-> c.key, d |-> c.d, target |-> c.target, name |-> c.name, to |-> c.to,
          line |-> c.line, stage |-> c.stage, reply |-> c.reply, more |-> c.more,
          read |-> c.read]
  /\ c.d \in Ids \cup {0} /\ c.target \in Ids \cup {0}
  /\ c.key = "idle" => c.stage = "idle"
  /\ c.key # "idle" => c.name \in Names
  /\ c.key = "move" => c.to \in Files
  /\ c.key \in {"attr", "mkfile"} => IsAttr(c.reply.attr)
Calls(f) == f = [p \in Procs |-> f[p]] /\ \A p \in Procs : IsCall(f[p])

(* The line of a request about a plain name: the name, with the version v  *)
(* of the inode in what is asked about an inode.                           *)
Dated == {"truncfile", "get", "put", "setattr", "move"}
Keys  == DirKeys \cup FileKeys \cup {"idle"}
OfLine(T, c, v) ==
  /\ c.key \in Keys
  /\ c.key \in {"attr", "rmfile", "rmdir"} => c.line = NameLine(c.name)
  /\ c.key \in {"mkfile", "mkdir"} => c.line = ModeLine(c.name, "rw")
  /\ c.key = "truncfile" => c.line = NameLine(WithVersion(c.name, v))
  /\ c.key = "get" => c.line = GetLine(c.name, v)
  /\ c.key = "put" => \E x \in T : c.line = PutLine(WithVersion(c.name, v), v, x)
  /\ c.key = "setattr" =>
       \E mode \in T : mode # Blank /\ c.line = ModeLine(WithVersion(c.name, v), mode)
  /\ c.key = "move" => c.line = MoveLine(WithVersion(c.name, v), c.to)
  /\ c.key = "ioctl" =>
       \E w \in T, s \in Stamps : w # Blank /\ c.line = IoctlLine(w, WithVersion(c.name, s))

(* Every call has such a line, for the inode that it works with.           *)
Lines(T) ==
  \A p \in Procs :
    /\ call[p].key \in Dated => call[p].d # 0
    /\ Plain(call[p].name) => OfLine(T, call[p], Version(call[p].d))

InUse == Used(hash, held, call)

Inv(T) ==
  /\ Entries(entry) /\ Dentries(dentry) /\ Calls(call) /\ Lines(T)
  /\ hash = [n \in Names |-> hash[n]] /\ \A n \in Names : hash[n] \in Ids \cup {0}
  /\ held = [p \in Procs |-> held[p]] /\ \A p \in Procs : held[p] \in Ids \cup {0}
  /\ written \in Nat
  /\ \A i \in Ids \cap InUse : dentry[i].name \in Names
----------------------------------------------------------------------------
LEMMA NoFields ==
  /\ <<>> \in Stamps /\ NoAttribute.version = <<>> /\ IsAttr(NoAttribute) /\ 0 \notin Ids
  /\ \A k : IsEntry(Entry(k, <<>>, <<>>, "rw"))
  /\ IsEntry(Remote) /\ IsEntry(Missing) /\ IsDentry(Unused) /\ IsCall(Idle)
<1>1. <<>> \in Stamps /\ 0 \notin Ids
  BY VfsAssumption DEF Stamps, Ids
<1>2. IsAttr(NoAttribute) /\ NoAttribute.version = <<>>
  BY <1>1 DEF IsAttr, NoAttribute, Attribute
<1>3. \A k : IsEntry(Entry(k, <<>>, <<>>, "rw"))
  BY <1>1 DEF IsEntry, Entry
<1>4. IsEntry(Remote) /\ IsEntry(Missing)
  BY <1>3 DEF Remote, Missing
<1>5. IsDentry(Unused)
  BY <1>2 DEF IsDentry, Unused
<1>6. IsCall(Idle)
  BY <1>1, <1>2 DEF IsCall, Idle, None, Reply
<1> QED
  BY <1>1, <1>2, <1>3, <1>4, <1>5, <1>6

(* One field of an entry is changed, or an entry. *)
LEMMA EntryChanged ==
  ASSUME NEW e, IsEntry(e), NEW x
  PROVE  /\ IsEntry([e EXCEPT !.kind = x]) /\ IsEntry([e EXCEPT !.data = x])
         /\ IsEntry([e EXCEPT !.mode = x]) /\ IsEntry([e EXCEPT !.stored = x])
         /\ IsEntry([e EXCEPT !.access = x]) /\ IsEntry([e EXCEPT !.disk = x])
         /\ x \subseteq Versions => IsEntry([e EXCEPT !.known = x])
         /\ x \subseteq Versions => IsEntry([e EXCEPT !.cvsKnown = x])
<1>1. IsEntry([e EXCEPT !.kind = x]) /\ IsEntry([e EXCEPT !.data = x])
  BY DEF IsEntry
<1>2. IsEntry([e EXCEPT !.mode = x]) /\ IsEntry([e EXCEPT !.stored = x])
  BY DEF IsEntry
<1>3. IsEntry([e EXCEPT !.access = x]) /\ IsEntry([e EXCEPT !.disk = x])
  BY DEF IsEntry
<1>4. x \subseteq Versions => IsEntry([e EXCEPT !.known = x]) /\ IsEntry([e EXCEPT !.cvsKnown = x])
  BY DEF IsEntry
<1> QED
  BY <1>1, <1>2, <1>3, <1>4

LEMMA SetDataEntry ==
  ASSUME NEW e, IsEntry(e)
  PROVE  IsEntry(SetData(e))
<1> DEFINE e1 == [e EXCEPT !.data = e.stored]
<1>1. IsEntry(e1)
  BY EntryChanged
<1>2. SetData(e) = [e1 EXCEPT !.mode = e.access]
  BY DEF SetData
<1> HIDE DEF e1
<1>3. ASSUME NEW x PROVE IsEntry([e1 EXCEPT !.mode = x])
  BY <1>1, EntryChanged
<1> QED
  BY <1>2, <1>3, Zenon

LEMMA EntriesChanged ==
  ASSUME NEW f, Entries(f), NEW n, NEW x
  PROVE  /\ IsEntry(x) => Entries([f EXCEPT ![n] = x])
         /\ Entries([f EXCEPT ![n].disk = x]) /\ Entries([f EXCEPT ![n].stored = x])
         /\ x \subseteq Versions => Entries([f EXCEPT ![n].known = x])
<1>1. IsEntry(x) => Entries([f EXCEPT ![n] = x])
  BY DEF Entries
<1>2. Entries([f EXCEPT ![n].disk = x])
  BY EntryChanged DEF Entries
<1>3. Entries([f EXCEPT ![n].stored = x])
  BY EntryChanged DEF Entries
<1>4. x \subseteq Versions => Entries([f EXCEPT ![n].known = x])
  BY EntryChanged DEF Entries
<1> QED
  BY <1>1, <1>2, <1>3, <1>4
----------------------------------------------------------------------------
(* The dentry cache after a step, for what the step makes of it. *)
LEMMA KernelKeeps ==
  ASSUME NEW dn, NEW h, NEW hd, NEW c, Kernel(dn, h, hd, c), Dentries(dn), Calls(c),
         h = [n \in Names |-> h[n]], \A n \in Names : h[n] \in Ids \cup {0},
         hd = [q \in Procs |-> hd[q]], \A q \in Procs : hd[q] \in Ids \cup {0},
         \A i \in Ids \cap Used(h, hd, c) : dn[i].name \in Names
  PROVE  /\ Dentries(dentry') /\ Calls(call') /\ call' = c
         /\ hash' = [n \in Names |-> hash'[n]] /\ \A n \in Names : hash'[n] \in Ids \cup {0}
         /\ held' = [q \in Procs |-> held'[q]] /\ \A q \in Procs : held'[q] \in Ids \cup {0}
         /\ \A i \in Ids \cap InUse' : dentry'[i].name \in Names
         /\ \A i \in Ids \cap Used(h, hd, c) : dentry'[i] = dn[i]
<1> DEFINE used == Used(h, hd, c)
<1>1. hash' = h /\ held' = hd /\ call' = c /\ dentry' = [i \in Ids |-> IF i \in used THEN dn[i] ELSE Unused]
  BY DEF Kernel
<1>2. InUse' = used
  BY <1>1 DEF InUse, Used
<1> HIDE DEF used
<1>3. Dentries(dentry')
  BY <1>1, NoFields DEF Dentries
<1>4. \A i \in Ids \cap used : dentry'[i] = dn[i]
  BY <1>1
<1>5. \A i \in Ids \cap InUse' : dentry'[i].name \in Names
  <2>1. \A i \in Ids \cap used : dn[i].name \in Names
    BY DEF used
  <2> QED
    BY <1>2, <1>4, <2>1
<1> QED
  BY <1>1, <1>3, <1>4, <1>5 DEF used

(* A step over a cache that keeps the versions of what the calls work with,*)
(* and whose calls have their lines.                                       *)
LEMMA CacheKeeps ==
  ASSUME NEW T, Inv(T), Entries(entry'), written' \in Nat,
         NEW dn, NEW h, NEW hd, NEW cs, Kernel(dn, h, hd, cs), Dentries(dn), Calls(cs),
         h = [n \in Names |-> h[n]], \A n \in Names : h[n] \in Ids \cup {0},
         hd = [q \in Procs |-> hd[q]], \A q \in Procs : hd[q] \in Ids \cup {0},
         \A i \in Ids \cap Used(h, hd, cs) : dn[i].name \in Names,
         \A i \in Ids \cap InUse : dn[i].attr.version = Version(i),
         \A q \in Procs :
           /\ cs[q].d # 0 => cs[q].d \in InUse
           /\ cs[q].key \in Dated => cs[q].d # 0
           /\ Plain(cs[q].name) => OfLine(T, cs[q], Version(cs[q].d))
  PROVE  Inv(T)'
<1>1. \A q \in Procs : cs[q].d \in Used(h, hd, cs)
  BY DEF Used
<1>2. /\ Dentries(dentry') /\ Calls(call') /\ call' = cs
      /\ hash' = [n \in Names |-> hash'[n]] /\ \A n \in Names : hash'[n] \in Ids \cup {0}
      /\ held' = [q \in Procs |-> held'[q]] /\ \A q \in Procs : held'[q] \in Ids \cup {0}
      /\ \A i \in Ids \cap InUse' : dentry'[i].name \in Names
      /\ \A i \in Ids \cap Used(h, hd, cs) : dentry'[i] = dn[i]
  BY KernelKeeps
<1>3. ASSUME NEW q \in Procs, cs[q].d # 0
      PROVE  dentry'[cs[q].d].attr.version = Version(cs[q].d)
  <2>1. cs[q].d \in Ids
    BY <1>3 DEF Calls, IsCall
  <2> QED
    BY <1>1, <1>2, <1>3, <2>1
<1>4. Lines(T)'
  <2> SUFFICES ASSUME NEW q \in Procs
               PROVE  /\ call'[q].key \in Dated => call'[q].d # 0
                      /\ Plain(call'[q].name) =>
                           OfLine(T, call'[q], dentry'[call'[q].d].attr.version)
    BY DEF Lines, Version
  <2>1. CASE cs[q].d # 0
    <3>1. dentry'[cs[q].d].attr.version = Version(cs[q].d)
      BY <1>3, <2>1
    <3> QED
      BY <1>2, <3>1
  <2>2. CASE cs[q].d = 0
    <3>1. cs[q].key \notin Dated
      BY <2>2
    <3>2. OfLine(T, cs[q], Version(cs[q].d)) => OfLine(T, cs[q], dentry'[cs[q].d].attr.version)
      BY <3>1 DEF OfLine, Dated
    <3> QED
      BY <1>2, <3>1, <3>2
  <2> QED
    BY <2>1, <2>2
<1> QED
  BY <1>2, <1>4 DEF Inv

(* The calls that there are have their lines. *)
LEMMA CallsReady ==
  ASSUME NEW T, Inv(T), NEW q \in Procs
  PROVE  /\ call[q].d # 0 => call[q].d \in InUse
         /\ call[q].key \in Dated => call[q].d # 0
         /\ Plain(call[q].name) => OfLine(T, call[q], Version(call[q].d))
<1>1. call[q].d \in InUse
  BY DEF InUse, Used
<1> QED
  BY <1>1 DEF Inv, Lines

(* A step that ends or changes the call of p. *)
LEMMA StepKeeps ==
  ASSUME NEW T, Inv(T), Entries(entry'), written' \in Nat,
         NEW p \in Procs, NEW dn, NEW h, NEW hd, NEW c,
         Kernel(dn, h, hd, [call EXCEPT ![p] = c]), Dentries(dn), IsCall(c),
         h = [n \in Names |-> h[n]], \A n \in Names : h[n] \in Ids \cup {0},
         hd = [q \in Procs |-> hd[q]], \A q \in Procs : hd[q] \in Ids \cup {0},
         \A i \in Ids \cap Used(h, hd, [call EXCEPT ![p] = c]) : dn[i].name \in Names,
         \A i \in Ids \cap InUse : dn[i].attr.version = Version(i),
         c.d # 0 => c.d \in InUse, c.key \in Dated => c.d # 0,
         Plain(c.name) => OfLine(T, c, Version(c.d))
  PROVE  Inv(T)'
<1> DEFINE cs == [call EXCEPT ![p] = c]
<1>1. Calls(cs) /\ cs[p] = c /\ \A q \in Procs \ {p} : cs[q] = call[q]
  BY DEF Inv, Calls
<1>2. Kernel(dn, h, hd, cs) /\ \A i \in Ids \cap Used(h, hd, cs) : dn[i].name \in Names
  OBVIOUS
<1> HIDE DEF cs
<1>3. ASSUME NEW q \in Procs
      PROVE  /\ cs[q].d # 0 => cs[q].d \in InUse
             /\ cs[q].key \in Dated => cs[q].d # 0
             /\ Plain(cs[q].name) => OfLine(T, cs[q], Version(cs[q].d))
  BY <1>1, CallsReady
<1> QED
  BY <1>1, <1>2, <1>3, CacheKeeps
----------------------------------------------------------------------------
(* The call of p changes, but not what it works with, and the cache not at *)
(* all.                                                                    *)
LEMMA CallChanges ==
  ASSUME NEW T, Inv(T), Entries(entry'), written' \in Nat, UNCHANGED kernel,
         NEW p \in Procs, NEW c, call' = [call EXCEPT ![p] = c],
         IsCall(c), c.d = call[p].d, c.target = call[p].target,
         c.key \in Dated => c.d # 0, Plain(c.name) => OfLine(T, c, Version(c.d))
  PROVE  Inv(T)'
<1>1. /\ Calls(call') /\ call'[p] = c /\ \A q \in Procs \ {p} : call'[q] = call[q]
      /\ UNCHANGED <<dentry, hash, held>>
  BY DEF Inv, Calls, kernel
<1>2. InUse' = InUse
  <2>1. \A q \in Procs : call'[q].d = call[q].d /\ call'[q].target = call[q].target
    BY <1>1
  <2> QED
    BY <1>1, <2>1 DEF InUse, Used
<1>3. Lines(T)'
  <2> SUFFICES ASSUME NEW q \in Procs
               PROVE  /\ call'[q].key \in Dated => call'[q].d # 0
                      /\ Plain(call'[q].name) =>
                           OfLine(T, call'[q], dentry[call'[q].d].attr.version)
    BY <1>1 DEF Lines, Version
  <2>1. CASE q # p
    BY <1>1, <2>1 DEF Inv, Lines, Version
  <2>2. CASE q = p
    BY <1>1, <2>2 DEF Version
  <2> QED
    BY <2>1, <2>2
<1> QED
  BY <1>1, <1>2, <1>3 DEF Inv

(* The daemon answers. *)
LEMMA CallAnswered ==
  ASSUME NEW x, IsCall(x), x.key # "idle", NEW reply,
         x.key \in {"attr", "mkfile"} => IsAttr(reply.attr)
  PROVE  LET c == [x EXCEPT !.stage = "answered", !.reply = reply]
         IN  /\ IsCall(c) /\ c.key = x.key /\ c.d = x.d /\ c.target = x.target
             /\ c.name = x.name /\ c.to = x.to /\ c.line = x.line
<1> DEFINE c == [x EXCEPT !.stage = "answered", !.reply = reply]
<1>1. PICK k, d, t, n, to, l, s, r, m, w :
        x = [key |-> k, d |-> d, target |-> t, name |-> n, to |-> to, line |-> l,
             stage |-> s, reply |-> r, more |-> m, read |-> w]
  BY DEF IsCall
<1>2. c = [key |-> k, d |-> d, target |-> t, name |-> n, to |-> to, line |-> l,
           stage |-> "answered", reply |-> reply, more |-> m, read |-> w]
  <2> DEFINE y == [x EXCEPT !.stage = "answered"]
  <2>1. y = [key |-> k, d |-> d, target |-> t, name |-> n, to |-> to, line |-> l,
             stage |-> "answered", reply |-> r, more |-> m, read |-> w]
    BY <1>1
  <2>2. c = [y EXCEPT !.reply = reply]
    OBVIOUS
  <2> HIDE DEF y, c
  <2> QED
    BY <2>1, <2>2
<1>3. /\ c.key = x.key /\ c.d = x.d /\ c.target = x.target /\ c.name = x.name
      /\ c.to = x.to /\ c.line = x.line /\ c.stage = "answered" /\ c.reply = reply
      /\ c.more = x.more
  BY <1>1, <1>2
<1> HIDE DEF c
<1>4. IsCall(c)
  <2>1. c = [key |-> c.key, d |-> c.d, target |-> c.target, name |-> c.name, to |-> c.to,
             line |-> c.line, stage |-> c.stage, reply |-> c.reply, more |-> c.more,
             read |-> c.read]
    BY <1>2
  <2> QED
    BY <1>3, <2>1 DEF IsCall
<1> QED
  BY <1>3, <1>4 DEF c

LEMMA AnswerKeeps ==
  ASSUME NEW T, Inv(T), NEW p \in Procs, call[p].stage = "sent", Entries(entry'),
         NEW reply, Answer(p, reply),
         call[p].key \in {"attr", "mkfile"} => IsAttr(reply.attr)
  PROVE  Inv(T)'
<1>1. IsCall(call[p]) /\ call[p].key # "idle"
  BY DEF Inv, Calls, IsCall
<1> DEFINE c == [call[p] EXCEPT !.stage = "answered", !.reply = reply]
<1>3. IsCall(c) /\ c.key = call[p].key /\ c.d = call[p].d /\ c.target = call[p].target
      /\ c.name = call[p].name /\ c.to = call[p].to /\ c.line = call[p].line
  BY <1>1, CallAnswered
<1>4. call' = [call EXCEPT ![p] = c]
  BY DEF Answer
<1> HIDE DEF c
<1>5. Plain(c.name) => OfLine(T, c, Version(c.d))
  <2>1. Plain(call[p].name) => OfLine(T, call[p], Version(call[p].d))
    BY CallsReady
  <2> QED
    BY <1>3, <2>1 DEF OfLine
<1>6. /\ written' \in Nat /\ UNCHANGED kernel
      /\ c.key \in Dated => c.d # 0
  BY <1>3, CallsReady DEF Inv, Answer
<1> QED
  BY <1>3, <1>4, <1>5, <1>6, CallChanges

LEMMA AnswersKeep ==
  ASSUME NEW T, Inv(T), NEW p \in Procs, call[p].stage = "sent", Entries(entry'),
         NEW reply, NEW seen, Answers(p, reply, seen),
         call[p].key \in {"attr", "mkfile"} => IsAttr(reply.attr)
  PROVE  Inv(T)'
<1>1. CASE Answer(p, reply)
  BY <1>1, AnswerKeeps
<1>2. CASE Answer(p, Lost)
  BY <1>2, AnswerKeeps, NoFields DEF Lost, Reply
<1> QED
  BY <1>1, <1>2 DEF Answers

LEMMA FailsKeep ==
  ASSUME NEW T, Inv(T), NEW p \in Procs, call[p].stage = "sent", Entries(entry'),
         NEW reply, Fails(p, reply),
         call[p].key \in {"attr", "mkfile"} => IsAttr(reply.attr)
  PROVE  Inv(T)'
  BY AnswerKeeps DEF Fails

(* What the daemon lists stays a listing. *)
LEMMA ListingKept ==
  ASSUME Entries(entry), NEW n, NEW x, NEW g,
         \/ IsEntry(x) /\ g = [entry EXCEPT ![n] = x]
         \/ g = [entry EXCEPT ![n].disk = x] \/ g = entry
  PROVE  Entries(g)
<1>1. /\ IsEntry(x) => Entries([entry EXCEPT ![n] = x])
      /\ Entries([entry EXCEPT ![n].disk = x])
  BY EntriesChanged, Zenon
<1> QED
  BY <1>1, Zenon

LEMMA LoadedEntries ==
  ASSUME NEW r, Entries(entry)
  PROVE  Entries(Loaded(r))
<1>1. CASE Found(r) /\ Loads(r)
  <2>1. r.name \in Files /\ Real(r.version) \in Versions
    BY <1>1 DEF Found, Loads, Exists
  <2>2. entry[r.name].known \cup {Real(r.version)} \subseteq Versions
    BY <2>1 DEF Entries, IsEntry
  <2>3. Loaded(r) = [entry EXCEPT ![r.name].known = entry[r.name].known \cup {Real(r.version)}]
    BY <1>1, <2>1 DEF Loaded, Entries
  <2>4. ASSUME NEW x, x \subseteq Versions
        PROVE  Entries([entry EXCEPT ![r.name].known = x])
    BY <2>4, EntriesChanged
  <2> QED
    BY <2>2, <2>3, <2>4, Zenon
<1>2. CASE ~(Found(r) /\ Loads(r))
  BY <1>2 DEF Loaded
<1> QED
  BY <1>1, <1>2

LEMMA EntryWithCvs ==
  ASSUME NEW k, NEW s \in SUBSET Versions
  PROVE  /\ IsEntry([Entry(k, <<>>, <<>>, "rw") EXCEPT !.cvsKnown = s])
         /\ IsEntry([Remote EXCEPT !.known = s, !.cvsKnown = s])
<1>1. IsEntry([Entry(k, <<>>, <<>>, "rw") EXCEPT !.cvsKnown = s])
  BY NoFields, EntryChanged
<1>2. IsEntry([Remote EXCEPT !.known = s])
  BY NoFields, EntryChanged
<1>3. [Remote EXCEPT !.known = s, !.cvsKnown = s] = [[Remote EXCEPT !.known = s] EXCEPT !.cvsKnown = s]
  OBVIOUS
<1> QED
  BY <1>1, <1>2, <1>3, EntryChanged

LEMMA PopUpEntry ==
  ASSUME NEW n \in Files, Entries(entry)
  PROVE  IsEntry(PopUp(n))
<1>1. entry[n].cvsKnown \in SUBSET Versions
  BY DEF Entries, IsEntry
<1> QED
  BY <1>1, EntryWithCvs, NoFields DEF PopUp

LEMMA UnlistedEntry ==
  ASSUME NEW n \in Files, Entries(entry)
  PROVE  IsEntry(Unlisted(n))
<1>1. entry[n].cvsKnown \in SUBSET Versions
  BY DEF Entries, IsEntry
<1> QED
  BY <1>1, EntryWithCvs DEF Unlisted, Missing

LEMMA TargetEntry ==
  ASSUME NEW n \in Files, NEW r \in Files, Entries(entry)
  PROVE  IsEntry(Target(n, r)) /\ IsEntry(Renamed(n, r))
<1> DEFINE k == IF entry[n].kind = "dir" THEN "dir" ELSE "local"
           e0 == Entry(k, <<>>, <<>>, "rw")
           e1 == Entry(k, <<>>, entry[n].data, entry[n].mode)
           new == [e1 EXCEPT !.cvsKnown = entry[r].cvsKnown]
           t == Target(n, r)
           t1 == [t EXCEPT !.disk = entry[n].disk]
           t2 == [t1 EXCEPT !.stored = entry[n].stored]
           t3 == [t2 EXCEPT !.access = entry[n].access]
<1>1. IsEntry(entry[r]) /\ entry[r].cvsKnown \subseteq Versions
  BY DEF Entries, IsEntry
<1>2. IsEntry(e1)
  BY NoFields DEF IsEntry, Entry
<1>3. IsEntry(new)
  <2> HIDE DEF e1
  <2> QED
    BY <1>1, <1>2, EntryChanged
<1>4. t = entry[r] \/ t = new
  BY DEF Target
<1>5. Renamed(n, r) = t \/ Renamed(n, r) = t3
  BY DEF Renamed
<1> HIDE DEF new, t
<1>6. IsEntry(t)
  BY <1>1, <1>3, <1>4
<1>7. IsEntry(t1)
  BY <1>6, EntryChanged
<1> HIDE DEF t1
<1>8. IsEntry(t2)
  BY <1>7, EntryChanged
<1> HIDE DEF t2
<1>9. IsEntry(t3)
  BY <1>8, EntryChanged
<1> HIDE DEF t3
<1> QED
  BY <1>5, <1>6, <1>9 DEF t

LEMMA MovedEntries ==
  ASSUME NEW n \in Files, NEW r \in Files, Entries(entry)
  PROVE  Entries(Moved(n, r)) /\ Entries(HalfMoved(n, r))
<1> DEFINE x == Renamed(n, r)  y == SetData(x)
           f == [entry EXCEPT ![r] = x]  g == [entry EXCEPT ![r] = y]
           h == [f EXCEPT ![n].disk = "none"]
<1>1. IsEntry(x) /\ IsEntry(y) /\ IsEntry(PopUp(n))
  BY TargetEntry, SetDataEntry, PopUpEntry
<1>2. Moved(n, r) = [g EXCEPT ![n] = PopUp(n)] /\ HalfMoved(n, r) = [h EXCEPT ![n].stored = <<>>]
  BY DEF Moved, HalfMoved
<1> HIDE DEF x, y
<1>3. Entries(f) /\ Entries(g)
  BY <1>1, EntriesChanged
<1> HIDE DEF f, g
<1>4. Entries([g EXCEPT ![n] = PopUp(n)]) /\ Entries(h)
  BY <1>1, <1>3, EntriesChanged
<1> HIDE DEF h
<1>5. Entries([h EXCEPT ![n].stored = <<>>])
  BY <1>4, EntriesChanged
<1> QED
  BY <1>2, <1>4, <1>5

LEMMA CheckedOutEntry ==
  ASSUME NEW r, r.name \in Files, Entries(entry)
  PROVE  IsEntry(CheckedOut(r).entry)
<1> DEFINE e == entry[r.name]  v == Real(r.version)  found == Editable(r.name)
           known == IF found THEN e.cvsKnown ELSE e.known
           learnt == IF v \in Versions THEN known \cup {v} ELSE known
           done == r.name \in CvsFiles /\ v \in known
<1>1. IsEntry(e)
  BY DEF Entries
<1>2. known \in SUBSET Versions /\ learnt \in SUBSET Versions /\ e.cvsKnown \in SUBSET Versions
  BY <1>1 DEF IsEntry
<1>3. CheckedOut(r).entry =
        IF done THEN [Entry("out", v, v, "rw") EXCEPT !.cvsKnown = e.cvsKnown]
        ELSE IF ~found THEN [e EXCEPT !.known = learnt]
        ELSE [Missing EXCEPT !.cvsKnown = IF r.name \in CvsFiles THEN learnt ELSE {}]
  BY DEF CheckedOut
<1>4. done => IsEntry([Entry("out", v, v, "rw") EXCEPT !.cvsKnown = e.cvsKnown])
  <2>1. ASSUME done PROVE IsEntry(Entry("out", v, v, "rw"))
    BY <1>2, <2>1 DEF IsEntry, Entry, Stamps
  <2> QED
    BY <1>2, <2>1, EntryChanged
<1>5. IsEntry([e EXCEPT !.known = learnt])
  BY <1>1, <1>2, EntryChanged
<1>6. IsEntry([Missing EXCEPT !.cvsKnown = IF r.name \in CvsFiles THEN learnt ELSE {}])
  BY <1>2, EntryWithCvs DEF Missing
<1> HIDE DEF e, v, found, known, learnt, done
<1> QED
  BY <1>3, <1>4, <1>5, <1>6

(* An answer about a file carries one of its versions, or none. *)
LEMMA AttributeFields ==
  ASSUME NEW d, NEW x, NEW m, NEW v \in Stamps
  PROVE  IsAttr(Attribute(d, x, m, v))
BY DEF IsAttr, Attribute

LEMMA EntryAttributes ==
  ASSUME NEW e, e.version \in Stamps
  PROVE  IsAttr(Attributes(e))
<1>1. HeadVersion \in Stamps
  BY VfsAssumption DEF Stamps
<1>2. CASE e.kind = "remote"
  BY <1>1, <1>2, AttributeFields DEF Attributes
<1>3. CASE e.kind # "remote"
  <2> DEFINE b == e.kind \in {"dir", "phantom"}
  <2>1. Attributes(e) = Attribute(b, e.data, e.mode, e.version)
    BY <1>3 DEF Attributes
  <2> HIDE DEF b
  <2> QED
    BY <2>1, AttributeFields
<1> QED
  BY <1>2, <1>3

LEMMA DescribedAttributes ==
  ASSUME NEW r, Entries(entry), Found(r)
  PROVE  IsAttr(Described(r).attr)
<1>1. r.name \in Files /\ IsEntry(entry[r.name])
  BY DEF Found, Exists, Entries
<1>2. CASE Loads(r)
  <2>1. Described(r).attr = Attribute(FALSE, Real(r.version), "rw", Real(r.version))
    BY <1>2 DEF Described, Reply
  <2>2. Real(r.version) \in Stamps
    BY <1>2 DEF Found, Stamps
  <2> QED
    BY <2>1, <2>2, AttributeFields
<1>3. CASE ~Loads(r) /\ entry[r.name].kind = "remote" /\ HeadVersion \notin entry[r.name].known
  BY <1>3, NoFields DEF Described, None, Reply
<1>4. CASE ~Loads(r) /\ ~(entry[r.name].kind = "remote" /\ HeadVersion \notin entry[r.name].known)
  <2>1. Described(r).attr = Attributes(entry[r.name])
    BY <1>4 DEF Described, Reply
  <2>2. entry[r.name].version \in Stamps
    BY <1>1 DEF IsEntry
  <2> QED
    BY <2>1, <2>2, EntryAttributes
<1> QED
  BY <1>2, <1>3, <1>4

LEMMA ServeInv ==
  ASSUME NEW T, Inv(T), NEW p \in Procs, Serve(p)
  PROVE  Inv(T)'
<1>1. Entries(entry)
  BY DEF Inv
<1>2. CASE Attr(p)
  <2> DEFINE r == ParseName(call[p].line)
  <2>1. Entries(entry') /\ call[p].stage = "sent"
    BY <1>1, <1>2, LoadedEntries DEF Attr, Serving
  <2>2. CASE Found(r)
    <3>1. IsAttr(Described(r).attr)
      BY <1>1, <2>2, DescribedAttributes
    <3>2. \E seen : Answers(p, Described(r), seen)
      BY <1>2, <2>2 DEF Attr
    <3> QED
      BY <2>1, <3>1, <3>2, AnswersKeep
  <2>3. CASE ~Found(r)
    <3>1. Answers(p, None, {}) /\ IsAttr(None.attr)
      BY <1>2, <2>3, NoFields DEF Attr, None, Reply
    <3> QED
      BY <2>1, <3>1, AnswersKeep
  <2> QED
    BY <2>2, <2>3
<1>3. ASSUME NEW key, NEW kind, Make(p, key, kind)
      PROVE  Inv(T)'
  <2> DEFINE r == ParseMode(call[p].line)  new == Entry(kind, <<>>, <<>>, "rw")
             made(e) == [entry EXCEPT ![r.name] = [e EXCEPT !.cvsKnown = entry[r.name].cvsKnown]]
  <2>1. call[p].stage = "sent" /\ IsAttr(None.attr)
    BY <1>3, NoFields DEF Make, Serving, None, Reply
  <2>2. IsAttr(Reply("attr", Attributes(new)).attr)
    <3>1. new.version \in Stamps
      BY NoFields DEF Entry
    <3> HIDE DEF new
    <3>2. IsAttr(Attributes(new))
      BY <3>1, EntryAttributes
    <3> QED
      BY <3>2 DEF Reply
  <2>3. \A k : r.name \in Files => Entries(made(Entry(k, <<>>, <<>>, "rw")))
    <3> SUFFICES ASSUME NEW k, r.name \in Files
                 PROVE  Entries(made(Entry(k, <<>>, <<>>, "rw")))
      OBVIOUS
    <3>1. entry[r.name].cvsKnown \in SUBSET Versions
      BY <1>1 DEF Entries, IsEntry
    <3>2. IsEntry([Entry(k, <<>>, <<>>, "rw") EXCEPT !.cvsKnown = entry[r.name].cvsKnown])
      BY <3>1, EntryWithCvs
    <3> QED
      BY <1>1, <3>2, ListingKept, Zenon
  <2>4. \/ entry' = Loaded(r) /\ Answers(p, None, {})
        \/ /\ r.name \in Files /\ entry' = made(new)
           /\ Answers(p, Reply("attr", Attributes(new)), {})
        \/ r.name \in Files /\ entry' = made(Entry("phantom", <<>>, <<>>, "rw")) /\ Fails(p, None)
        \/ entry' = entry /\ Fails(p, Reply("attr", Attributes(new)))
    BY <1>3 DEF Make
  <2>5. Entries(entry')
    <3> HIDE DEF made, r
    <3> QED
      BY <1>1, <2>3, <2>4, LoadedEntries
  <2>6. \E reply : /\ Answers(p, reply, {}) \/ Fails(p, reply)
                   /\ IsAttr(reply.attr)
    <3> HIDE DEF made, r, new
    <3> QED
      BY <2>1, <2>2, <2>4
  <2> QED
    BY <2>1, <2>5, <2>6, AnswersKeep, FailsKeep
<1>4. ASSUME call[p].stage = "sent", call[p].key \notin {"attr", "mkfile"}, Entries(entry'),
             NEW reply, NEW seen, Answers(p, reply, seen) \/ Fails(p, reply)
      PROVE  Inv(T)'
  BY <1>4, AnswersKeep, FailsKeep
<1>5. CASE Rmfile(p)
  <2> DEFINE r == ParseName(call[p].line)
  <2>1. CASE Found(r) /\ Writable(r.name)
    <3>1. /\ entry' = [entry EXCEPT ![r.name] = PopUp(r.name)] /\ Answers(p, Ok, {})
          /\ call[p].stage = "sent" /\ call[p].key = "rmfile" /\ r.name \in Files
      BY <1>5, <2>1 DEF Rmfile, Serving, Found, Exists
    <3>2. Entries(entry')
      BY <1>1, <3>1, PopUpEntry, EntriesChanged
    <3> QED
      BY <1>4, <3>1, <3>2
  <2>2. CASE ~(Found(r) /\ Writable(r.name))
    BY <1>1, <1>4, <1>5, <2>2, LoadedEntries DEF Rmfile, Serving
  <2> QED
    BY <2>1, <2>2
<1>6. CASE Rmdir(p)
  <2> DEFINE r == ParseName(call[p].line)
  <2>1. /\ call[p].stage = "sent" /\ call[p].key = "rmdir"
        /\ \E reply : Answers(p, reply, {}) \/ Fails(p, reply)
    BY <1>6 DEF Rmdir, Serving
  <2>2. \/ r.name \in Files /\ entry' = [entry EXCEPT ![r.name].disk = "none"]
        \/ r.name \in Files /\ entry' = [entry EXCEPT ![r.name] = Unlisted(r.name)]
        \/ entry' = Loaded(r)
    BY <1>6 DEF Rmdir, Exists
  <2>3. Entries(entry')
    <3>1. ASSUME r.name \in Files PROVE IsEntry(Unlisted(r.name))
      BY <1>1, <3>1, UnlistedEntry
    <3>2. Entries(Loaded(r))
      BY <1>1, LoadedEntries
    <3> QED
      BY <1>1, <2>2, <3>1, <3>2, ListingKept, Zenon
  <2> QED
    BY <1>4, <2>1, <2>3
<1>15. ASSUME NEW n \in Files, NEW e, IsEntry(e), Changes(p, n, e)
       PROVE  Entries(entry') /\ \E reply : Answers(p, reply, {}) \/ Fails(p, reply)
  <2>1. entry' = [entry EXCEPT ![n] = SetData(e)] \/ entry' = [entry EXCEPT ![n] = e]
    BY <1>15 DEF Changes
  <2>2. \E reply : Answers(p, reply, {}) \/ Fails(p, reply)
    BY <1>15 DEF Changes
  <2>3. Entries([entry EXCEPT ![n] = SetData(e)]) /\ Entries([entry EXCEPT ![n] = e])
    <3>1. IsEntry(SetData(e))
      BY <1>15, SetDataEntry
    <3> QED
      BY <1>1, <1>15, <3>1, EntriesChanged
  <2> QED
    BY <2>1, <2>2, <2>3, Zenon
<1>7. CASE Truncfile(p)
  <2> DEFINE r == ParseName(call[p].line)  e == entry[r.name]
             e1 == [e EXCEPT !.stored = <<>>]
             e2 == [e1 EXCEPT !.access = e.mode]
             e3 == [e2 EXCEPT !.disk = "file"]
  <2>1. call[p].stage = "sent" /\ call[p].key = "truncfile"
    BY <1>7 DEF Truncfile, Serving
  <2>2. \/ r.name \in Files /\ Changes(p, r.name, e3)
        \/ entry' = Loaded(r) /\ \E reply : Answers(p, reply, {})
    BY <1>7 DEF Truncfile, Exists
  <2>3. ASSUME r.name \in Files PROVE IsEntry(e3)
    <3>1. IsEntry(e)
      BY <1>1, <2>3 DEF Entries
    <3> HIDE DEF e
    <3>2. IsEntry(e1)
      BY <3>1, EntryChanged
    <3> HIDE DEF e1
    <3>3. IsEntry(e2)
      BY <3>2, EntryChanged
    <3> HIDE DEF e2
    <3> QED
      BY <3>3, EntryChanged
  <2> HIDE DEF e3, r
  <2>4. Entries(entry') /\ \E reply : Answers(p, reply, {}) \/ Fails(p, reply)
    BY <1>1, <1>15, <2>2, <2>3, LoadedEntries
  <2> QED
    BY <1>4, <2>1, <2>4
<1>8. CASE Move(p)
  <2> DEFINE r == ParseMove(call[p].line)  to == MoveTarget(call[p].line)
  <2>1. /\ call[p].stage = "sent" /\ call[p].key = "move"
        /\ \E reply : Answers(p, reply, {}) \/ Fails(p, reply)
    BY <1>8 DEF Move, Serving
  <2>2. /\ to \in Files
        /\ \/ r.name \in Files /\ entry' \in {Moved(r.name, to), HalfMoved(r.name, to)}
           \/ entry' = Loaded(r)
    BY <1>8 DEF Move, CanMove
  <2>3. Entries(entry')
    BY <1>1, <2>2, MovedEntries, LoadedEntries
  <2> QED
    BY <1>4, <2>1, <2>3
<1>9. CASE Get(p)
  <2>1. call[p].stage = "sent" /\ call[p].key = "get" /\ \E reply : Answers(p, reply, {})
    BY <1>9 DEF Get, Serving
  <2>2. Entries(entry')
    BY <1>1, <1>9, LoadedEntries DEF Get
  <2> QED
    BY <1>4, <2>1, <2>2
<1>10. CASE Put(p)
  <2> DEFINE r == ParsePut(call[p].line)  e == entry[r.name]
             e1 == [e EXCEPT !.stored = DataOf(call[p].line)]
             e2 == [e EXCEPT !.stored = <<>>]
  <2>1. call[p].stage = "sent" /\ call[p].key = "put"
    BY <1>10 DEF Put, Serving
  <2>2. \/ r.name \in Files /\ Changes(p, r.name, e1)
        \/ r.name \in Files /\ entry' = [entry EXCEPT ![r.name] = SetData(e2)] /\ Fails(p, Ok)
        \/ entry' = entry /\ Answers(p, Errno, {})
    BY <1>10 DEF Put, Exists
  <2>3. ASSUME r.name \in Files PROVE IsEntry(e1) /\ IsEntry(e2)
    BY <1>1, <2>3, EntryChanged DEF Entries
  <2> HIDE DEF e1, e2, r
  <2>5. ASSUME r.name \in Files PROVE Entries([entry EXCEPT ![r.name] = SetData(e2)])
    <3>1. IsEntry(SetData(e2))
      BY <2>3, <2>5, SetDataEntry
    <3> QED
      BY <1>1, <3>1, EntriesChanged
  <2>4. /\ Entries(entry')
        /\ \E reply : Answers(p, reply, {}) \/ Fails(p, reply)
    BY <1>1, <1>15, <2>2, <2>3, <2>5
  <2> QED
    BY <1>4, <2>1, <2>4
<1>11. CASE Setattr(p)
  <2> DEFINE r == ParseMode(call[p].line)  e == entry[r.name]
             e1 == [e EXCEPT !.access = ModeOf(call[p].line)[1]]
  <2>1. call[p].stage = "sent" /\ call[p].key = "setattr"
    BY <1>11 DEF Setattr, Serving
  <2>2. \/ r.name \in Files /\ Changes(p, r.name, e1)
        \/ entry' = entry /\ Answers(p, Errno, {})
    BY <1>11 DEF Setattr, Exists
  <2>3. ASSUME r.name \in Files PROVE IsEntry(e1)
    BY <1>1, <2>3, EntryChanged DEF Entries
  <2> HIDE DEF e1, r
  <2>4. /\ Entries(entry')
        /\ \E reply : Answers(p, reply, {}) \/ Fails(p, reply)
    BY <1>1, <1>15, <2>2, <2>3
  <2> QED
    BY <1>4, <2>1, <2>4
<1>12. CASE Checkout(p)
  <2> DEFINE r == ParseIoctl(call[p].line)  x == CheckedOut(r).entry
             y == [x EXCEPT !.stored = <<>>]  z == SetData(y)  u == Unlisted(r.name)
  <2>1. /\ call[p].stage = "sent" /\ call[p].key = "ioctl"
        /\ \E reply : Answers(p, reply, {}) \/ Fails(p, reply)
    BY <1>12 DEF Checkout, Serving
  <2>2. \/ /\ r.name \in Files
           /\ \/ entry' = [entry EXCEPT ![r.name] = x] \/ entry' = [entry EXCEPT ![r.name] = z]
              \/ entry' = [entry EXCEPT ![r.name] = u]
        \/ entry' = entry
    BY <1>12 DEF Checkout, Exists
  <2>3. Entries(entry')
    <3>1. ASSUME r.name \in Files PROVE IsEntry(x) /\ IsEntry(u)
      BY <1>1, <3>1, CheckedOutEntry, UnlistedEntry
    <3> HIDE DEF x, u
    <3>2. ASSUME r.name \in Files PROVE IsEntry(y)
      BY <3>1, <3>2, EntryChanged
    <3> HIDE DEF y
    <3>3. ASSUME r.name \in Files PROVE IsEntry(z)
      BY <3>2, <3>3, SetDataEntry
    <3> HIDE DEF z, r
    <3> QED
      BY <1>1, <2>2, <3>1, <3>3, ListingKept, Zenon
  <2> QED
    BY <1>4, <2>1, <2>3
<1>13. CASE OtherIoctl(p)
  <2>1. /\ call[p].stage = "sent" /\ call[p].key = "ioctl" /\ entry' = entry
        /\ \E reply : Answers(p, reply, {})
    BY <1>13 DEF OtherIoctl, Serving
  <2> QED
    BY <1>1, <1>4, <2>1
<1>14. CASE NotDone(p)
  <2>1. \E reply : /\ Fails(p, reply)
                   /\ call[p].key \in {"attr", "mkfile"} => reply = None
    BY <1>14 DEF NotDone
  <2>2. call[p].stage = "sent" /\ Entries(entry') /\ IsAttr(None.attr)
    BY <1>1, <1>14, NoFields DEF NotDone, None, Reply
  <2> QED
    BY <2>1, <2>2, FailsKeep
<1> QED
  BY <1>2, <1>3, <1>5, <1>6, <1>7, <1>8, <1>9, <1>10, <1>11, <1>12, <1>13, <1>14
     DEF Serve, Mkfile, Mkdir
----------------------------------------------------------------------------
(* The call of an operation that begins. *)
Begun(key, d, target, name, to, line) ==
  [Idle EXCEPT !.key = key, !.d = d, !.target = target, !.name = name,
               !.to = to, !.line = line, !.stage = "sent"]

IsRecord(c) ==
  c = [key |-> c.key, d |-> c.d, target |-> c.target, name |-> c.name, to |-> c.to,
       line |-> c.line, stage |-> c.stage, reply |-> c.reply, more |-> c.more,
       read |-> c.read]

LEMMA FieldSet ==
  ASSUME NEW c, IsRecord(c), NEW x
  PROVE  /\ IsRecord([c EXCEPT !.key = x])
         /\ IsRecord([c EXCEPT !.d = x])
         /\ IsRecord([c EXCEPT !.target = x])
         /\ IsRecord([c EXCEPT !.name = x])
         /\ IsRecord([c EXCEPT !.to = x])
         /\ IsRecord([c EXCEPT !.line = x])
         /\ IsRecord([c EXCEPT !.stage = x])
         /\ IsRecord([c EXCEPT !.reply = x])
         /\ IsRecord([c EXCEPT !.more = x])
         /\ IsRecord([c EXCEPT !.read = x])
<1>1. IsRecord([c EXCEPT !.key = x])
  BY DEF IsRecord
<1>2. IsRecord([c EXCEPT !.d = x])
  BY DEF IsRecord
<1>3. IsRecord([c EXCEPT !.target = x])
  BY DEF IsRecord
<1>4. IsRecord([c EXCEPT !.name = x])
  BY DEF IsRecord
<1>5. IsRecord([c EXCEPT !.to = x])
  BY DEF IsRecord
<1>6. IsRecord([c EXCEPT !.line = x])
  BY DEF IsRecord
<1>7. IsRecord([c EXCEPT !.stage = x])
  BY DEF IsRecord
<1>8. IsRecord([c EXCEPT !.reply = x])
  BY DEF IsRecord
<1>9. IsRecord([c EXCEPT !.more = x]) /\ IsRecord([c EXCEPT !.read = x])
  BY DEF IsRecord
<1> QED
  BY <1>1, <1>2, <1>3, <1>4, <1>5, <1>6, <1>7, <1>8, <1>9

LEMMA BegunCall ==
  ASSUME NEW key, key # "idle", NEW d \in Ids \cup {0}, NEW t \in Ids \cup {0}, NEW n \in Names,
         NEW r, key = "move" => r \in Files, NEW l
  PROVE  LET c == Begun(key, d, t, n, r, l)
         IN  /\ IsCall(c) /\ c.key = key /\ c.d = d /\ c.target = t /\ c.name = n /\ c.to = r
             /\ c.line = l
<1> DEFINE c1 == [Idle EXCEPT !.key = key]
           c2 == [c1 EXCEPT !.d = d]
           c3 == [c2 EXCEPT !.target = t]
           c4 == [c3 EXCEPT !.name = n]
           c5 == [c4 EXCEPT !.to = r]
           c6 == [c5 EXCEPT !.line = l]
           c7 == [c6 EXCEPT !.stage = "sent"]
           c == Begun(key, d, t, n, r, l)
<1>1. c = c7
  BY DEF Begun
<1>2. /\ c.key = key /\ c.d = d /\ c.target = t /\ c.name = n /\ c.to = r /\ c.line = l
      /\ c.stage = "sent" /\ c.reply = None /\ c.more = FALSE /\ c.read = {}
  BY DEF Begun, Idle
<1>3. IsRecord(c)
  <2> HIDE DEF c
  <2>1. IsRecord(Idle)
    BY NoFields DEF IsCall, IsRecord
  <2>2. IsRecord(c1)
    BY <2>1, FieldSet
  <2> HIDE DEF c1
  <2>3. IsRecord(c2)
    BY <2>2, FieldSet
  <2> HIDE DEF c2
  <2>4. IsRecord(c3)
    BY <2>3, FieldSet
  <2> HIDE DEF c3
  <2>5. IsRecord(c4)
    BY <2>4, FieldSet
  <2> HIDE DEF c4
  <2>6. IsRecord(c5)
    BY <2>5, FieldSet
  <2> HIDE DEF c5
  <2>7. IsRecord(c6)
    BY <2>6, FieldSet
  <2> HIDE DEF c6
  <2>8. IsRecord(c7)
    BY <2>7, FieldSet
  <2> QED
    BY <1>1, <2>8
<1> HIDE DEF c
<1>4. IsAttr(None.attr)
  BY NoFields DEF None, Reply
<1>5. IsCall(c)
  BY <1>2, <1>3, <1>4 DEF IsCall, IsRecord
<1> QED
  BY <1>2, <1>5 DEF c

LEMMA BeginKeeps ==
  ASSUME NEW T, Inv(T), NEW p \in Procs, NEW key, key # "idle",
         NEW d \in Ids \cup {0}, NEW t \in Ids \cup {0}, NEW n \in Names,
         NEW r, key = "move" => r \in Files, NEW l, NEW h,
         Kernel(dentry, h, held, Begin(p, key, d, t, n, r, l)), entry' = entry, written' \in Nat,
         h = [m \in Names |-> h[m]], \A m \in Names : h[m] \in {0, hash[m]},
         d # 0 => d \in InUse, t # 0 => t \in InUse, key \in Dated => d # 0,
         Plain(n) => OfLine(T, Begun(key, d, t, n, r, l), Version(d))
  PROVE  Inv(T)'
<1> DEFINE c == Begun(key, d, t, n, r, l)
<1>1. /\ IsCall(c) /\ c.key = key /\ c.d = d /\ c.target = t /\ c.name = n
  BY BegunCall
<1>2. Kernel(dentry, h, held, [call EXCEPT ![p] = c])
  BY DEF Begin, Begun
<1>3. Plain(c.name) => OfLine(T, c, Version(c.d))
  BY <1>1
<1> HIDE DEF c
<1>4. \A i \in Ids \cap Used(h, held, [call EXCEPT ![p] = c]) : dentry[i].name \in Names
  <2> SUFFICES ASSUME NEW i \in Ids, i \in Used(h, held, [call EXCEPT ![p] = c])
               PROVE  i \in InUse
    BY DEF Inv
  <2>1. 0 \notin Ids
    BY NoFields
  <2>2. /\ [call EXCEPT ![p] = c][p] = c
        /\ \A q \in Procs \ {p} : [call EXCEPT ![p] = c][q] = call[q]
    BY DEF Inv, Calls
  <2>3. CASE \E m \in Names : i = h[m]
    BY <2>1, <2>3 DEF InUse, Used
  <2>4. CASE \E q \in Procs : i = held[q]
    BY <2>4 DEF InUse, Used
  <2>5. CASE \E q \in Procs : i \in {[call EXCEPT ![p] = c][q].d, [call EXCEPT ![p] = c][q].target}
    <3>1. PICK q \in Procs : i \in {[call EXCEPT ![p] = c][q].d, [call EXCEPT ![p] = c][q].target}
      BY <2>5
    <3>2. CASE q = p
      BY <1>1, <2>1, <2>2, <3>1, <3>2
    <3>3. CASE q # p
      BY <2>2, <3>1, <3>3 DEF InUse, Used
    <3> QED
      BY <3>2, <3>3
  <2> QED
    BY <2>3, <2>4, <2>5 DEF Used
<1> QED
  <2>1. /\ Entries(entry') /\ Dentries(dentry) /\ held = [q \in Procs |-> held[q]]
        /\ \A q \in Procs : held[q] \in Ids \cup {0} /\ \A m \in Names : h[m] \in Ids \cup {0}
        /\ \A i \in Ids \cap InUse : dentry[i].attr.version = Version(i)
    BY DEF Inv, Version
  <2>2. (c.d # 0 => c.d \in InUse) /\ (c.key \in Dated => c.d # 0)
    BY <1>1
  <2> QED
    BY <1>1, <1>2, <1>3, <1>4, <2>1, <2>2, StepKeeps

(* Names and versions are words for the lines. *)
LEMMA WordsOfTokens ==
  ASSUME NEW T, Tokens(T), NEW n \in Names, NEW v \in Stamps
  PROVE  n \in Seq(T) /\ n # <<>> /\ v \in Seq(T) /\ Plain(v)
<1>1. n # <<>>
  <2>1. ~Has(<<>>, AtAt)
    BY DEF Has
  <2>2. Before(<<>>, AtAt) = <<>>
    BY <2>1, NothingToCut
  <2> QED
    BY <2>2, VfsAssumption
<1>2. v \in Seq(T) /\ Plain(v)
  <2>1. <<>> \in Seq(T) /\ Plain(<<>>)
    BY DEF Plain, Has
  <2> QED
    BY <2>1 DEF Stamps, Tokens
<1> QED
  BY <1>1, <1>2 DEF Tokens

(* The version of the inode of a dentry in use. *)
LEMMA InodeVersion ==
  ASSUME NEW T, Inv(T), NEW i \in Ids
  PROVE  Version(i) \in Stamps /\ (i \in InUse => dentry[i].name \in Names)
BY DEF Inv, Dentries, IsDentry, IsAttr, Version

(* The line that an operation on a directory begins with. *)
LEMMA DirectoryLines ==
  ASSUME NEW T, Tokens(T), NEW d, NEW t, NEW n, NEW r, NEW key, NEW v, NEW l,
         \/ key \in {"attr", "rmfile", "rmdir"} /\ l = NameLine(n)
         \/ key \in {"mkfile", "mkdir"} /\ l = ModeLine(n, "rw")
         \/ key = "move" /\ l = MoveLine(WithVersion(n, v), r),
         LET c == Begun(key, d, t, n, r, l)
         IN  c.key = key /\ c.name = n /\ c.to = r /\ c.line = l
  PROVE  OfLine(T, Begun(key, d, t, n, r, l), v)
<1> DEFINE c == Begun(key, d, t, n, r, l)
<1>1. c.key = key /\ c.name = n /\ c.to = r /\ c.line = l
  OBVIOUS
<1> HIDE DEF c
<1>2. OfLine(T, c, v)
  BY <1>1 DEF OfLine, Keys, DirKeys
<1> QED
  BY <1>2 DEF c

LEMMA FileLines ==
  ASSUME NEW T, Tokens(T), NEW d, NEW n, NEW key, NEW v \in Stamps, NEW l,
         \/ key = "truncfile" /\ l = NameLine(WithVersion(n, v))
         \/ key = "get" /\ l = GetLine(n, v)
         \/ key = "put" /\ \E x \in T : l = PutLine(WithVersion(n, v), v, x)
         \/ key = "setattr" /\ \E mode \in Modes : l = ModeLine(WithVersion(n, v), mode)
         \/ /\ key = "ioctl"
            /\ \E w \in Commands, s \in Stamps : l = IoctlLine(w, WithVersion(n, s)),
         LET c == Begun(key, d, 0, n, <<>>, l)
         IN  c.key = key /\ c.name = n /\ c.line = l
  PROVE  OfLine(T, Begun(key, d, 0, n, <<>>, l), v)
<1> DEFINE c == Begun(key, d, 0, n, <<>>, l)
<1>1. c.key = key /\ c.name = n /\ c.line = l
  OBVIOUS
<1> HIDE DEF c
<1>2. OfLine(T, c, v)
  BY <1>1 DEF OfLine, Tokens, Keys, FileKeys
<1> QED
  BY <1>2 DEF c

LEMMA BeginDirectoryInv ==
  ASSUME NEW T, Tokens(T), Inv(T), NEW p \in Procs, NEW key, key # "idle",
         NEW d \in Ids \cup {0}, NEW t \in Ids \cup {0}, NEW n \in Names,
         NEW r, key = "move" => r \in Files, NEW l, NEW h,
         Kernel(dentry, h, held, Begin(p, key, d, t, n, r, l)), entry' = entry, written' = written,
         h = [m \in Names |-> h[m]], \A m \in Names : h[m] \in {0, hash[m]},
         d # 0 => d \in InUse, t # 0 => t \in InUse, key = "move" => d # 0,
         \/ key \in {"attr", "rmfile", "rmdir"} /\ l = NameLine(n)
         \/ key \in {"mkfile", "mkdir"} /\ l = ModeLine(n, "rw")
         \/ key = "move" /\ l = MoveLine(WithVersion(n, Version(d)), r)
  PROVE  Inv(T)'
<1>1. LET c == Begun(key, d, t, n, r, l)
      IN  c.key = key /\ c.name = n /\ c.to = r /\ c.line = l
  BY BegunCall
<1>2. OfLine(T, Begun(key, d, t, n, r, l), Version(d))
  BY <1>1, DirectoryLines
<1>3. written' \in Nat
  BY DEF Inv
<1>4. key \in Dated => d # 0
  BY DEF Dated
<1> QED
  BY <1>2, <1>3, <1>4, BeginKeeps

LEMMA BeginFileInv ==
  ASSUME NEW T, Tokens(T), Inv(T), NEW p \in Procs, Holds(p), NEW key, NEW l, BeginFile(p, key, l),
         LET n == dentry[held[p]].name  v == Version(held[p])
         IN  \/ key = "truncfile" /\ l = NameLine(WithVersion(n, v))
             \/ key = "get" /\ l = GetLine(n, v)
             \/ key = "put" /\ \E x \in T : l = PutLine(WithVersion(n, v), v, x)
             \/ key = "setattr" /\ \E mode \in Modes : l = ModeLine(WithVersion(n, v), mode)
             \/ /\ key = "ioctl"
                /\ \E w \in Commands, s \in Stamps : l = IoctlLine(w, WithVersion(n, s))
  PROVE  Inv(T)'
<1> DEFINE d == held[p]  n == dentry[d].name  v == Version(d)
<1>1. d \in Ids /\ d # 0 /\ d \in InUse
  BY DEF Inv, Holds, InUse, Used
<1>2. n \in Names /\ v \in Stamps
  BY <1>1, InodeVersion
<1>3. /\ Kernel(dentry, hash, held, Begin(p, key, d, 0, n, <<>>, l)) /\ entry' = entry
      /\ written' \in Nat /\ key # "idle" /\ key # "move"
  BY DEF BeginFile, Inv
<1>4. /\ hash = [m \in Names |-> hash[m]]
      /\ \/ key = "truncfile" /\ l = NameLine(WithVersion(n, v))
         \/ key = "get" /\ l = GetLine(n, v)
         \/ key = "put" /\ \E x \in T : l = PutLine(WithVersion(n, v), v, x)
         \/ key = "setattr" /\ \E mode \in Modes : l = ModeLine(WithVersion(n, v), mode)
         \/ /\ key = "ioctl"
            /\ \E w \in Commands, s \in Stamps : l = IoctlLine(w, WithVersion(n, s))
  BY DEF Inv
<1> HIDE DEF d, n, v
<1>5. LET c == Begun(key, d, 0, n, <<>>, l)
      IN  c.key = key /\ c.name = n /\ c.line = l
  BY <1>1, <1>2, <1>3, BegunCall
<1>6. OfLine(T, Begun(key, d, 0, n, <<>>, l), v)
  BY <1>2, <1>4, <1>5, FileLines
<1>7. OfLine(T, Begun(key, d, 0, n, <<>>, l), Version(d))
  BY <1>6 DEF v
<1>8. /\ d \in Ids \cup {0} /\ 0 \in Ids \cup {0} /\ (key = "move" => <<>> \in Files)
      /\ \A m \in Names : hash[m] \in {0, hash[m]}
      /\ (d # 0 => d \in InUse) /\ (0 # 0 => 0 \in InUse) /\ (key \in Dated => d # 0)
  BY <1>1, <1>3
<1>9. hash = [m \in Names |-> hash[m]]
  BY <1>4
<1> HIDE DEF d, n, v
<1> QED
  BY <1>2, <1>3, <1>7, <1>8, <1>9, BeginKeeps, Zenon

(* The operations begin with the line that is meant. *)
LEMMA BeginInv ==
  ASSUME NEW T, Tokens(T), Inv(T), NEW p \in Procs,
         \/ \E n \in Names : \/ BeginLookup(p, n) \/ BeginCreate(p, n) \/ BeginRemove(p, n)
                             \/ \E r \in Files : BeginRename(p, n, r)
         \/ BeginOpenTruncating(p) \/ BeginRead(p) \/ BeginWrite(p)
         \/ \E mode \in Modes : BeginChmod(p, mode)
         \/ \E c \in Commands : BeginIoctl(p, c) \/ \E v \in Versions : BeginIoctlVersion(p, c, v)
  PROVE  Inv(T)'
<1>1. /\ hash = [n \in Names |-> hash[n]] /\ \A n \in Names : hash[n] \in Ids \cup {0}
      /\ \A n \in Names : hash[n] \in InUse
  BY DEF Inv, InUse, Used
<1>2. ASSUME NEW n \in Names, BeginLookup(p, n)
      PROVE  Inv(T)'
  <2> DEFINE h == [hash EXCEPT ![n] = 0]
  <2>1. h = [m \in Names |-> h[m]] /\ \A m \in Names : h[m] \in {0, hash[m]}
    BY <1>1
  <2>2. /\ Kernel(dentry, h, held, Begin(p, "attr", 0, 0, n, <<>>, NameLine(n)))
        /\ entry' = entry /\ written' = written
    BY <1>2 DEF BeginLookup
  <2> HIDE DEF h
  <2> QED
    BY <2>1, <2>2, BeginDirectoryInv
<1>3. ASSUME NEW n \in Names, BeginCreate(p, n)
      PROVE  Inv(T)'
  <2>1. ASSUME NEW key \in {"mkfile", "mkdir"},
               BeginDirectory(p, key, 0, 0, n, <<>>, ModeLine(n, "rw"))
        PROVE  Inv(T)'
    <3>1. /\ Kernel(dentry, hash, held, Begin(p, key, 0, 0, n, <<>>, ModeLine(n, "rw")))
          /\ entry' = entry /\ written' = written
      BY <2>1 DEF BeginDirectory
    <3> QED
      BY <1>1, <3>1, BeginDirectoryInv
  <2> QED
    BY <1>3, <2>1 DEF BeginCreate
<1>4. ASSUME NEW n \in Names, BeginRemove(p, n)
      PROVE  Inv(T)'
  <2> DEFINE key == IF IsDir(hash[n]) THEN "rmdir" ELSE "rmfile"
  <2>1. /\ Kernel(dentry, hash, held, Begin(p, key, hash[n], 0, n, <<>>, NameLine(n)))
        /\ entry' = entry /\ written' = written /\ key \in {"rmdir", "rmfile"}
    BY <1>4 DEF BeginRemove, BeginDirectory
  <2> HIDE DEF key
  <2> QED
    BY <1>1, <2>1, BeginDirectoryInv
<1>5. ASSUME NEW n \in Names, NEW r \in Files, BeginRename(p, n, r)
      PROVE  Inv(T)'
  <2> DEFINE line == MoveLine(WithVersion(n, Version(hash[n])), r)
  <2>1. /\ Kernel(dentry, hash, held, Begin(p, "move", hash[n], hash[r], n, r, line))
        /\ entry' = entry /\ written' = written /\ hash[n] # 0
    BY <1>5 DEF BeginRename, BeginDirectory, Valid, Version
  <2>2. r \in Names
    BY VfsAssumption
  <2> QED
    BY <1>1, <2>1, <2>2, BeginDirectoryInv
<1>6. CASE BeginOpenTruncating(p)
  BY <1>6, BeginFileInv DEF BeginOpenTruncating, HoldsFile, FullName
<1>7. CASE BeginRead(p)
  BY <1>7, BeginFileInv DEF BeginRead, HoldsFile
<1>8. CASE BeginWrite(p)
  <2>1. Data[written + 1] \in T
    BY <1>8 DEF Tokens, Inv, BeginWrite
  <2> QED
    BY <1>8, <2>1, BeginFileInv DEF BeginWrite, HoldsFile, FullName
<1>9. ASSUME NEW mode \in Modes, BeginChmod(p, mode)
      PROVE  Inv(T)'
  BY <1>9, BeginFileInv DEF BeginChmod, FullName
<1>10. ASSUME NEW c \in Commands, BeginIoctl(p, c)
       PROVE  Inv(T)'
  <2>1. Version(held[p]) \in Stamps
    BY <1>10, InodeVersion DEF BeginIoctl, HoldsFile, Holds, Inv
  <2> QED
    BY <1>10, <2>1, BeginFileInv DEF BeginIoctl, HoldsFile, FullName
<1>11. ASSUME NEW c \in Commands, NEW v \in Versions, BeginIoctlVersion(p, c, v)
       PROVE  Inv(T)'
  <2> DEFINE n == dentry[held[p]].name
  <2>1. \E s \in Stamps : AskedVersion(n, Version(held[p]), v) = WithVersion(n, s)
    <3>1. v # <<>> /\ v \in Stamps /\ <<>> \in Stamps
      <4>1. Len(v) = 1 /\ Len(<<>>) = 0
        BY VfsAssumption
      <4> QED
        BY <4>1 DEF Stamps
    <3>2. CASE Version(held[p]) = <<>>
      BY <3>1, <3>2 DEF AskedVersion, WithVersion
    <3>3. CASE Version(held[p]) # <<>>
      BY <3>1, <3>3 DEF AskedVersion, WithVersion
    <3> QED
      BY <3>2, <3>3
  <2> QED
    BY <1>11, <2>1, BeginFileInv DEF BeginIoctlVersion, HoldsFile
<1> QED
  BY <1>2, <1>3, <1>4, <1>5, <1>6, <1>7, <1>8, <1>9, <1>10, <1>11
----------------------------------------------------------------------------
(* An operation ends.  dn, h and hd hold no other dentries than before,    *)
(* but for those in new.                                                   *)
LEMMA DoneKeeps ==
  ASSUME NEW T, Inv(T), NEW p \in Procs, entry' = entry, written' = written,
         NEW dn, NEW h, NEW hd, Kernel(dn, h, hd, Done(p)), Dentries(dn), NEW new \in SUBSET Ids,
         h = [n \in Names |-> h[n]], hd = [q \in Procs |-> hd[q]],
         \A n \in Names : h[n] \in Ids \cup {0} /\ h[n] \in InUse \cup new \cup {0},
         \A q \in Procs : hd[q] \in Ids \cup {0} /\ hd[q] \in InUse \cup new \cup {0},
         \A i \in Ids : i \in InUse \cup new => dn[i].name \in Names,
         \A i \in Ids \cap InUse : dn[i].attr.version = Version(i)
  PROVE  Inv(T)'
<1>1. /\ IsCall(Idle) /\ Idle.d = 0 /\ Idle.target = 0 /\ Idle.key \notin Dated
      /\ 0 \notin Ids
  BY NoFields DEF Idle, Dated
<1>2. Kernel(dn, h, hd, [call EXCEPT ![p] = Idle])
  BY DEF Done
<1>3. ASSUME NEW i \in Ids \cap Used(h, hd, [call EXCEPT ![p] = Idle])
      PROVE  dn[i].name \in Names
  <2> DEFINE c == [call EXCEPT ![p] = Idle]
  <2>1. c[p] = Idle /\ \A q \in Procs \ {p} : c[q] = call[q]
    BY DEF Inv, Calls
  <2> HIDE DEF c
  <2>2. \/ \E n \in Names : i = h[n]
        \/ \E q \in Procs : i = hd[q]
        \/ \E q \in Procs : i = c[q].d \/ i = c[q].target
    BY <1>3 DEF Used, c
  <2>3. CASE \E q \in Procs : i = c[q].d \/ i = c[q].target
    <3>1. PICK q \in Procs : i = c[q].d \/ i = c[q].target
      BY <2>3
    <3>2. q # p
      BY <1>1, <2>1, <3>1
    <3>3. i \in InUse
      BY <2>1, <3>1, <3>2 DEF InUse, Used
    <3> QED
      BY <3>3
  <2>4. CASE (\E n \in Names : i = h[n]) \/ (\E q \in Procs : i = hd[q])
    <3>1. i \in InUse \cup new
      BY <1>1, <2>4
    <3> QED
      BY <3>1
  <2> QED
    BY <2>2, <2>3, <2>4
<1>4. /\ Entries(entry') /\ written' \in Nat
      /\ \A n \in Names : h[n] \in Ids \cup {0}
      /\ \A q \in Procs : hd[q] \in Ids \cup {0}
  BY DEF Inv
<1>5. /\ Idle.d # 0 => Idle.d \in InUse
      /\ Idle.key \in Dated => Idle.d # 0
  BY <1>1
<1>6. OfLine(T, Idle, Version(Idle.d))
  BY DEF OfLine, Idle, Keys
<1> QED
  BY <1>1, <1>2, <1>3, <1>4, <1>5, <1>6, StepKeeps

(* A dentry is changed in what the requests do not depend on. *)
Like(f, g) == \A i \in Ids : g[i].name = f[i].name /\ g[i].attr.version = f[i].attr.version

LEMMA DentryChanged ==
  ASSUME NEW f, Dentries(f), NEW d, NEW x
  PROVE  /\ Dentries([f EXCEPT ![d].valid = x]) /\ Like(f, [f EXCEPT ![d].valid = x])
         /\ Dentries([f EXCEPT ![d].page = x]) /\ Like(f, [f EXCEPT ![d].page = x])
         /\ Dentries([f EXCEPT ![d].attr.data = x]) /\ Like(f, [f EXCEPT ![d].attr.data = x])
<1>1. ASSUME NEW y, IsDentry(y)
      PROVE  /\ IsDentry([y EXCEPT !.valid = x]) /\ IsDentry([y EXCEPT !.page = x])
             /\ [y EXCEPT !.valid = x].name = y.name /\ [y EXCEPT !.page = x].name = y.name
             /\ [y EXCEPT !.valid = x].attr = y.attr /\ [y EXCEPT !.page = x].attr = y.attr
  BY <1>1 DEF IsDentry
<1>2. ASSUME NEW y, IsDentry(y)
      PROVE  /\ IsDentry([y EXCEPT !.attr.data = x]) /\ [y EXCEPT !.attr.data = x].name = y.name
             /\ [y EXCEPT !.attr.data = x].attr.version = y.attr.version
  <2> DEFINE a == [y.attr EXCEPT !.data = x]
  <2>1. IsAttr(a) /\ a.version = y.attr.version
    <3>1. IsAttr(y.attr)
      BY <1>2 DEF IsDentry
    <3> QED
      BY <3>1 DEF IsAttr
  <2>2. [y EXCEPT !.attr.data = x] = [y EXCEPT !.attr = a]
    BY <1>2 DEF IsDentry
  <2> HIDE DEF a
  <2>3. IsDentry([y EXCEPT !.attr = a]) /\ [y EXCEPT !.attr = a].name = y.name
        /\ [y EXCEPT !.attr = a].attr = a
    BY <1>2, <2>1 DEF IsDentry
  <2> QED
    BY <2>1, <2>2, <2>3
<1>3. Dentries([f EXCEPT ![d].valid = x]) /\ Like(f, [f EXCEPT ![d].valid = x])
  BY <1>1 DEF Dentries, Like
<1>4. Dentries([f EXCEPT ![d].page = x]) /\ Like(f, [f EXCEPT ![d].page = x])
  BY <1>1 DEF Dentries, Like
<1>5. Dentries([f EXCEPT ![d].attr.data = x]) /\ Like(f, [f EXCEPT ![d].attr.data = x])
  BY <1>2 DEF Dentries, Like
<1> QED
  BY <1>3, <1>4, <1>5

(* An operation ends that looks up and opens nothing new. *)
LEMMA ReturnKeeps ==
  ASSUME NEW T, Inv(T), NEW p \in Procs, NEW dn, NEW h, NEW hd, NEW seen,
         Return(p, dn, h, hd, seen) \/ (Kernel(dn, h, hd, Done(p)) /\ entry' = entry /\ written' = written),
         Dentries(dn), Like(dentry, dn),
         h = [n \in Names |-> h[n]], \A n \in Names : h[n] \in {0, hash[n]},
         hd = [q \in Procs |-> hd[q]], \A q \in Procs : hd[q] \in {0, held[q]}
  PROVE  Inv(T)'
<1>1. /\ Kernel(dn, h, hd, Done(p)) /\ entry' = entry /\ written' = written
  BY DEF Return
<1> DEFINE new == {}
<1>2. \A n \in Names : h[n] \in Ids \cup {0} /\ h[n] \in InUse \cup new \cup {0}
  BY DEF Inv, InUse, Used
<1>3. \A q \in Procs : hd[q] \in Ids \cup {0} /\ hd[q] \in InUse \cup new \cup {0}
  BY DEF Inv, InUse, Used
<1>4. \A i \in Ids : i \in InUse \cup new => dn[i].name \in Names
  BY DEF Like, Inv
<1>5. \A i \in Ids \cap InUse : dn[i].attr.version = Version(i)
  BY DEF Like, Version
<1>6. new \in SUBSET Ids
  OBVIOUS
<1> HIDE DEF new
<1> QED
  BY <1>1, <1>2, <1>3, <1>4, <1>5, <1>6, DoneKeeps

(* A step of the kernel that no call takes part in. *)
LEMMA SameCalls ==
  ASSUME NEW T, Inv(T), entry' = entry, written' = written,
         NEW dn, NEW h, NEW hd, Kernel(dn, h, hd, call), Dentries(dn), Like(dentry, dn),
         h = [n \in Names |-> h[n]], \A n \in Names : h[n] \in {0, hash[n]},
         hd = [q \in Procs |-> hd[q]],
         \A q \in Procs : hd[q] \in InUse \cup {0} /\ hd[q] \in Ids \cup {0}
  PROVE  Inv(T)'
<1>1. \A i \in Ids \cap Used(h, hd, call) : dn[i].name \in Names
  <2>1. \A i \in Ids : i \in Used(h, hd, call) => i \in InUse
    BY NoFields DEF Used, InUse
  <2> QED
    BY <2>1 DEF Like, Inv
<1>2. /\ \A i \in Ids \cap InUse : dn[i].attr.version = Version(i)
      /\ \A n \in Names : h[n] \in Ids \cup {0}
      /\ Calls(call) /\ Entries(entry') /\ written' \in Nat
  BY DEF Like, Inv, Version
<1> QED
  BY <1>1, <1>2, CallsReady, CacheKeeps

(* Another block of a write goes to the name that the first one went to. *)
LEMMA NextBlockInv ==
  ASSUME NEW T, Tokens(T), Inv(T), NEW p \in Procs, NextBlock(p)
  PROVE  Inv(T)'
<1> DEFINE name == Before(call[p].line, Blank)
           line == PutLine(name, <<>>, Data[written + 1])
           c == [call[p] EXCEPT !.stage = "sent", !.reply = None, !.more = TRUE, !.line = line]
<1>1. IsCall(call[p]) /\ call[p].key = "put"
  BY DEF NextBlock, Answered, Inv, Calls
<1>2. call' = [call EXCEPT ![p] = c]
  BY DEF NextBlock
<1>3. /\ c.key = call[p].key /\ c.d = call[p].d /\ c.target = call[p].target
      /\ c.name = call[p].name /\ c.to = call[p].to /\ c.line = line
      /\ c.stage = "sent" /\ c.reply = None /\ c.more = TRUE
  <2> HIDE DEF line
  <2> QED
    BY <1>1 DEF IsCall
<1>4. IsCall(c)
  <2> HIDE DEF line
  <2> DEFINE c1 == [call[p] EXCEPT !.stage = "sent"]
             c2 == [c1 EXCEPT !.reply = None]
             c3 == [c2 EXCEPT !.more = TRUE]
             c4 == [c3 EXCEPT !.line = line]
  <2>1. c = c4
    OBVIOUS
  <2> HIDE DEF c
  <2>2. IsRecord(call[p])
    BY <1>1 DEF IsCall, IsRecord
  <2>3. IsRecord(c1)
    BY <2>2, FieldSet
  <2> HIDE DEF c1
  <2>4. IsRecord(c2)
    BY <2>3, FieldSet
  <2> HIDE DEF c2
  <2>5. IsRecord(c3)
    BY <2>4, FieldSet
  <2> HIDE DEF c3
  <2>6. IsRecord(c4)
    BY <2>5, FieldSet
  <2> QED
    BY <1>1, <1>3, <2>1, <2>6 DEF IsCall, IsRecord
<1> HIDE DEF c
<1>5. Plain(c.name) => OfLine(T, c, Version(c.d))
  <2> SUFFICES ASSUME Plain(call[p].name)
               PROVE  OfLine(T, c, Version(call[p].d))
    BY <1>3
  <2> DEFINE n == call[p].name  v == Version(call[p].d)
  <2>1. PICK x \in T : call[p].line = PutLine(WithVersion(n, v), v, x)
    BY <1>1 DEF Inv, Lines, OfLine
  <2>2. /\ n \in Seq(T) /\ n # <<>> /\ v \in Seq(T) /\ Plain(v) /\ Plain(n)
        /\ {Blank, At, AtAt} \subseteq T /\ Data[written + 1] \in T
    <3>1. n \in Names /\ call[p].d \in Ids
      BY <1>1 DEF IsCall, Inv, Lines, Dated
    <3>2. v \in Stamps
      BY <3>1, InodeVersion
    <3>3. Data[written + 1] \in T
      BY DEF Tokens, Inv, NextBlock
    <3> QED
      BY <3>1, <3>2, <3>3, WordsOfTokens DEF Tokens
  <2> HIDE DEF n, v
  <2>3. name = WithVersion(n, v)
    <3>1. Before(PutLine(WithVersion(n, v), v, x), Blank) = WithVersion(n, v)
      BY <2>2, PutLineParts
    <3> QED
      BY <2>1, <3>1
  <2>4. line = PutLine(WithVersion(n, v), v, Data[written + 1])
    <3> DEFINE full == WithVersion(n, v)
    <3>1. /\ ~Has(Before(full, AtAt), At)
          /\ Has(full, AtAt) <=> v # <<>>
      BY <2>2, FullNameSplits
    <3> HIDE DEF full
    <3>2. PutLine(full, <<>>, Data[written + 1]) = PutLine(full, v, Data[written + 1])
      BY <3>1 DEF PutLine, WithVersion
    <3> QED
      BY <2>3, <3>2 DEF full
  <2>5. \E y \in T : c.line = PutLine(WithVersion(n, v), v, y)
    BY <1>3, <2>2, <2>4
  <2> HIDE DEF line
  <2>6. c.key = "put" /\ c.name = n
    BY <1>1, <1>3 DEF n
  <2>7. OfLine(T, c, v)
    BY <2>5, <2>6 DEF OfLine, Keys, FileKeys
  <2> QED
    BY <2>7 DEF v
<1>6. Entries(entry') /\ written' \in Nat /\ UNCHANGED kernel
  BY DEF NextBlock, Inv
<1>7. c.key \in Dated => c.d # 0
  BY <1>3 DEF Inv, Lines
<1> QED
  BY <1>2, <1>3, <1>4, <1>5, <1>6, <1>7, CallChanges

(* Another get has the line of the first one. *)
LEMMA NextGetInv ==
  ASSUME NEW T, Inv(T), NEW p \in Procs, NextGet(p)
  PROVE  Inv(T)'
<1> DEFINE got == call[p].read \cup {call[p].reply.attr.data}
           c1 == [call[p] EXCEPT !.stage = "sent"]
           c2 == [c1 EXCEPT !.reply = None]
           c == [c2 EXCEPT !.read = got]
<1>1. IsCall(call[p]) /\ call[p].key = "get" /\ call[p] = [call[p] EXCEPT !.key = "get"]
  BY DEF NextGet, Answered, Inv, Calls, IsCall
<1>2. call' = [call EXCEPT ![p] = c]
  BY DEF NextGet
<1> HIDE DEF got
<1>3. /\ c.key = call[p].key /\ c.d = call[p].d /\ c.target = call[p].target
      /\ c.name = call[p].name /\ c.to = call[p].to /\ c.line = call[p].line
  BY <1>1 DEF IsCall
<1>4. IsRecord(c)
  <2>1. IsRecord(call[p])
    BY <1>1 DEF IsCall, IsRecord
  <2>2. IsRecord(c1)
    BY <2>1, FieldSet
  <2> HIDE DEF c1
  <2>3. IsRecord(c2)
    BY <2>2, FieldSet
  <2> HIDE DEF c2
  <2> QED
    BY <2>3, FieldSet
<1> HIDE DEF c
<1>5. IsCall(c)
  BY <1>1, <1>3, <1>4 DEF IsCall, IsRecord
<1>6. Plain(c.name) => OfLine(T, c, Version(c.d))
  <2>1. Plain(call[p].name) => OfLine(T, call[p], Version(call[p].d))
    BY CallsReady
  <2> QED
    BY <1>3, <2>1 DEF OfLine
<1>7. Entries(entry') /\ written' \in Nat /\ UNCHANGED kernel
  BY DEF NextGet, Inv
<1>8. c.key \in Dated => c.d # 0
  BY <1>3, CallsReady
<1> QED
  BY <1>2, <1>3, <1>5, <1>6, <1>7, <1>8, CallChanges

(* lookup and create make a dentry with what the daemon said. *)
LEMMA NewDentryKeeps ==
  ASSUME NEW T, Inv(T), NEW p \in Procs, NEW d \in Free, NEW x, IsDentry(x), x.name \in Names,
         NEW h, NEW hd, Kernel([dentry EXCEPT ![d] = x], h, hd, Done(p)),
         entry' = entry, written' = written,
         h = [n \in Names |-> h[n]], \A n \in Names : h[n] \in {d, hash[n]},
         hd = [q \in Procs |-> hd[q]], \A q \in Procs : hd[q] \in {d, held[q]}
  PROVE  Inv(T)'
<1> DEFINE dn == [dentry EXCEPT ![d] = x]
<1>1. d \in Ids /\ d \notin InUse
  BY DEF Free, InUse
<1>2. /\ dn[d] = x /\ \A i \in Ids \ {d} : dn[i] = dentry[i]
      /\ Dentries(dn)
  BY <1>1 DEF Inv, Dentries
<1>3. Kernel(dn, h, hd, Done(p))
  OBVIOUS
<1> HIDE DEF dn
<1>4. \A n \in Names : h[n] \in Ids \cup {0} /\ h[n] \in InUse \cup {d} \cup {0}
  BY <1>1 DEF Inv, InUse, Used
<1>5. \A q \in Procs : hd[q] \in Ids \cup {0} /\ hd[q] \in InUse \cup {d} \cup {0}
  BY <1>1 DEF Inv, InUse, Used
<1>6. \A i \in Ids : i \in InUse \cup {d} => dn[i].name \in Names
  BY <1>1, <1>2 DEF Inv
<1>7. \A i \in Ids \cap InUse : dn[i].attr.version = Version(i)
  BY <1>1, <1>2 DEF Version
<1>8. {d} \in SUBSET Ids
  BY <1>1
<1> QED
  BY <1>2, <1>3, <1>4, <1>5, <1>6, <1>7, <1>8, DoneKeeps

(* After a rename the dentry has the new name. *)
LEMMA RenameInv ==
  ASSUME NEW T, Inv(T), NEW p \in Procs, Rename(p)
  PROVE  Inv(T)'
<1> DEFINE d == call[p].d  t == call[p].target  n == dentry[d].name  r == call[p].to
           inv == [i \in Ids |-> IF i \in {d, t} THEN [dentry[i] EXCEPT !.valid = FALSE]
                                 ELSE dentry[i]]
           dn == [inv EXCEPT ![d].name = r]
           h == [hash EXCEPT ![n] = 0, ![r] = IF t = 0 THEN 0 ELSE d]
           new == {}
<1>1. /\ call[p].key = "move" /\ r \in Names
      /\ d \in InUse /\ d \in Ids \cup {0}
  BY VfsAssumption DEF Inv, Rename, Answered, Calls, IsCall, InUse, Used
<1>2. /\ hash = [m \in Names |-> hash[m]] /\ held = [q \in Procs |-> held[q]]
      /\ \A m \in Names : hash[m] \in InUse /\ hash[m] \in Ids \cup {0}
      /\ \A q \in Procs : held[q] \in InUse /\ held[q] \in Ids \cup {0}
  BY DEF Inv, InUse, Used
<1>3. Dentries(inv) /\ Like(dentry, inv)
  <2>1. ASSUME NEW y, IsDentry(y), NEW z
        PROVE  /\ IsDentry([y EXCEPT !.valid = z]) /\ [y EXCEPT !.valid = z].name = y.name
               /\ [y EXCEPT !.valid = z].attr = y.attr
    BY <2>1 DEF IsDentry
  <2>2. \A i \in Ids : IsDentry(dentry[i])
    BY DEF Inv, Dentries
  <2> QED
    BY <2>1, <2>2 DEF Dentries, Like
<1>4. CASE ~Succeeded(p)
  <2>1. Return(p, inv, hash, held, {})
    BY <1>4 DEF Rename
  <2> HIDE DEF inv
  <2> QED
    BY <1>2, <1>3, <2>1, ReturnKeeps
<1>5. CASE Succeeded(p)
  <2>1. Kernel(dn, h, held, Done(p)) /\ entry' = entry /\ written' = written
    BY <1>5 DEF Rename, Return
  <2>2. /\ Dentries(dn) /\ \A i \in Ids : dn[i].attr = inv[i].attr
        /\ \A i \in Ids : dn[i].name = (IF i = d THEN r ELSE inv[i].name)
    <3>1. ASSUME NEW y, IsDentry(y)
          PROVE  /\ IsDentry([y EXCEPT !.name = r]) /\ [y EXCEPT !.name = r].name = r
                 /\ [y EXCEPT !.name = r].attr = y.attr
      <4> HIDE DEF r
      <4> QED
        BY <3>1 DEF IsDentry
    <3> HIDE DEF inv, r, d
    <3> QED
      BY <1>3, <3>1 DEF Dentries
  <2>3. h = [m \in Names |-> h[m]] /\ \A m \in Names : h[m] \in {0, d, hash[m]}
    BY <1>2
  <2> HIDE DEF dn, h, inv, n, r, t
  <2>4. \A m \in Names : h[m] \in Ids \cup {0} /\ h[m] \in InUse \cup new \cup {0}
    BY <1>1, <1>2, <2>3
  <2>8. \A q \in Procs : held[q] \in Ids \cup {0} /\ held[q] \in InUse \cup new \cup {0}
    BY <1>2
  <2>5. \A i \in Ids : i \in InUse \cup new => dn[i].name \in Names
    BY <1>1, <1>3, <2>2 DEF Like, Inv
  <2>6. \A i \in Ids \cap InUse : dn[i].attr.version = Version(i)
    BY <1>3, <2>2 DEF Like, Version
  <2>7. new \in SUBSET Ids
    OBVIOUS
  <2>9. /\ Dentries(dn) /\ h = [m \in Names |-> h[m]]
        /\ held = [q \in Procs |-> held[q]]
    BY <1>2, <2>2, <2>3
  <2> HIDE DEF new
  <2> QED
    BY <2>1, <2>4, <2>5, <2>6, <2>7, <2>8, <2>9, DoneKeeps
<1> QED
  BY <1>4, <1>5
----------------------------------------------------------------------------
(* The steps of the kernel after the answer. *)
LEMMA TablesAreFunctions ==
  ASSUME NEW T, Inv(T)
  PROVE  /\ Dentries(dentry) /\ Like(dentry, dentry)
         /\ hash = [n \in Names |-> hash[n]] /\ \A n \in Names : hash[n] \in {0, hash[n]}
         /\ held = [q \in Procs |-> held[q]] /\ \A q \in Procs : held[q] \in {0, held[q]}
BY DEF Inv, Like

(* The dentry of the call is changed, if any, the tables stay. *)
LEMMA ReturnSame ==
  ASSUME NEW T, Inv(T), NEW p \in Procs, NEW dn, NEW seen,
         Return(p, dn, hash, held, seen)
           \/ (Kernel(dn, hash, held, Done(p)) /\ entry' = entry /\ written' = written),
         Dentries(dn), Like(dentry, dn)
  PROVE  Inv(T)'
  BY TablesAreFunctions, ReturnKeeps

LEMMA ReturnUnchanged ==
  ASSUME NEW T, Inv(T), NEW p \in Procs, NEW seen,
         Return(p, dentry, hash, held, seen)
           \/ (Kernel(dentry, hash, held, Done(p)) /\ entry' = entry /\ written' = written)
  PROVE  Inv(T)'
  BY TablesAreFunctions, ReturnSame

LEMMA InvalidKept ==
  ASSUME NEW T, Inv(T), NEW d
  PROVE  /\ Dentries(Invalid(d)) /\ Like(dentry, Invalid(d))
         /\ Dentries([dentry EXCEPT ![d].valid = TRUE])
         /\ Like(dentry, [dentry EXCEPT ![d].valid = TRUE])
         /\ \A x : /\ Dentries([dentry EXCEPT ![d].page = x])
                  /\ Like(dentry, [dentry EXCEPT ![d].page = x])
  BY DentryChanged DEF Invalid, Inv

(* lookup and create. *)
LEMMA FoundInv ==
  ASSUME NEW T, Inv(T), NEW p \in Procs, Lookup(p) \/ Create(p)
  PROVE  Inv(T)'
<1>1. CASE ~Succeeded(p)
  <2>1. Return(p, dentry, hash, held, {})
    BY <1>1 DEF Lookup, Create
  <2> QED
    BY <2>1, ReturnUnchanged
<1>2. CASE Succeeded(p)
  <2> DEFINE x == Dentry(call[p].name, call[p].reply.attr)
  <2>1. PICK d \in Free :
          \/ Return(p, [dentry EXCEPT ![d] = x], [hash EXCEPT ![call[p].name] = d],
                    [held EXCEPT ![p] = d], {})
          \/ Return(p, [dentry EXCEPT ![d] = x], hash, [held EXCEPT ![p] = d], {})
    BY <1>2 DEF Lookup, Create
  <2>2. IsAttr(call[p].reply.attr) /\ call[p].name \in Names
    BY DEF Inv, Calls, IsCall, Lookup, Create, Answered
  <2>3. IsDentry(x) /\ x.name \in Names
    BY <2>2 DEF IsDentry, Dentry
  <2> HIDE DEF x
  <2> DEFINE h == [hash EXCEPT ![call[p].name] = d]  hd == [held EXCEPT ![p] = d]
  <2>4. /\ h = [n \in Names |-> h[n]] /\ \A n \in Names : h[n] \in {d, hash[n]}
        /\ hash = [n \in Names |-> hash[n]] /\ \A n \in Names : hash[n] \in {d, hash[n]}
        /\ hd = [q \in Procs |-> hd[q]] /\ \A q \in Procs : hd[q] \in {d, held[q]}
    BY DEF Inv
  <2>5. entry' = entry /\ written' = written
    BY <2>1 DEF Return
  <2>6. \/ Kernel([dentry EXCEPT ![d] = x], h, hd, Done(p))
        \/ Kernel([dentry EXCEPT ![d] = x], hash, hd, Done(p))
    BY <2>1 DEF Return
  <2> HIDE DEF h, hd
  <2> QED
    BY <2>3, <2>4, <2>5, <2>6, NewDentryKeeps
<1> QED
  BY <1>1, <1>2

LEMMA FinishInv ==
  ASSUME NEW T, Tokens(T), Inv(T), NEW p \in Procs, Finish(p)
  PROVE  Inv(T)'
<1>1. CASE Lookup(p) \/ Create(p)
  BY <1>1, FoundInv
<1>2. CASE Makedir(p)
  BY <1>2, ReturnUnchanged DEF Makedir
<1>3. CASE Unlink(p)
  <2>1. CASE ~Succeeded(p)
    BY <1>3, <2>1, ReturnUnchanged DEF Unlink
  <2>2. CASE Succeeded(p)
    <3> DEFINE dn == Invalid(call[p].d)  h == [hash EXCEPT ![dentry[call[p].d].name] = 0]
    <3>1. Return(p, dn, h, held, {})
      BY <1>3, <2>2 DEF Unlink, Invalid
    <3>2. h = [n \in Names |-> h[n]] /\ \A n \in Names : h[n] \in {0, hash[n]}
      BY DEF Inv
    <3>3. Dentries(dn) /\ Like(dentry, dn)
      BY InvalidKept
    <3> HIDE DEF dn, h
    <3> QED
      BY <3>1, <3>2, <3>3, TablesAreFunctions, ReturnKeeps
  <2> QED
    BY <2>1, <2>2
<1>4. CASE Rename(p)
  BY <1>4, RenameInv
<1>5. CASE Open(p)
  <2> DEFINE dn == Invalid(call[p].d)
             hd == IF Succeeded(p) THEN held ELSE [held EXCEPT ![p] = 0]
  <2>1. Return(p, dn, hash, hd, {})
    BY <1>5 DEF Open
  <2>2. hd = [q \in Procs |-> hd[q]] /\ \A q \in Procs : hd[q] \in {0, held[q]}
    BY DEF Inv
  <2>3. Dentries(dn) /\ Like(dentry, dn)
    BY InvalidKept
  <2> HIDE DEF dn, hd
  <2> QED
    BY <2>1, <2>2, <2>3, TablesAreFunctions, ReturnKeeps
<1>6. CASE NextBlock(p)
  BY <1>6, NextBlockInv
<1>7. CASE WriteEnd(p)
  <2>1. \/ Kernel(Invalid(call[p].d), hash, held, Done(p))
        \/ Kernel(dentry, hash, held, Done(p))
    BY <1>7 DEF WriteEnd
  <2>2. entry' = entry /\ written' = written
    BY <1>7 DEF WriteEnd
  <2> QED
    BY <2>1, <2>2, InvalidKept, ReturnSame, ReturnUnchanged
<1>8. CASE Readpage(p)
  <2>1. \E seen, x : \/ Return(p, dentry, hash, held, seen)
                    \/ Return(p, [dentry EXCEPT ![call[p].d].page = x], hash, held, seen)
    BY <1>8 DEF Readpage
  <2>2. PICK seen, x : \/ Return(p, dentry, hash, held, seen)
                       \/ Return(p, [dentry EXCEPT ![call[p].d].page = x], hash, held, seen)
    BY <2>1
  <2> QED
    BY <2>2, InvalidKept, ReturnSame, ReturnUnchanged
<1>9. CASE Chmod(p)
  BY <1>9, InvalidKept, ReturnSame DEF Chmod
<1>11. CASE NextGet(p)
  BY <1>11, NextGetInv
<1>10. CASE Ioctl(p)
  <2>1. \E seen : \/ Return(p, dentry, hash, held, seen)
                 \/ Return(p, Invalid(call[p].d), hash, held, seen)
                 \/ Return(p, [dentry EXCEPT ![call[p].d].valid = TRUE], hash, held, seen)
    BY <1>10 DEF Ioctl
  <2> QED
    BY <2>1, InvalidKept, ReturnSame, ReturnUnchanged
<1> QED
  BY <1>1, <1>2, <1>3, <1>4, <1>5, <1>6, <1>7, <1>8, <1>9, <1>10, <1>11 DEF Finish
----------------------------------------------------------------------------
(* The steps that ask nothing of the daemon. *)
LEMMA KernelInv ==
  ASSUME NEW T, Inv(T),
         \/ \E p \in Procs : Close(p) \/ TruncateInode(p) \/ \E n \in Names : Walk(p, n)
         \/ \E n \in Names : Prune(n)
  PROVE  Inv(T)'
<1>1. /\ Dentries(dentry) /\ Like(dentry, dentry)
      /\ hash = [n \in Names |-> hash[n]] /\ \A n \in Names : hash[n] \in {0, hash[n]}
      /\ held = [q \in Procs |-> held[q]]
  BY TablesAreFunctions
<1>2. /\ \A q \in Procs : held[q] \in InUse \cup {0} /\ held[q] \in Ids \cup {0}
      /\ \A n \in Names : hash[n] \in InUse /\ hash[n] \in Ids \cup {0}
  BY DEF Inv, InUse, Used
<1>3. ASSUME NEW p \in Procs, NEW n \in Names, Walk(p, n)
      PROVE  Inv(T)'
  <2> DEFINE hd == [held EXCEPT ![p] = hash[n]]
  <2>1. Kernel(dentry, hash, hd, call) /\ entry' = entry /\ written' = written
    BY <1>3 DEF Walk
  <2>2. /\ hd = [q \in Procs |-> hd[q]]
        /\ \A q \in Procs : hd[q] \in InUse \cup {0} /\ hd[q] \in Ids \cup {0}
    BY <1>1, <1>2
  <2> HIDE DEF hd
  <2> QED
    BY <1>1, <2>1, <2>2, SameCalls
<1>4. ASSUME NEW n \in Names, Prune(n)
      PROVE  Inv(T)'
  <2> DEFINE h == [hash EXCEPT ![n] = 0]
  <2>1. Kernel(dentry, h, held, call) /\ entry' = entry /\ written' = written
    BY <1>4 DEF Prune
  <2>2. h = [m \in Names |-> h[m]] /\ \A m \in Names : h[m] \in {0, hash[m]}
    BY <1>1
  <2> HIDE DEF h
  <2> QED
    BY <1>1, <1>2, <2>1, <2>2, SameCalls
<1>5. ASSUME NEW p \in Procs, TruncateInode(p)
      PROVE  Inv(T)'
  <2> DEFINE d == held[p]
             d1 == [dentry EXCEPT ![d].attr.data = <<>>]
             d2 == [d1 EXCEPT ![d].page = {}]
             d3 == [d2 EXCEPT ![d].valid = FALSE]
             dn == [dentry EXCEPT ![d].attr.data = <<>>, ![d].page = {}, ![d].valid = FALSE]
  <2>1. Kernel(dn, hash, held, call) /\ entry' = entry /\ written' = written
    BY <1>5 DEF TruncateInode
  <2>2. dn = d3
    OBVIOUS
  <2>3. Dentries(d1) /\ Like(dentry, d1)
    BY <1>1, DentryChanged
  <2> HIDE DEF d, d1, dn
  <2>4. Dentries(d2) /\ Like(d1, d2)
    BY <2>3, DentryChanged
  <2> HIDE DEF d2
  <2>5. Dentries(d3) /\ Like(d2, d3)
    BY <2>4, DentryChanged
  <2> HIDE DEF d3
  <2>6. Dentries(d3) /\ Like(dentry, d3) /\ Kernel(d3, hash, held, call)
    BY <2>1, <2>2, <2>3, <2>4, <2>5 DEF Like
  <2> QED
    BY <1>1, <1>2, <2>1, <2>6, SameCalls
<1>6. ASSUME NEW p \in Procs, Close(p)
      PROVE  Inv(T)'
  <2> DEFINE hd == [held EXCEPT ![p] = 0]
  <2>1. Kernel(dentry, hash, hd, call) /\ entry' = entry /\ written' = written
    BY <1>6 DEF Close
  <2>2. /\ hd = [q \in Procs |-> hd[q]]
        /\ \A q \in Procs : hd[q] \in InUse \cup {0} /\ hd[q] \in Ids \cup {0}
    BY <1>1, <1>2
  <2> HIDE DEF hd
  <2> QED
    BY <1>1, <1>2, <2>1, <2>2, SameCalls
<1> QED
  BY <1>3, <1>4, <1>5, <1>6
----------------------------------------------------------------------------
LEMMA InitInv ==
  ASSUME NEW T, Init
  PROVE  Inv(T)
<1>1. Entries(entry)
  <2>1. entry \in [Files -> {Remote} \cup {Entry(k, <<>>, <<>>, "rw") : k \in {"none", "local", "dir"}}
                              \cup {Entry("out", v, v, "rw") : v \in Versions}]
    BY DEF Init, Listings
  <2>2. \A v \in Versions : IsEntry(Entry("out", v, v, "rw"))
    BY DEF IsEntry, Entry, Stamps
  <2> QED
    BY <2>1, <2>2, NoFields DEF Entries
<1>2. Dentries(dentry) /\ Calls(call)
  BY NoFields DEF Init, Dentries, Calls
<1>3. Lines(T)
  <2>1. OfLine(T, Idle, Version(Idle.d)) /\ Idle.key \notin Dated
    BY DEF OfLine, Idle, Keys, Dated
  <2> QED
    BY <2>1 DEF Init, Lines
<1>4. InUse \subseteq {0}
  BY DEF InUse, Used, Init, Idle
<1>5. \A i \in Ids \cap InUse : dentry[i].name \in Names
  BY <1>4, NoFields
<1> QED
  BY <1>1, <1>2, <1>3, <1>5 DEF Init, Inv

LEMMA StepInv ==
  ASSUME NEW T, Tokens(T), Inv(T), [Next]_vars
  PROVE  Inv(T)'
<1>1. ASSUME NEW p \in Procs, Serve(p)
      PROVE  Inv(T)'
  BY <1>1, ServeInv
<1>2. ASSUME NEW p \in Procs, Finish(p)
      PROVE  Inv(T)'
  BY <1>2, FinishInv
<1>3. ASSUME NEW p \in Procs, Close(p) \/ TruncateInode(p) \/ \E n \in Names : Walk(p, n)
      PROVE  Inv(T)'
  BY <1>3, KernelInv
<1>4. ASSUME NEW n \in Names, Prune(n)
      PROVE  Inv(T)'
  BY <1>4, KernelInv
<1>5. ASSUME NEW p \in Procs,
             \/ \E n \in Names : \/ BeginLookup(p, n) \/ BeginCreate(p, n) \/ BeginRemove(p, n)
                                 \/ \E r \in Files : BeginRename(p, n, r)
             \/ BeginOpenTruncating(p) \/ BeginRead(p) \/ BeginWrite(p)
             \/ \E mode \in Modes : BeginChmod(p, mode)
             \/ \E c \in Commands : BeginIoctl(p, c) \/ \E v \in Versions : BeginIoctlVersion(p, c, v)
      PROVE  Inv(T)'
  BY <1>5, BeginInv
<1>6. CASE UNCHANGED vars
  BY <1>6 DEF Inv, Lines, InUse, Used, Version, vars, kernel
<1> QED
  BY <1>1, <1>2, <1>3, <1>4, <1>5, <1>6 DEF Next

LEMMA InvUnderstood ==
  ASSUME NEW T, Tokens(T), Inv(T)
  PROVE  UnderstoodAsMeant
<1> SUFFICES ASSUME NEW p \in Procs, call[p].stage = "sent", ~Has(call[p].to, Blank),
                    Plain(call[p].name)
             PROVE  /\ Understood(p).name = call[p].name
                    /\ call[p].key \in Dated => Understood(p).version = Version(call[p].d)
                    /\ call[p].key = "move" => MoveTarget(call[p].line) = call[p].to
  BY DEF UnderstoodAsMeant, Plain, Dated
<1> DEFINE c == call[p]  n == c.name  v == Version(c.d)  r == c.to
<1>1. IsCall(c) /\ c.key # "idle" /\ n \in Names /\ c.d \in Ids \cup {0}
  BY DEF Inv, Calls, IsCall
<1>2. OfLine(T, c, v) /\ c.key \in Keys /\ (c.key \in Dated => c.d # 0)
  BY CallsReady DEF OfLine
<1>3. c.key \in Dated => v \in Stamps
  BY <1>1, <1>2, InodeVersion
<1>4. /\ {Blank, At, AtAt, "rw"} \subseteq T /\ "rw" # Blank
      /\ n \in Seq(T) /\ n # <<>> /\ Plain(n)
      /\ \A s \in Stamps : s \in Seq(T) /\ Plain(s)
  BY <1>1, WordsOfTokens, NoFields DEF Tokens, Blank
<1>5. <<>> \in Stamps /\ WithVersion(n, <<>>) = n
  BY NoFields DEF WithVersion
<1>6. ASSUME NEW s \in Stamps, NEW word \in T, word # Blank, NEW block \in T
      PROVE  /\ ParseName(NameLine(WithVersion(n, s))) = Meant(n, s)
             /\ ParseMode(ModeLine(WithVersion(n, s), word)) = Meant(n, s)
             /\ ParseGet(GetLine(n, s)) = Meant(n, s)
             /\ ParsePut(PutLine(WithVersion(n, s), s, block)) = Meant(n, s)
             /\ ParseIoctl(IoctlLine(word, WithVersion(n, s))) = Meant(n, s)
  <2> DEFINE to == <<"rw">>
  <2>1. to \in Seq(T) /\ to # <<>> /\ ~Has(to, Blank)
    BY <1>4 DEF Has
  <2>2. s \in Seq(T) /\ Plain(s)
    BY <1>4
  <2> HIDE DEF n, to
  <2>3. {Blank, At, AtAt} \subseteq T /\ n \in Seq(T) /\ n # <<>> /\ Plain(n)
    BY <1>4
  <2> QED
    BY <1>6, <2>1, <2>2, <2>3, LinesUnderstood
<1>7. ASSUME NEW s \in Stamps, c.key = "move"
      PROVE  /\ ParseMove(MoveLine(WithVersion(n, s), r)) = Meant(n, s)
             /\ MoveTarget(MoveLine(WithVersion(n, s), r)) = r
  <2>1. r \in Names /\ ~Has(r, Blank)
    BY <1>1, <1>7, VfsAssumption DEF IsCall
  <2>2. r \in Seq(T) /\ r # <<>>
    BY <2>1, <1>5, WordsOfTokens
  <2> HIDE DEF n, r
  <2> QED
    BY <1>4, <2>1, <2>2, LinesUnderstood
<1>8. \A s : Meant(n, s).name = n /\ Meant(n, s).version = s
  BY DEF Meant
<1> QED
  <2>1. CASE c.key \in {"attr", "rmfile", "rmdir"}
    <3>1. Understood(p) = ParseName(NameLine(n))
      BY <1>2, <2>1 DEF Understood, OfLine
    <3> QED
      BY <1>4, <1>5, <1>6, <1>8, <2>1, <3>1 DEF Dated
  <2>2. CASE c.key \in {"mkfile", "mkdir"}
    <3>1. Understood(p) = ParseMode(ModeLine(n, "rw"))
      BY <1>2, <2>2 DEF Understood, OfLine
    <3> QED
      BY <1>4, <1>5, <1>6, <1>8, <2>2, <3>1 DEF Dated
  <2>3. CASE c.key = "truncfile"
    <3>1. Understood(p) = ParseName(NameLine(WithVersion(n, v)))
      BY <1>2, <2>3 DEF Understood, OfLine
    <3> QED
      BY <1>3, <1>4, <1>6, <1>8, <2>3, <3>1 DEF Dated
  <2>4. CASE c.key = "get"
    <3>1. Understood(p) = ParseGet(GetLine(n, v))
      BY <1>2, <2>4 DEF Understood, OfLine
    <3> QED
      BY <1>3, <1>4, <1>6, <1>8, <2>4, <3>1 DEF Dated
  <2>5. CASE c.key = "put"
    <3>1. PICK x \in T : Understood(p) = ParsePut(PutLine(WithVersion(n, v), v, x))
      BY <1>2, <2>5 DEF Understood, OfLine
    <3> QED
      BY <1>3, <1>4, <1>6, <1>8, <2>5, <3>1 DEF Dated
  <2>6. CASE c.key = "setattr"
    <3>1. PICK m \in T : m # Blank /\ Understood(p) = ParseMode(ModeLine(WithVersion(n, v), m))
      BY <1>2, <2>6 DEF Understood, OfLine
    <3> QED
      BY <1>3, <1>4, <1>6, <1>8, <2>6, <3>1 DEF Dated
  <2>7. CASE c.key = "move"
    <3>1. /\ Understood(p) = ParseMove(MoveLine(WithVersion(n, v), r))
          /\ MoveTarget(c.line) = MoveTarget(MoveLine(WithVersion(n, v), r))
      BY <1>2, <2>7 DEF Understood, OfLine
    <3> QED
      BY <1>3, <1>7, <1>8, <2>7, <3>1 DEF Dated
  <2>8. CASE c.key = "ioctl"
    <3>1. PICK w \in T, s \in Stamps :
            w # Blank /\ Understood(p) = ParseIoctl(IoctlLine(w, WithVersion(n, s)))
      BY <1>2, <2>8 DEF Understood, OfLine
    <3> QED
      BY <1>4, <1>6, <1>8, <2>8, <3>1 DEF Dated
  <2> QED
    BY <1>1, <1>2, <2>1, <2>2, <2>3, <2>4, <2>5, <2>6, <2>7, <2>8 DEF Keys, DirKeys,
       FileKeys

(* The daemon understands the name, the version and the new name of every  *)
(* request that cvsfs_lookup, _create, _open, _read, _write and the other  *)
(* operations of dir.c and file.c send, as the kernel module means them.   *)
THEOREM AllUnderstood ==
  ASSUME NEW T, Tokens(T)
  PROVE  Spec => []UnderstoodAsMeant
<1>1. Init => Inv(T)
  BY InitInv
<1>2. Inv(T) /\ [Next]_vars => Inv(T)'
  BY StepInv
<1>3. Inv(T) => UnderstoodAsMeant
  BY InvUnderstood
<1> QED
  BY <1>1, <1>2, <1>3, PTL DEF Spec
=============================================================================
