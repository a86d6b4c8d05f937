-------------------------- MODULE VfsCacheProofs ---------------------------
(***************************************************************************)
(* What the dentries and pages of VfsOperations say of the files that the  *)
(* daemon serves, on top of the invariant of VfsOperationsProofs: a dentry *)
(* that is taken for valid is right, whatever other processes do between   *)
(* the steps of an operation, unless a change went past it, and what is    *)
(* written in a file changes by the requests for this file only.           *)
(***************************************************************************)
EXTENDS VfsOperationsProofs

(* An answered call that has changed nothing that is not blind, so that    *)
(* the dentry it works with may stay valid when the operation ends.        *)
Harmless(c) ==
  /\ c.stage = "answered" /\ ~c.more
  /\ \/ c.key \in {"rmfile", "rmdir", "put"} /\ Result(c.key, c.reply) # "ok"
     \/ c.key = "get"
     \/ c.key = "ioctl" /\ \/ Command(c.line) = "version"
                           \/ Command(c.line) = "rescan" /\ Result(c.key, c.reply) # "ok"

(* A call that the daemon has done something for and whose operation goes on *)
(* with the dentry d.                                                      *)
Pending(c, d) == (c.stage = "answered" \/ c.more) /\ d \in {c.d, c.target}

(* Nothing that was done for a call still has to be told to the dentry d.  *)
Settled(d) == \A p \in Procs : Pending(call[p], d) => Harmless(call[p])

(* The names whose dentry is hashed and ought to be right.                 *)
Sound(n) == n \in Files \ blind /\ hash[n] # 0 /\ dentry[hash[n]].valid
Fresh(n) == Sound(n) /\ Settled(hash[n])

(* What the calls of the operations have in common. *)
Kinds ==
  \A p \in Procs :
    /\ call[p].key \in Keys
    /\ call[p].key \in {"attr", "mkfile", "mkdir"} => call[p].d = 0
    /\ call[p].key # "move" => call[p].target = 0
    /\ call[p].more => call[p].key = "put"

(* The semaphore of the directory; nobody looks up what is hashed.         *)
OneInDirectory ==
  /\ \A p, q \in Procs : call[p].key \in DirKeys /\ call[q].key \in DirKeys => p = q
  /\ \A p \in Procs : call[p].key = "attr" => hash[call[p].name] = 0

(* A dentry is hashed by its name, and who works with the file of a dentry *)
(* that is right has called it by that name.                               *)
ByName ==
  /\ \A n \in Names : hash[n] # 0 => dentry[hash[n]].name = n
  /\ \A n \in Files : Sound(n) =>
       \A p \in Procs : call[p].key \in FileKeys /\ call[p].d = hash[n] => call[p].name = n

(* What a lookup has been answered is so until the lookup ends. *)
FoundCurrent ==
  \A p \in Procs :
    LET n == call[p].name IN
    call[p].key = "attr" /\ call[p].stage = "answered" /\ Result("attr", call[p].reply) = "ok"
      /\ n \in Files \ blind
    => entry[n].kind # "none" /\ call[p].reply.attr = Attributes(entry[n])

DentriesCurrent ==
  \A n \in Files : Fresh(n) =>
    /\ entry[n].kind # "none" /\ dentry[hash[n]].attr = Attributes(entry[n])
    /\ dentry[hash[n]].page \subseteq {Text(entry[n]), <<>>}

(* The data that a read has been answered are those of the file. *)
Told(c) == c.stage = "answered" /\ c.reply.tag = "data"
Got(c)  == c.read \cup (IF Told(c) THEN {c.reply.attr.data} ELSE {})
ReadsCurrent ==
  \A p \in Procs, n \in Files :
    call[p].key = "get" /\ call[p].d = hash[n] /\ Fresh(n) => Got(call[p]) \subseteq {Text(entry[n])}

Current == Kinds /\ OneInDirectory /\ ByName /\ FoundCurrent /\ DentriesCurrent /\ ReadsCurrent
----------------------------------------------------------------------------
(* What the daemon says and does. *)
Same(e, f) ==
  /\ Attributes(e) = Attributes(f) /\ Text(e) = Text(f)
  /\ e.kind = "none" <=> f.kind = "none"

LEMMA NothingChanged ==
  ASSUME \A n \in Files : Same(entry'[n], entry[n])
  PROVE  Changed = {}
BY DEF Changed, Same

LEMMA SameFields ==
  ASSUME NEW e, NEW f, e.kind = f.kind, e.data = f.data, e.mode = f.mode, e.version = f.version,
         e.stored = f.stored
  PROVE  Same(e, f)
BY DEF Same, Attributes, Text

(* Loading the attributes of a version changes nothing of the file. *)
LEMMA LoadedSame ==
  ASSUME Entries(entry), NEW r, NEW n \in Files
  PROVE  Same(Loaded(r)[n], entry[n])
<1>1. CASE Found(r) /\ Loads(r)
  <2>1. Loaded(r) = [entry EXCEPT ![r.name].known = entry[r.name].known \cup {Real(r.version)}]
    BY <1>1 DEF Loaded, Entries, Found, Exists
  <2>2. IsEntry(entry[n])
    BY DEF Entries
  <2>3. ASSUME NEW x, NEW e, IsEntry(e)
        PROVE  Same([e EXCEPT !.known = x], e)
    <3>1. /\ [e EXCEPT !.known = x].kind = e.kind /\ [e EXCEPT !.known = x].data = e.data
          /\ [e EXCEPT !.known = x].mode = e.mode /\ [e EXCEPT !.known = x].version = e.version
          /\ [e EXCEPT !.known = x].stored = e.stored
      BY <2>3 DEF IsEntry
    <3> QED
      BY <3>1, SameFields
  <2>4. \/ Loaded(r)[n] = entry[n]
        \/ \E x : Loaded(r)[n] = [entry[n] EXCEPT !.known = x]
    BY <2>1 DEF Entries
  <2>5. CASE Loaded(r)[n] = entry[n]
    BY <2>5 DEF Same
  <2>6. CASE \E x : Loaded(r)[n] = [entry[n] EXCEPT !.known = x]
    <3>1. PICK x : Loaded(r)[n] = [entry[n] EXCEPT !.known = x]
      BY <2>6
    <3>2. Same([entry[n] EXCEPT !.known = x], entry[n])
      BY <2>2, <2>3
    <3> QED
      BY <3>1, <3>2
  <2> QED
    BY <2>4, <2>5, <2>6
<1>2. CASE ~(Found(r) /\ Loads(r))
  BY <1>2 DEF Loaded, Same
<1> QED
  BY <1>1, <1>2

LEMMA LoadChangesNothing ==
  ASSUME Entries(entry), NEW r, entry' = Loaded(r) \/ entry' = entry
  PROVE  Changed = {}
<1>1. CASE entry' = Loaded(r)
  BY <1>1, LoadedSame, NothingChanged
<1>2. CASE entry' = entry
  BY <1>2 DEF Changed
<1> QED
  BY <1>1, <1>2

(* How the daemon ends a request: with an answer that arrives or not, and  *)
(* with what is remembered of the changes that no dentry is told.          *)
Served(p, reply, seen) ==
  /\ call[p].stage = "sent" /\ Answer(p, reply)
  /\ blind' = (blind \ seen) \cup Bypassed(p, reply)
  /\ seen # {} => call[p].key = "attr" /\ seen \subseteq {call[p].name}

(* What is not told to the dentry is known to be blind: a file that a       *)
(* removal or a write has changed is answered with a success or is lost.   *)
Fair(p, reply) ==
  Changed # {} =>
    /\ call[p].key \notin {"attr", "get"}
    /\ call[p].key \in {"rmfile", "rmdir"} => reply = Lost \/ Result(call[p].key, reply) = "ok"
    /\ call[p].key = "put" => reply \in {Ok, Lost, Errno}
    /\ call[p].key = "ioctl" => Command(call[p].line) \notin {"version", "rescan"}

LEMMA AnswersServe ==
  ASSUME NEW p \in Procs, NEW reply, NEW seen, call[p].stage = "sent",
         Answers(p, reply, seen) \/ Fails(p, reply),
         seen # {} => call[p].key = "attr" /\ seen \subseteq {call[p].name},
         Fair(p, reply), Fair(p, Lost)
  PROVE  \E x, s : Served(p, x, s) /\ Fair(p, x)
<1>1. CASE Answer(p, reply) /\ blind' = (blind \ seen) \cup Bypassed(p, reply)
  <2>1. Served(p, reply, seen)
    BY <1>1 DEF Served
  <2> QED
    BY <2>1
<1>2. CASE Answer(p, Lost) /\ blind' = blind \cup Bypassed(p, Lost)
  <2>1. Served(p, Lost, {})
    BY <1>2 DEF Served
  <2> QED
    BY <2>1
<1>3. CASE Answer(p, reply) /\ blind' = blind \cup Bypassed(p, reply)
  <2>1. Served(p, reply, {})
    BY <1>3 DEF Served
  <2> QED
    BY <2>1
<1> QED
  BY <1>1, <1>2, <1>3 DEF Answers, Fails

LEMMA Results ==
  /\ \A key : Result(key, Ok) = "ok" /\ Result(key, None) # "ok" /\ Result(key, Errno) # "ok"
              /\ Result(key, Lost) # "ok"
  /\ \A key, a : Result(key, Reply("attr", a)) = "ok"
  /\ Lost # Ok /\ Errno # Lost
BY DEF Result, Ok, None, Errno, Lost, Reply

LEMMA ServeTells ==
  ASSUME Entries(entry), NEW p \in Procs, Serve(p)
  PROVE  \E reply, seen : Served(p, reply, seen) /\ Fair(p, reply)
<1>1. ASSUME NEW reply, Answers(p, reply, {}) \/ Fails(p, reply), call[p].stage = "sent", Changed = {}
      PROVE  \E x, s : Served(p, x, s) /\ Fair(p, x)
  BY <1>1, AnswersServe DEF Fair
<1>2. ASSUME NEW reply, Answers(p, reply, {}) \/ Fails(p, reply), call[p].stage = "sent",
             call[p].key \notin {"attr", "get", "ioctl"},
             call[p].key \in {"rmfile", "rmdir"} => Result(call[p].key, reply) = "ok",
             call[p].key = "put" => reply \in {Ok, Errno}
      PROVE  \E x, s : Served(p, x, s) /\ Fair(p, x)
  <2>1. Fair(p, reply) /\ Fair(p, Lost)
    BY <1>2 DEF Fair
  <2> QED
    BY <1>2, <2>1, AnswersServe
<1>3. CASE Attr(p)
  <2> DEFINE r == ParseName(call[p].line)
  <2>1. Changed = {} /\ call[p].stage = "sent" /\ call[p].key = "attr"
    BY <1>3, LoadChangesNothing DEF Attr, Serving
  <2>2. CASE Found(r)
    <3>1. Answers(p, Described(r), {call[p].name} \cap Files)
      BY <1>3, <2>2 DEF Attr
    <3>2. Fair(p, Described(r)) /\ Fair(p, Lost)
      BY <2>1 DEF Fair
    <3> QED
      BY <2>1, <3>1, <3>2, AnswersServe
  <2>3. CASE ~Found(r)
    <3>1. Answers(p, None, {})
      BY <1>3, <2>3 DEF Attr
    <3> QED
      BY <1>1, <2>1, <3>1
  <2> QED
    BY <2>2, <2>3
<1>4. ASSUME NEW key \in {"mkfile", "mkdir"}, NEW kind, Make(p, key, kind)
      PROVE  \E x, s : Served(p, x, s) /\ Fair(p, x)
  <2>1. call[p].stage = "sent" /\ call[p].key = key /\ \E reply : Answers(p, reply, {}) \/ Fails(p, reply)
    BY <1>4 DEF Make, Serving
  <2> QED
    BY <1>2, <2>1
<1>5. CASE Rmfile(p)
  <2> DEFINE r == ParseName(call[p].line)
  <2>1. /\ call[p].stage = "sent" /\ call[p].key = "rmfile"
        /\ Answers(p, Ok, {}) \/ (Answers(p, Errno, {}) /\ entry' = Loaded(r))
    BY <1>5 DEF Rmfile, Serving
  <2>2. CASE Answers(p, Ok, {})
    BY <1>2, <2>1, <2>2, Results
  <2>3. CASE Answers(p, Errno, {}) /\ entry' = Loaded(r)
    BY <1>1, <2>1, <2>3, LoadChangesNothing
  <2> QED
    BY <2>1, <2>2, <2>3
<1>6. CASE Rmdir(p)
  <2> DEFINE r == ParseName(call[p].line)
  <2>1. /\ call[p].stage = "sent" /\ call[p].key = "rmdir"
        /\ \/ Answers(p, Ok, {}) \/ Fails(p, Ok)
           \/ Answers(p, Errno, {}) /\ entry' = Loaded(r)
           \/ Answers(p, Errno, {}) /\ entry' = [entry EXCEPT ![r.name].disk = "none"]
    BY <1>6 DEF Rmdir, Serving
  <2>2. CASE Answers(p, Ok, {}) \/ Fails(p, Ok)
    BY <1>2, <2>1, <2>2, Results
  <2>3. CASE Answers(p, Errno, {}) /\ entry' = Loaded(r)
    BY <1>1, <2>1, <2>3, LoadChangesNothing
  <2>4. CASE Answers(p, Errno, {}) /\ entry' = [entry EXCEPT ![r.name].disk = "none"]
    <3>1. ASSUME NEW n \in Files PROVE Same(entry'[n], entry[n])
      <4>1. IsEntry(entry[n])
        BY DEF Entries
      <4>2. entry'[n] = entry[n] \/ entry'[n] = [entry[n] EXCEPT !.disk = "none"]
        BY <2>4 DEF Entries
      <4>3. /\ entry'[n].kind = entry[n].kind /\ entry'[n].data = entry[n].data
            /\ entry'[n].mode = entry[n].mode /\ entry'[n].version = entry[n].version
            /\ entry'[n].stored = entry[n].stored
        BY <4>1, <4>2 DEF IsEntry
      <4> QED
        BY <4>3, SameFields
    <3> QED
      BY <1>1, <2>1, <2>4, <3>1, NothingChanged
  <2> QED
    BY <2>1, <2>2, <2>3, <2>4
<1>7. CASE Truncfile(p)
  <2>1. /\ call[p].stage = "sent" /\ call[p].key = "truncfile"
        /\ \E reply : Answers(p, reply, {}) \/ Fails(p, reply)
    BY <1>7 DEF Truncfile, Serving, Changes
  <2> QED
    BY <1>2, <2>1
<1>8. CASE Move(p)
  <2>1. /\ call[p].stage = "sent" /\ call[p].key = "move"
        /\ \E reply : Answers(p, reply, {}) \/ Fails(p, reply)
    BY <1>8 DEF Move, Serving
  <2> QED
    BY <1>2, <2>1
<1>9. CASE Get(p)
  <2>1. Changed = {} /\ call[p].stage = "sent" /\ \E reply : Answers(p, reply, {})
    BY <1>9, LoadChangesNothing DEF Get, Serving
  <2> QED
    BY <1>1, <2>1
<1>10. CASE Put(p)
  <2>1. /\ call[p].stage = "sent" /\ call[p].key = "put"
        /\ \E reply \in {Ok, Errno} : Answers(p, reply, {}) \/ Fails(p, reply)
    BY <1>10 DEF Put, Serving, Changes
  <2> QED
    BY <1>2, <2>1
<1>11. CASE Setattr(p)
  <2>1. /\ call[p].stage = "sent" /\ call[p].key = "setattr"
        /\ \E reply : Answers(p, reply, {}) \/ Fails(p, reply)
    BY <1>11 DEF Setattr, Serving, Changes
  <2> QED
    BY <1>2, <2>1
<1>12. CASE Checkout(p)
  <2>1. /\ call[p].stage = "sent" /\ call[p].key = "ioctl"
        /\ \E reply : Answers(p, reply, {}) \/ Fails(p, reply)
        /\ Command(call[p].line) \notin {"version", "rescan"}
    BY <1>12 DEF Checkout, Serving
  <2>2. \A reply : Fair(p, reply)
    BY <2>1 DEF Fair
  <2> QED
    BY <2>1, <2>2, AnswersServe
<1>13. CASE OtherIoctl(p)
  <2>1. Changed = {} /\ call[p].stage = "sent" /\ \E reply : Answers(p, reply, {})
    BY <1>13, LoadChangesNothing DEF OtherIoctl, Serving
  <2> QED
    BY <1>1, <2>1
<1>14. CASE NotDone(p)
  <2>1. Changed = {} /\ call[p].stage = "sent" /\ \E reply : Fails(p, reply)
    BY <1>14, LoadChangesNothing DEF NotDone
  <2> QED
    BY <1>1, <2>1
<1> QED
  BY <1>3, <1>4, <1>5, <1>6, <1>7, <1>8, <1>9, <1>10, <1>11, <1>12, <1>13, <1>14
     DEF Serve, Mkfile, Mkdir
----------------------------------------------------------------------------
(* The call after the answer. *)
LEMMA AnswerIs ==
  ASSUME Calls(call), NEW p \in Procs, call[p].stage = "sent", NEW reply, Answer(p, reply)
  PROVE  /\ \A q \in Procs \ {p} : call'[q] = call[q]
         /\ call'[p].stage = "answered" /\ call'[p].reply = reply
         /\ call'[p].key = call[p].key /\ call'[p].d = call[p].d
         /\ call'[p].target = call[p].target /\ call'[p].name = call[p].name
         /\ call'[p].line = call[p].line /\ call'[p].more = call[p].more
         /\ call'[p].read = call[p].read
         /\ UNCHANGED <<dentry, hash, held>>
<1>1. IsCall(call[p])
  BY DEF Calls
<1>2. /\ \A q \in Procs \ {p} : call'[q] = call[q]
      /\ call'[p] = [call[p] EXCEPT !.stage = "answered", !.reply = reply]
  BY DEF Answer, Calls
<1>3. /\ call'[p].stage = "answered" /\ call'[p].reply = reply
      /\ call'[p].key = call[p].key /\ call'[p].d = call[p].d
      /\ call'[p].target = call[p].target /\ call'[p].name = call[p].name
      /\ call'[p].line = call[p].line /\ call'[p].more = call[p].more
      /\ call'[p].read = call[p].read
  BY <1>1, <1>2 DEF IsCall
<1> QED
  BY <1>2, <1>3 DEF Answer, kernel

(* What the daemon reads in the lines about a file of its listing. *)
LEMMA AttrMeans ==
  ASSUME NEW T, Tokens(T), \A n \in Files : Plain(n), Inv(T), NEW p \in Procs,
         call[p].key = "attr", call[p].name \in Files
  PROVE  ParseName(call[p].line) = Meant(call[p].name, <<>>)
<1> DEFINE n == call[p].name  v == Version(call[p].d)  to == <<"rw">>
<1>1. call[p].line = NameLine(n)
  BY CallsReady DEF OfLine
<1>2. n \in Names /\ Plain(n)
  BY VfsAssumption
<1>3. <<>> \in Stamps /\ WithVersion(n, <<>>) = n
  BY NoFields DEF WithVersion
<1>4. /\ {Blank, At, AtAt, "rw"} \subseteq T /\ "rw" # Blank
      /\ n \in Seq(T) /\ n # <<>> /\ <<>> \in Seq(T) /\ Plain(<<>>)
  BY <1>2, <1>3, WordsOfTokens DEF Tokens, Blank
<1>5. to \in Seq(T) /\ to # <<>> /\ ~Has(to, Blank)
  BY <1>4 DEF Has
<1> HIDE DEF n, to
<1>6. ParseName(NameLine(WithVersion(n, <<>>))) = Meant(n, <<>>)
  <2>1. {Blank, At, AtAt} \subseteq T /\ "rw" \in T
    BY <1>4
  <2> QED
    BY <1>2, <1>4, <1>5, <2>1, LinesUnderstood
<1> QED
  BY <1>1, <1>3, <1>6 DEF n

LEMMA GetMeans ==
  ASSUME NEW T, Tokens(T), \A n \in Files : Plain(n), Inv(T), NEW p \in Procs,
         call[p].key = "get", call[p].name \in Files
  PROVE  /\ ParseGet(call[p].line) = Meant(call[p].name, Version(call[p].d))
         /\ call[p].d \in Ids /\ Version(call[p].d) \in Stamps
<1> DEFINE n == call[p].name  v == Version(call[p].d)  to == <<"rw">>
<1>1. /\ call[p].line = GetLine(n, v) /\ call[p].d # 0
  BY CallsReady DEF OfLine, Dated
<1>2. n \in Names /\ Plain(n) /\ call[p].d \in Ids /\ v \in Stamps
  <2>1. call[p].d \in Ids
    BY <1>1 DEF Inv, Calls, IsCall
  <2> QED
    BY <2>1, InodeVersion, VfsAssumption
<1>4. /\ {Blank, At, AtAt, "rw"} \subseteq T /\ "rw" # Blank
      /\ n \in Seq(T) /\ n # <<>> /\ v \in Seq(T) /\ Plain(v)
  BY <1>2, WordsOfTokens DEF Tokens, Blank
<1>5. to \in Seq(T) /\ to # <<>> /\ ~Has(to, Blank)
  BY <1>4 DEF Has
<1> HIDE DEF n, to, v
<1>6. ParseGet(GetLine(n, v)) = Meant(n, v)
  <2>1. {Blank, At, AtAt} \subseteq T /\ "rw" \in T
    BY <1>4
  <2> QED
    BY <1>2, <1>4, <1>5, <2>1, LinesUnderstood
<1> QED
  BY <1>1, <1>2, <1>6 DEF n, v

(* The name of a block of a write. *)
LEMMA PutMeans ==
  ASSUME NEW T, Tokens(T), \A n \in Files : Plain(n), Inv(T), NEW p \in Procs,
         call[p].key = "put", call[p].name \in Files
  PROVE  ParsePut(call[p].line).name = call[p].name
<1> DEFINE n == call[p].name  v == Version(call[p].d)  to == <<"rw">>
<1>1. /\ call[p].d # 0 /\ \E x \in T : call[p].line = PutLine(WithVersion(n, v), v, x)
  BY CallsReady DEF OfLine, Dated
<1>2. n \in Names /\ Plain(n) /\ call[p].d \in Ids /\ v \in Stamps
  <2>1. call[p].d \in Ids
    BY <1>1 DEF Inv, Calls, IsCall
  <2> QED
    BY <2>1, InodeVersion, VfsAssumption
<1>3. PICK x \in T : call[p].line = PutLine(WithVersion(n, v), v, x)
  BY <1>1
<1>4. /\ {Blank, At, AtAt, "rw"} \subseteq T /\ "rw" # Blank
      /\ n \in Seq(T) /\ n # <<>> /\ v \in Seq(T) /\ Plain(v)
  BY <1>2, WordsOfTokens DEF Tokens, Blank
<1>5. to \in Seq(T) /\ to # <<>> /\ ~Has(to, Blank)
  BY <1>4 DEF Has
<1> HIDE DEF n, to, v
<1>6. ParsePut(PutLine(WithVersion(n, v), v, x)) = Meant(n, v)
  <2>1. {Blank, At, AtAt} \subseteq T /\ "rw" \in T
    BY <1>4
  <2> QED
    BY <1>2, <1>4, <1>5, <2>1, LinesUnderstood
<1> QED
  BY <1>3, <1>6 DEF n, v, Meant

(* What a successful lookup is told is true. *)
LEMMA AttrTells ==
  ASSUME NEW T, Tokens(T), \A n \in Files : Plain(n), Inv(T), NEW p \in Procs, Serve(p),
         call[p].key = "attr", call[p].name \in Files,
         Result("attr", call'[p].reply) = "ok"
  PROVE  /\ entry'[call[p].name].kind # "none"
         /\ call'[p].reply.attr = Attributes(entry'[call[p].name])
<1> DEFINE n == call[p].name  r == ParseName(call[p].line)
<1>1. Calls(call) /\ Entries(entry) /\ call[p].stage = "sent"
  BY DEF Inv, Serve, Attr, Mkfile, Mkdir, Make, Rmfile, Rmdir, Truncfile, Move, Get,
     Put, Setattr,
     Checkout, OtherIoctl, NotDone, Serving
<1>2. r.name = n /\ r.version = <<>> /\ Real(r.version) = HeadVersion
  <2>1. r = Meant(n, <<>>)
    BY AttrMeans
  <2> QED
    BY <2>1 DEF Meant, Real
<1>3. Attr(p) \/ NotDone(p)
  BY DEF Serve, Attr, Mkfile, Mkdir, Make, Rmfile, Rmdir, Truncfile, Move, Get, Put,
     Setattr,
     Checkout, OtherIoctl, Serving
<1>4. \A reply : Answer(p, reply) => call'[p].reply = reply
  BY <1>1, AnswerIs
<1>5. CASE NotDone(p)
  <2>1. Answer(p, None)
    BY <1>5 DEF NotDone, Fails
  <2> QED
    BY <1>4, <2>1, Results
<1>6. CASE Attr(p)
  <2>1. Found(r) /\ Answer(p, Described(r)) /\ Described(r) # None
    <3>1. (Answer(p, Described(r)) /\ Found(r)) \/ Answer(p, None) \/ Answer(p, Lost)
      BY <1>6 DEF Attr, Answers
    <3> QED
      BY <1>4, <3>1, Results
  <2>2. entry' = Loaded(r) /\ Same(entry'[n], entry[n]) /\ entry[n].kind # "none"
    BY <1>1, <1>2, <1>6, <2>1, LoadedSame DEF Attr, Found, Exists
  <2>3. Described(r).attr = Attributes(entry[n])
    <3>1. CASE Loads(r)
      BY <1>2, <3>1 DEF Described, Attributes, Reply, Loads
    <3>2. CASE ~Loads(r)
      BY <1>2, <2>1, <3>2 DEF Described, Reply
    <3> QED
      BY <3>1, <3>2
  <2> QED
    BY <1>4, <2>1, <2>2, <2>3 DEF Same
<1> QED
  BY <1>3, <1>5, <1>6

(* A read through a dentry that is right gets the data of the file. *)
LEMMA GetTells ==
  ASSUME NEW T, Tokens(T), \A n \in Files : Plain(n), Inv(T), NEW p \in Procs, Serve(p),
         call[p].key = "get", call[p].name \in Files, call'[p].reply.tag = "data",
         entry[call[p].name].kind # "none",
         Version(call[p].d) = Attributes(entry[call[p].name]).version
  PROVE  call'[p].reply.attr.data = Text(entry[call[p].name])
<1> DEFINE n == call[p].name  r == ParseGet(call[p].line)  e == entry[n]
           said(data) == Reply("data", Attribute(FALSE, data, "rw", <<>>))
<1>1. Calls(call) /\ Entries(entry) /\ call[p].stage = "sent"
  BY DEF Inv, Serve, Attr, Mkfile, Mkdir, Make, Rmfile, Rmdir, Truncfile, Move, Get,
     Put, Setattr,
     Checkout, OtherIoctl, NotDone, Serving
<1>2. r.name = n /\ r.version = Attributes(e).version
  <2>1. r = Meant(n, Version(call[p].d))
    BY GetMeans
  <2> QED
    BY <2>1 DEF Meant
<1>3. Get(p) \/ NotDone(p)
  BY DEF Serve, Attr, Mkfile, Mkdir, Make, Rmfile, Rmdir, Truncfile, Move, Get, Put,
     Setattr,
     Checkout, OtherIoctl, Serving
<1>4. \A reply : Answer(p, reply) => call'[p].reply = reply
  BY <1>1, AnswerIs
<1>5. None.tag # "data" /\ Lost.tag # "data"
  BY DEF None, Lost, Reply
<1>6. CASE NotDone(p)
  <2>1. Answer(p, None)
    BY <1>6 DEF NotDone, Fails
  <2> QED
    BY <1>4, <1>5, <2>1
<1>7. CASE Get(p)
  <2>1. \/ Answer(p, None) \/ Answer(p, Lost)
        \/ (e.kind = "remote" /\ Answer(p, said(Real(r.version))))
        \/ (e.kind \in {"out", "local"} /\ Answer(p, said(e.stored)))
    BY <1>2, <1>7 DEF Get, Answers, OnDisk
  <2>2. \A x : said(x).attr.data = x
    BY DEF Reply, Attribute
  <2>3. e.kind = "remote" => Real(r.version) = HeadVersion /\ Text(e) = HeadVersion
    BY <1>2 DEF Attributes, Attribute, Real, Text
  <2>4. e.kind # "remote" => Text(e) = e.stored
    BY DEF Text
  <2> HIDE DEF said
  <2> QED
    BY <1>4, <1>5, <2>1, <2>2, <2>3, <2>4
<1> QED
  BY <1>3, <1>6, <1>7
----------------------------------------------------------------------------
(* The daemon's step: the kernel stays as it is, p has an answer. *)
LEMMA ServeCurrent ==
  ASSUME NEW T, Tokens(T), \A n \in Files : Plain(n), Inv(T), Current, NEW p \in Procs, Serve(p)
  PROVE  Current'
<1>1. Calls(call) /\ Entries(entry)
  BY DEF Inv
<1>2. PICK reply, seen : Served(p, reply, seen) /\ Fair(p, reply)
  BY <1>1, ServeTells
<1>3. /\ call[p].stage = "sent"
      /\ \A q \in Procs \ {p} : call'[q] = call[q]
      /\ call'[p].stage = "answered" /\ call'[p].reply = reply
      /\ call'[p].key = call[p].key /\ call'[p].d = call[p].d
      /\ call'[p].target = call[p].target /\ call'[p].name = call[p].name
      /\ call'[p].line = call[p].line /\ call'[p].more = call[p].more
      /\ call'[p].read = call[p].read
      /\ UNCHANGED <<dentry, hash, held>>
  BY <1>1, <1>2, AnswerIs DEF Served
<1>4. \A q \in Procs :
        /\ call'[q].key = call[q].key /\ call'[q].d = call[q].d
        /\ call'[q].target = call[q].target /\ call'[q].name = call[q].name
        /\ call'[q].line = call[q].line /\ call'[q].more = call[q].more
  BY <1>3
(* A file that need not be blind any more is not hashed. *)
<1>5. ASSUME NEW n \in Files, n \notin blind'
      PROVE  /\ n \in blind => call[p].key = "attr" /\ n = call[p].name /\ hash[n] = 0
             /\ hash[n] # 0 => n \notin blind
  <2>1. n \in blind => n \in seen
    BY <1>2, <1>5 DEF Served
  <2> QED
    BY <1>2, <2>1 DEF Served, Current, OneInDirectory
(* What was changed, the operation of p knows. *)
<1>6. ASSUME NEW n \in Changed, n \notin blind'
      PROVE  /\ ~Keeps(p, reply) /\ hash[n] \in {call[p].d, call[p].target}
             /\ ~(hash[n] = 0 /\ call[p].key \in FileKeys)
  BY <1>2, <1>6 DEF Served, Bypassed
<1>7. ASSUME NEW n \in Files, n \notin Changed
      PROVE  Same(entry'[n], entry[n])
  BY <1>7 DEF Changed, Same
<1>8. Kinds' /\ OneInDirectory'
  BY <1>3, <1>4 DEF Current, Kinds, OneInDirectory
<1>9. \A n \in Files : Sound(n)' => Sound(n)
  BY <1>3, <1>5 DEF Sound
<1>10. ByName'
  <2>1. \A n \in Names : hash'[n] # 0 => dentry'[hash'[n]].name = n
    BY <1>3 DEF Current, ByName
  <2>2. ASSUME NEW n \in Files, Sound(n)', NEW q \in Procs, call'[q].key \in FileKeys,
               call'[q].d = hash'[n]
        PROVE  call'[q].name = n
    BY <1>3, <1>4, <1>9, <2>2 DEF Current, ByName
  <2> QED
    BY <2>1, <2>2 DEF ByName
<1>11. FoundCurrent'
  <2> SUFFICES ASSUME NEW q \in Procs, call'[q].key = "attr", call'[q].stage = "answered",
                      Result("attr", call'[q].reply) = "ok", call'[q].name \in Files \ blind'
               PROVE  /\ entry'[call'[q].name].kind # "none"
                      /\ call'[q].reply.attr = Attributes(entry'[call'[q].name])
    BY DEF FoundCurrent
  <2>1. CASE q = p
    BY <1>3, <2>1, AttrTells
  <2>2. CASE q # p
    <3> DEFINE n == call[q].name
    <3>1. call'[q] = call[q]
      BY <1>3, <2>2
    <3>2. call[p].key \notin DirKeys /\ hash[n] = 0
      BY <2>2, <3>1 DEF Current, OneInDirectory, DirKeys
    <3>3. n \in Files /\ n \notin blind
      BY <1>5, <3>1, <3>2 DEF DirKeys
    <3>4. call[p].key \in FileKeys
      <4>1. call[p].key \in DirKeys \cup FileKeys
        BY <1>1, <1>3 DEF Current, Kinds, Keys, Calls, IsCall
      <4> QED
        BY <3>2, <4>1
    <3>5. n \notin Changed
      BY <1>6, <3>1, <3>2, <3>4
    <3>6. entry[n].kind # "none" /\ call[q].reply.attr = Attributes(entry[n])
      BY <3>1, <3>3 DEF Current, FoundCurrent
    <3> QED
      BY <1>7, <3>1, <3>3, <3>5, <3>6 DEF Same
  <2> QED
    BY <2>1, <2>2
(* A dentry that ought to be right ought to have been, and its file is what *)
(* it was.                                                                 *)
<1>12. ASSUME NEW n \in Files, Fresh(n)'
       PROVE  Fresh(n) /\ n \notin Changed
  <2>1. Sound(n) /\ n \notin blind' /\ hash[n] # 0
    BY <1>3, <1>9, <1>12 DEF Fresh, Sound
  <2>2. \A q \in Procs : Pending(call'[q], hash[n]) => Harmless(call'[q])
    BY <1>3, <1>12 DEF Fresh, Settled
  <2>3. Settled(hash[n])
    <3> SUFFICES ASSUME NEW q \in Procs, Pending(call[q], hash[n]) PROVE Harmless(call[q])
      BY DEF Settled
    <3>1. CASE q # p
      BY <1>3, <2>2, <3>1
    <3>2. CASE q = p
      <4>1. call[p].more /\ Pending(call'[p], hash[n])
        BY <1>3, <3>2 DEF Pending
      <4> QED
        BY <1>3, <2>2, <4>1 DEF Harmless
    <3> QED
      BY <3>1, <3>2
  <2>4. n \notin Changed
    <3> SUFFICES ASSUME n \in Changed PROVE FALSE
      OBVIOUS
    <3>1. ~Keeps(p, reply) /\ hash[n] \in {call[p].d, call[p].target}
      BY <1>6, <2>1
    <3>2. Harmless(call'[p])
      <4>1. Pending(call'[p], hash[n])
        BY <1>3, <3>1 DEF Pending
      <4> QED
        BY <2>2, <4>1
    <3>3. /\ call[p].key \notin {"attr", "get"}
          /\ call[p].key \in {"rmfile", "rmdir"} => reply = Lost \/ Result(call[p].key, reply) = "ok"
          /\ call[p].key = "put" => reply \in {Ok, Lost, Errno}
          /\ call[p].key = "ioctl" => Command(call[p].line) \notin {"version", "rescan"}
      BY <1>2 DEF Fair
    <3>4. call[p].key \in {"rmfile", "rmdir", "put"} /\ Result(call[p].key, reply) # "ok"
      BY <1>3, <3>2, <3>3 DEF Harmless
    <3> QED
      BY <3>1, <3>3, <3>4, Results DEF Keeps
  <2> QED
    BY <2>1, <2>3, <2>4 DEF Fresh
<1>13. DentriesCurrent'
  <2> SUFFICES ASSUME NEW n \in Files, Fresh(n)'
               PROVE  /\ entry'[n].kind # "none"
                      /\ dentry'[hash'[n]].attr = Attributes(entry'[n])
                      /\ dentry'[hash'[n]].page \subseteq {Text(entry'[n]), <<>>}
    BY DEF DentriesCurrent
  <2>1. /\ entry[n].kind # "none" /\ dentry[hash[n]].attr = Attributes(entry[n])
        /\ dentry[hash[n]].page \subseteq {Text(entry[n]), <<>>}
    BY <1>12 DEF Current, DentriesCurrent
  <2> QED
    BY <1>3, <1>7, <1>12, <2>1 DEF Same
<1>14. ReadsCurrent'
  <2> SUFFICES ASSUME NEW q \in Procs, NEW n \in Files, call'[q].key = "get", call'[q].d = hash'[n],
                      Fresh(n)'
               PROVE  Got(call'[q]) \subseteq {Text(entry'[n])}
    BY DEF ReadsCurrent
  <2>1. Fresh(n) /\ n \notin Changed /\ Text(entry'[n]) = Text(entry[n])
    BY <1>7, <1>12 DEF Same
  <2>2. call[q].key = "get" /\ call[q].d = hash[n]
    BY <1>3, <1>4
  <2>3. Got(call[q]) \subseteq {Text(entry[n])}
    BY <2>1, <2>2 DEF Current, ReadsCurrent
  <2>4. CASE q # p
    BY <1>3, <2>1, <2>3, <2>4
  <2>5. CASE q = p
    <3>1. call[p].name = n
      BY <2>1, <2>2, <2>5 DEF Current, ByName, Fresh, FileKeys
    <3>2. entry[n].kind # "none" /\ dentry[hash[n]].attr = Attributes(entry[n])
      BY <2>1 DEF Current, DentriesCurrent
    <3>3. Version(call[p].d) = Attributes(entry[n]).version
      BY <2>2, <2>5, <3>2 DEF Version
    <3>4. Told(call'[p]) => call'[p].reply.attr.data = Text(entry[n])
      BY <2>2, <2>5, <3>1, <3>2, <3>3, GetTells DEF Told
    <3>5. call[p].read \subseteq {Text(entry[n])}
      BY <2>3, <2>5 DEF Got
    <3> QED
      BY <1>3, <2>1, <2>5, <3>4, <3>5 DEF Got
  <2> QED
    BY <2>4, <2>5
<1> QED
  BY <1>8, <1>10, <1>11, <1>13, <1>14 DEF Current
----------------------------------------------------------------------------
(* The steps of the kernel.  A dentry stays right when the step leaves it  *)
(* as it is, or takes a page that was read, and when no call ends that has *)
(* changed its file; a new one is right when it has been told the truth.   *)
Kept(dn, cs, d) ==
  /\ dentry[d].valid /\ dn[d].attr = dentry[d].attr
  /\ \/ dn[d].page = dentry[d].page
     \/ dn[d].page = {<<>>}
     \/ \E q \in Procs : call[q].key = "get" /\ call[q].d = d /\ dn[d].page = Got(call[q])
  /\ \A q \in Procs : Pending(call[q], d) => Harmless(call[q]) \/ cs[q] = call[q]

Made(dn, cs, n, d) ==
  /\ entry[n].kind # "none" /\ dn[d].attr = Attributes(entry[n]) /\ dn[d].page = {}
  /\ \A q \in Procs : cs[q].d # d

(* A call that begins. *)
Starts(c) ==
  /\ c.stage = "sent" /\ ~c.more /\ c.read = {} /\ c.key \in Keys
  /\ c.key \in {"attr", "mkfile", "mkdir"} => c.d = 0
  /\ c.key # "move" => c.target = 0

LEMMA CacheIs ==
  ASSUME NEW dn, NEW h, NEW hd, NEW cs, Kernel(dn, h, hd, cs)
  PROVE  /\ hash' = h /\ call' = cs
         /\ \A n \in Names : h[n] \in Ids => dentry'[h[n]] = dn[h[n]]
BY DEF Kernel, Used

LEMMA IdleIs ==
  /\ Idle.stage = "idle" /\ Idle.key = "idle" /\ Idle.more = FALSE /\ Idle.d = 0 /\ Idle.target = 0
  /\ Idle.key \in Keys /\ Idle.key \notin DirKeys /\ Idle.key \notin FileKeys
BY DEF Idle, Keys, DirKeys, FileKeys

LEMMA CacheCurrent ==
  ASSUME NEW T, Inv(T), Current, entry' = entry, blind \subseteq blind',
         NEW dn, NEW h, NEW hd, NEW cs, Kernel(dn, h, hd, cs),
         \A n \in Names : h[n] \in Ids \cup {0},
         \A q \in Procs : cs[q] = call[q] \/ cs[q] = Idle \/ Starts(cs[q]),
         \A q, r \in Procs : cs[q].key \in DirKeys /\ cs[r].key \in DirKeys => q = r,
         \A q \in Procs : cs[q].key = "attr" => h[cs[q].name] = 0,
         \A q \in Procs : cs[q] = call[q] \/ (cs[q].key \in FileKeys => cs[q].name = dn[cs[q].d].name),
         \A n \in Names : h[n] # 0 => dn[h[n]].name = n,
         \A n \in Files : n \notin blind' /\ h[n] # 0 /\ dn[h[n]].valid =>
           (h[n] = hash[n] /\ Kept(dn, cs, hash[n])) \/ Made(dn, cs, n, h[n])
  PROVE  Current'
<1>1. /\ hash' = h /\ call' = cs
      /\ \A n \in Names : h[n] # 0 => dentry'[h[n]] = dn[h[n]]
  BY CacheIs
<1>2. \A n \in Files : n \in Names
  BY VfsAssumption
<1>3. Kinds'
  BY <1>1, IdleIs DEF Current, Kinds, Starts
<1>4. OneInDirectory'
  BY <1>1 DEF OneInDirectory
<1>5. ASSUME NEW n \in Files, Sound(n)'
      PROVE  /\ n \notin blind' /\ n \notin blind /\ h[n] # 0 /\ dn[h[n]].valid
             /\ (h[n] = hash[n] /\ Kept(dn, cs, hash[n]) /\ Sound(n)) \/ Made(dn, cs, n, h[n])
  BY <1>1, <1>2, <1>5 DEF Sound, Kept
<1>6. ByName'
  <2>1. \A n \in Names : hash'[n] # 0 => dentry'[hash'[n]].name = n
    BY <1>1
  <2>2. ASSUME NEW n \in Files, Sound(n)', NEW q \in Procs, call'[q].key \in FileKeys,
               call'[q].d = hash'[n]
        PROVE  call'[q].name = n
    <3>1. h[n] # 0 /\ dn[h[n]].name = n /\ cs[q].d = h[n] /\ cs[q].key \in FileKeys
      BY <1>1, <1>2, <1>5, <2>2
    <3>2. CASE cs[q] = call[q]
      <4>1. h[n] = hash[n] /\ Sound(n)
        BY <1>5, <2>2, <3>1 DEF Made
      <4> QED
        BY <1>1, <3>1, <3>2, <4>1 DEF Current, ByName
    <3>3. CASE cs[q] # call[q]
      BY <1>1, <3>1, <3>3
    <3> QED
      BY <3>2, <3>3
  <2> QED
    BY <2>1, <2>2 DEF ByName
<1>7. ASSUME NEW q \in Procs, cs[q].stage = "answered"
      PROVE  cs[q] = call[q]
  BY <1>7, IdleIs DEF Starts
<1>8. FoundCurrent'
  <2> SUFFICES ASSUME NEW q \in Procs, call'[q].key = "attr", call'[q].stage = "answered",
                      Result("attr", call'[q].reply) = "ok", call'[q].name \in Files \ blind'
               PROVE  /\ entry'[call'[q].name].kind # "none"
                      /\ call'[q].reply.attr = Attributes(entry'[call'[q].name])
    BY DEF FoundCurrent
  <2>1. call'[q] = call[q] /\ call[q].name \in Files \ blind
    BY <1>1, <1>7
  <2>2. entry[call[q].name].kind # "none" /\ call[q].reply.attr = Attributes(entry[call[q].name])
    BY <2>1 DEF Current, FoundCurrent
  <2> QED
    BY <2>1, <2>2
(* The dentries that were there were as settled as they are. *)
<1>9. ASSUME NEW n \in Files, Fresh(n)', ~Made(dn, cs, n, h[n])
      PROVE  h[n] = hash[n] /\ Kept(dn, cs, hash[n]) /\ Fresh(n)
  <2>1. h[n] = hash[n] /\ Kept(dn, cs, hash[n]) /\ Sound(n)
    BY <1>5, <1>9 DEF Fresh
  <2>2. \A q \in Procs : Pending(cs[q], hash[n]) => Harmless(cs[q])
    BY <1>1, <1>9, <2>1 DEF Fresh, Settled
  <2>3. \A q \in Procs : Pending(call[q], hash[n]) => Harmless(call[q])
    BY <2>1, <2>2 DEF Kept
  <2> QED
    BY <2>1, <2>3 DEF Fresh, Settled
<1>10. DentriesCurrent'
  <2> SUFFICES ASSUME NEW n \in Files, Fresh(n)'
               PROVE  /\ entry'[n].kind # "none"
                      /\ dentry'[hash'[n]].attr = Attributes(entry'[n])
                      /\ dentry'[hash'[n]].page \subseteq {Text(entry'[n]), <<>>}
    BY DEF DentriesCurrent
  <2>1. dentry'[hash'[n]] = dn[h[n]]
    BY <1>1, <1>2, <1>5 DEF Fresh
  <2>2. CASE Made(dn, cs, n, h[n])
    BY <2>1, <2>2 DEF Made
  <2>3. CASE ~Made(dn, cs, n, h[n])
    <3>1. h[n] = hash[n] /\ Kept(dn, cs, hash[n]) /\ Fresh(n)
      BY <1>9, <2>3
    <3>2. /\ entry[n].kind # "none" /\ dentry[hash[n]].attr = Attributes(entry[n])
          /\ dentry[hash[n]].page \subseteq {Text(entry[n]), <<>>}
      BY <3>1 DEF Current, DentriesCurrent
    <3>3. dn[hash[n]].attr = dentry[hash[n]].attr
      BY <3>1 DEF Kept
    <3>4. dn[hash[n]].page \subseteq {Text(entry[n]), <<>>}
      <4>1. CASE dn[hash[n]].page \in {dentry[hash[n]].page, {<<>>}}
        BY <3>2, <4>1
      <4>2. ASSUME NEW q \in Procs, call[q].key = "get", call[q].d = hash[n],
                   dn[hash[n]].page = Got(call[q])
            PROVE  dn[hash[n]].page \subseteq {Text(entry[n]), <<>>}
        <5>1. Got(call[q]) \subseteq {Text(entry[n])}
          BY <3>1, <4>2 DEF Current, ReadsCurrent
        <5> QED
          BY <4>2, <5>1
      <4> QED
        BY <3>1, <4>1, <4>2 DEF Kept
    <3> QED
      BY <2>1, <3>1, <3>2, <3>3, <3>4
  <2> QED
    BY <2>2, <2>3
<1>11. ReadsCurrent'
  <2> SUFFICES ASSUME NEW q \in Procs, NEW n \in Files, call'[q].key = "get", call'[q].d = hash'[n],
                      Fresh(n)'
               PROVE  Got(call'[q]) \subseteq {Text(entry'[n])}
    BY DEF ReadsCurrent
  <2>1. h[n] = hash[n] /\ Fresh(n) /\ cs[q].d = hash[n] /\ cs[q].key = "get"
    BY <1>1, <1>9 DEF Made
  <2>2. CASE cs[q] = call[q]
    <3>1. Got(call[q]) \subseteq {Text(entry[n])}
      BY <2>1, <2>2 DEF Current, ReadsCurrent
    <3> QED
      BY <1>1, <2>2, <3>1
  <2>3. CASE Starts(cs[q])
    <3>1. Got(cs[q]) = {}
      BY <2>3 DEF Starts, Got, Told
    <3> QED
      BY <1>1, <3>1
  <2> QED
    BY <2>1, <2>2, <2>3, IdleIs
<1> QED
  BY <1>3, <1>4, <1>6, <1>8, <1>10, <1>11 DEF Current
----------------------------------------------------------------------------
(* Nothing new is hashed, and no dentry gets another name. *)
LEMMA KeepsCurrent ==
  ASSUME NEW T, Inv(T), Current, entry' = entry, blind \subseteq blind',
         NEW dn, NEW h, NEW hd, NEW cs, Kernel(dn, h, hd, cs),
         \A n \in Names : h[n] \in {0, hash[n]},
         \A q \in Procs : cs[q] = call[q] \/ cs[q] = Idle \/ Starts(cs[q]),
         \A q, r \in Procs : cs[q].key \in DirKeys /\ cs[r].key \in DirKeys => q = r,
         \A q \in Procs : cs[q] = call[q] \/ (cs[q].key = "attr" => h[cs[q].name] = 0),
         \A q \in Procs : cs[q] = call[q] \/ (cs[q].key \in FileKeys => cs[q].name = dn[cs[q].d].name),
         \A n \in Names : h[n] # 0 => dn[h[n]].name = dentry[h[n]].name,
         \A n \in Files : n \notin blind' /\ hash[n] # 0 /\ h[n] = hash[n] /\ dn[hash[n]].valid =>
           Kept(dn, cs, hash[n])
  PROVE  Current'
<1>1. Calls(call) /\ \A n \in Names : hash[n] \in Ids \cup {0}
  BY DEF Inv
<1>2. \A n \in Names : h[n] \in Ids \cup {0}
  BY <1>1
<1>3. \A n \in Names : h[n] # 0 => h[n] = hash[n] /\ dn[h[n]].name = n
  BY DEF Current, ByName
<1>4. ASSUME NEW q \in Procs, cs[q].key = "attr"
      PROVE  h[cs[q].name] = 0
  <2>1. CASE cs[q] = call[q]
    <3>1. call[q].name \in Names /\ hash[call[q].name] = 0
      BY <1>1, <1>4, <2>1 DEF Calls, IsCall, Current, OneInDirectory
    <3> QED
      BY <2>1, <3>1
  <2> QED
    BY <1>4, <2>1
<1>5. \A n \in Files : n \notin blind' /\ h[n] # 0 /\ dn[h[n]].valid =>
        (h[n] = hash[n] /\ Kept(dn, cs, hash[n])) \/ Made(dn, cs, n, h[n])
  BY <1>3, VfsAssumption
<1> QED
  BY <1>2, <1>3, <1>4, <1>5, CacheCurrent

(* A dentry that is not touched, while no call ends that has changed its file. *)
LEMMA Untouched ==
  ASSUME NEW dn, NEW cs, NEW d, dn[d] = dentry[d], dn[d].valid,
         \A q \in Procs : Pending(call[q], d) => Harmless(call[q]) \/ cs[q] = call[q]
  PROVE  Kept(dn, cs, d)
BY DEF Kept

LEMMA SameCallsCurrent ==
  ASSUME NEW T, Inv(T), Current, entry' = entry, blind' = blind, NEW h, NEW hd,
         Kernel(dentry, h, hd, call), \A n \in Names : h[n] \in {0, hash[n]}
  PROVE  Current'
<1>1. \A q, r \in Procs : call[q].key \in DirKeys /\ call[r].key \in DirKeys => q = r
  BY DEF Current, OneInDirectory
<1>2. \A n \in Files : dentry[hash[n]].valid => Kept(dentry, call, hash[n])
  BY Untouched
<1> QED
  BY <1>1, <1>2, KeepsCurrent

(* The steps that ask nothing of the daemon. *)
LEMMA KernelStepCurrent ==
  ASSUME NEW T, Inv(T), Current,
         \/ \E p \in Procs : Close(p) \/ TruncateInode(p) \/ \E n \in Names : Walk(p, n)
         \/ \E n \in Names : Prune(n)
  PROVE  Current'
<1>1. /\ Dentries(dentry) /\ hash = [n \in Names |-> hash[n]]
      /\ \A n \in Names : hash[n] \in Ids \cup {0}
  BY DEF Inv
<1>2. ASSUME NEW p \in Procs, Close(p) \/ \E n \in Names : Walk(p, n)
      PROVE  Current'
  <2>1. PICK hd : Kernel(dentry, hash, hd, call) /\ entry' = entry /\ blind' = blind
    BY <1>2 DEF Close, Walk
  <2> QED
    BY <2>1, SameCallsCurrent
<1>3. ASSUME NEW n \in Names, Prune(n)
      PROVE  Current'
  <2> DEFINE h == [hash EXCEPT ![n] = 0]
  <2>1. Kernel(dentry, h, held, call) /\ entry' = entry /\ blind' = blind
    BY <1>3 DEF Prune
  <2>2. \A m \in Names : h[m] \in {0, hash[m]}
    BY <1>1
  <2> HIDE DEF h
  <2> QED
    BY <2>1, <2>2, SameCallsCurrent
<1>4. ASSUME NEW p \in Procs, TruncateInode(p)
      PROVE  Current'
  <2> DEFINE d == held[p]
             dn == [dentry EXCEPT ![d].attr.data = <<>>, ![d].page = {}, ![d].valid = FALSE]
  <2>1. Kernel(dn, hash, held, call) /\ entry' = entry /\ blind' = blind
    BY <1>4 DEF TruncateInode
  <2>2. \A i \in Ids : i # d => dn[i] = dentry[i]
    BY <1>1 DEF Dentries
  <2>3. d \in Ids => ~dn[d].valid /\ dn[d].name = dentry[d].name
    <3> DEFINE d1 == [dentry EXCEPT ![d].attr.data = <<>>]
               d2 == [d1 EXCEPT ![d].page = {}]
    <3>1. Dentries(d1) /\ Like(dentry, d1)
      BY <1>1, DentryChanged
    <3>2. Dentries(d2) /\ Like(d1, d2)
      BY <3>1, DentryChanged
    <3>3. dn = [d2 EXCEPT ![d].valid = FALSE]
      OBVIOUS
    <3> HIDE DEF d2, dn
    <3>4. Dentries(dn) /\ Like(d2, dn)
      BY <3>2, <3>3, DentryChanged
    <3>5. d \in Ids => ~dn[d].valid
      BY <3>2, <3>3 DEF Dentries, IsDentry
    <3> QED
      BY <3>1, <3>2, <3>4, <3>5 DEF Like
  <2> HIDE DEF dn
  <2>4. \A n \in Names : hash[n] # 0 => dn[hash[n]].name = dentry[hash[n]].name
    BY <1>1, <2>2, <2>3
  <2>5. \A n \in Files : hash[n] # 0 /\ dn[hash[n]].valid => Kept(dn, call, hash[n])
    <3>1. \A n \in Files : n \in Names
      BY VfsAssumption
    <3> QED
      BY <1>1, <2>2, <2>3, <3>1, Untouched
  <2>6. \A q, r \in Procs : call[q].key \in DirKeys /\ call[r].key \in DirKeys => q = r
    BY DEF Current, OneInDirectory
  <2> QED
    BY <2>1, <2>4, <2>5, <2>6, KeepsCurrent
<1> QED
  BY <1>2, <1>3, <1>4
----------------------------------------------------------------------------
(* A call begins. *)
LEMMA BegunSent ==
  ASSUME NEW key, key # "idle", NEW d \in Ids \cup {0}, NEW t \in Ids \cup {0}, NEW n \in Names,
         NEW r, key = "move" => r \in Files, NEW l
  PROVE  LET c == Begun(key, d, t, n, r, l)
         IN  c.key = key /\ c.d = d /\ c.target = t /\ c.name = n /\ c.stage = "sent" /\ ~c.more
             /\ c.read = {}
<1> DEFINE c == Begun(key, d, t, n, r, l)
<1>1. c.key = key /\ c.d = d /\ c.target = t /\ c.name = n
  BY BegunCall
<1>2. c.stage = "sent" /\ ~c.more /\ c.read = {}
  BY DEF Begun, Idle
<1> QED
  BY <1>1, <1>2

LEMMA BeginCurrent ==
  ASSUME NEW T, Inv(T), Current, NEW p \in Procs, call[p] = Idle, entry' = entry, blind' = blind,
         NEW key \in DirKeys \cup FileKeys, NEW d \in Ids \cup {0}, NEW t \in Ids \cup {0},
         NEW n \in Names, NEW r, key = "move" => r \in Files, NEW l, NEW h,
         Kernel(dentry, h, held, Begin(p, key, d, t, n, r, l)),
         \A m \in Names : h[m] \in {0, hash[m]},
         key \in DirKeys => DirFree, key = "attr" => h[n] = 0,
         key \in {"attr", "mkfile", "mkdir"} => d = 0, key # "move" => t = 0,
         key \in FileKeys => n = dentry[d].name
  PROVE  Current'
<1> DEFINE c == Begun(key, d, t, n, r, l)  cs == Begin(p, key, d, t, n, r, l)
<1>1. key # "idle" /\ key \in Keys
  BY DEF DirKeys, FileKeys, Keys
<1>2. /\ c.key = key /\ c.d = d /\ c.target = t /\ c.name = n /\ c.stage = "sent" /\ ~c.more
      /\ c.read = {}
  BY <1>1, BegunSent
<1>3. cs[p] = c /\ \A q \in Procs : q # p => cs[q] = call[q]
  BY DEF Begin, Begun, Inv, Calls
<1> HIDE DEF c, cs
<1>4. Starts(c)
  BY <1>1, <1>2 DEF Starts
<1>5. \A q \in Procs : cs[q] = call[q] \/ cs[q] = Idle \/ Starts(cs[q])
  BY <1>3, <1>4
<1>6. \A q, s \in Procs : cs[q].key \in DirKeys /\ cs[s].key \in DirKeys => q = s
  BY <1>2, <1>3 DEF Current, OneInDirectory, DirFree
<1>7. \A q \in Procs : cs[q] = call[q] \/ (cs[q].key = "attr" => h[cs[q].name] = 0)
  BY <1>2, <1>3
<1>8. \A q \in Procs : cs[q] = call[q] \/ (cs[q].key \in FileKeys => cs[q].name = dentry[cs[q].d].name)
  BY <1>2, <1>3
<1>9. ASSUME NEW m \in Files, dentry[hash[m]].valid
      PROVE  Kept(dentry, cs, hash[m])
  <2>1. \A q \in Procs : Pending(call[q], hash[m]) => cs[q] = call[q]
    BY <1>3, IdleIs DEF Pending
  <2> QED
    BY <1>9, <2>1, Untouched
<1>10. Kernel(dentry, h, held, cs)
  BY DEF cs
<1> QED
  BY <1>5, <1>6, <1>7, <1>8, <1>9, <1>10, KeepsCurrent

LEMMA BeginFileCurrent ==
  ASSUME NEW T, Inv(T), Current, NEW p \in Procs, Holds(p), NEW key \in FileKeys, NEW l,
         BeginFile(p, key, l)
  PROVE  Current'
<1> DEFINE d == held[p]  n == dentry[d].name
<1>1. d \in Ids /\ d \in InUse /\ n \in Names
  BY DEF Holds, Inv, InUse, Used
<1>2. Kernel(dentry, hash, held, Begin(p, key, d, 0, n, <<>>, l)) /\ entry' = entry /\ blind' = blind
  BY DEF BeginFile
<1>3. call[p] = Idle /\ key \notin DirKeys /\ key \notin {"move", "attr", "mkfile", "mkdir"}
  BY DEF Holds, CanCall, FileKeys, DirKeys
<1> HIDE DEF d, n
<1>4. n = dentry[d].name
  BY DEF n
<1> QED
  BY <1>1, <1>2, <1>3, <1>4, BeginCurrent

LEMMA BeginDirectoryCurrent ==
  ASSUME NEW T, Inv(T), Current, NEW p \in Procs, NEW key \in DirKeys \ {"attr"},
         NEW d \in Ids \cup {0}, NEW t \in Ids \cup {0}, NEW n \in Names, NEW r,
         key = "move" => r \in Files, NEW l, BeginDirectory(p, key, d, t, n, r, l),
         key \in {"mkfile", "mkdir"} => d = 0, key # "move" => t = 0
  PROVE  Current'
<1>1. /\ Kernel(dentry, hash, held, Begin(p, key, d, t, n, r, l)) /\ DirFree /\ call[p] = Idle
      /\ entry' = entry /\ blind' = blind
  BY DEF BeginDirectory, CanCall
<1>2. key \notin FileKeys /\ key # "attr"
  BY DEF DirKeys, FileKeys
<1> QED
  BY <1>1, <1>2, BeginCurrent

LEMMA AllBeginCurrent ==
  ASSUME NEW T, Inv(T), Current, NEW p \in Procs,
         \/ \E n \in Names : \/ BeginLookup(p, n) \/ BeginCreate(p, n) \/ BeginRemove(p, n)
                             \/ \E r \in Files : BeginRename(p, n, r)
         \/ BeginOpenTruncating(p) \/ BeginRead(p) \/ BeginWrite(p)
         \/ \E mode \in Modes : BeginChmod(p, mode)
         \/ \E c \in Commands : BeginIoctl(p, c) \/ \E v \in Versions : BeginIoctlVersion(p, c, v)
  PROVE  Current'
<1>1. /\ hash = [n \in Names |-> hash[n]] /\ \A n \in Names : hash[n] \in Ids \cup {0}
      /\ \A n \in Files : n \in Names
  BY VfsAssumption DEF Inv
<1>2. ASSUME NEW n \in Names, BeginLookup(p, n)
      PROVE  Current'
  <2> DEFINE h == [hash EXCEPT ![n] = 0]
  <2>1. /\ Kernel(dentry, h, held, Begin(p, "attr", 0, 0, n, <<>>, NameLine(n)))
        /\ DirFree /\ call[p] = Idle /\ entry' = entry /\ blind' = blind
    BY <1>2 DEF BeginLookup, CanCall
  <2>2. h[n] = 0 /\ \A m \in Names : h[m] \in {0, hash[m]}
    BY <1>1
  <2>3. "attr" \in DirKeys \cup FileKeys /\ "attr" \notin FileKeys
    BY DEF DirKeys, FileKeys
  <2> HIDE DEF h
  <2> QED
    BY <2>1, <2>2, <2>3, BeginCurrent
<1>3. ASSUME NEW n \in Names, BeginCreate(p, n)
      PROVE  Current'
  <2>1. PICK key \in {"mkfile", "mkdir"} : \E l : BeginDirectory(p, key, 0, 0, n, <<>>, l)
    BY <1>3 DEF BeginCreate
  <2>2. key \in DirKeys \ {"attr"} /\ key # "move"
    BY DEF DirKeys
  <2> QED
    BY <2>1, <2>2, BeginDirectoryCurrent
<1>4. ASSUME NEW n \in Names, BeginRemove(p, n)
      PROVE  Current'
  <2>1. PICK key \in {"rmfile", "rmdir"} : \E l : BeginDirectory(p, key, hash[n], 0, n, <<>>, l)
    BY <1>4 DEF BeginRemove
  <2>2. key \in DirKeys \ {"attr"} /\ key # "move"
    BY DEF DirKeys
  <2> QED
    BY <1>1, <2>1, <2>2, BeginDirectoryCurrent
<1>5. ASSUME NEW n \in Names, NEW r \in Files, BeginRename(p, n, r)
      PROVE  Current'
  <2>1. \E l : BeginDirectory(p, "move", hash[n], hash[r], n, r, l)
    BY <1>5 DEF BeginRename
  <2>2. "move" \in DirKeys \ {"attr"}
    BY DEF DirKeys
  <2>3. hash[n] \in Ids \cup {0} /\ hash[r] \in Ids \cup {0}
    BY <1>1
  <2> QED
    BY <2>1, <2>2, <2>3, BeginDirectoryCurrent
<1>6. ASSUME Holds(p), NEW key \in {"truncfile", "get", "put", "setattr", "ioctl"}, NEW l,
             BeginFile(p, key, l)
      PROVE  Current'
  <2>1. key \in FileKeys
    BY DEF FileKeys
  <2> QED
    BY <1>6, <2>1, BeginFileCurrent
<1>7. CASE BeginOpenTruncating(p) \/ BeginRead(p) \/ BeginWrite(p)
  BY <1>6, <1>7 DEF BeginOpenTruncating, BeginRead, BeginWrite, HoldsFile
<1>8. CASE \E mode \in Modes : BeginChmod(p, mode)
  BY <1>6, <1>8 DEF BeginChmod
<1>9. CASE \E c \in Commands : BeginIoctl(p, c) \/ \E v \in Versions : BeginIoctlVersion(p, c, v)
  BY <1>6, <1>9 DEF BeginIoctl, BeginIoctlVersion, HoldsFile
<1> QED
  BY <1>2, <1>3, <1>4, <1>5, <1>7, <1>8, <1>9
----------------------------------------------------------------------------
(* An operation ends.  Its dentries are as they were, or not valid, unless *)
(* it has changed nothing; the names that are blind need not be right.     *)
LEMMA DoneCurrent ==
  ASSUME NEW T, Inv(T), Current, NEW p \in Procs, entry' = entry, blind \subseteq blind',
         NEW dn, NEW h, NEW hd, Kernel(dn, h, hd, Done(p)),
         \A n \in Names : h[n] \in {0, hash[n]},
         \A n \in Names : h[n] # 0 => dn[h[n]].name = dentry[h[n]].name,
         \A n \in Files : n \notin blind' /\ hash[n] # 0 /\ h[n] = hash[n] /\ dn[hash[n]].valid =>
           LET d == hash[n] IN
           /\ dentry[d].valid /\ dn[d].attr = dentry[d].attr
           /\ \/ dn[d].page = dentry[d].page \/ dn[d].page = {<<>>}
              \/ call[p].key = "get" /\ call[p].d = d /\ dn[d].page = Got(call[p])
           /\ Pending(call[p], d) => Harmless(call[p])
  PROVE  Current'
<1> DEFINE cs == Done(p)
<1>1. cs[p] = Idle /\ \A q \in Procs : q # p => cs[q] = call[q]
  BY DEF Done, Inv, Calls
<1> HIDE DEF cs
<1>2. \A q \in Procs : cs[q] = call[q] \/ cs[q] = Idle
  BY <1>1
<1>3. \A q, s \in Procs : cs[q].key \in DirKeys /\ cs[s].key \in DirKeys => q = s
  BY <1>1, IdleIs DEF Current, OneInDirectory
<1>4. /\ \A q \in Procs : cs[q] = call[q] \/ (cs[q].key = "attr" => h[cs[q].name] = 0)
      /\ \A q \in Procs : cs[q] = call[q] \/ (cs[q].key \in FileKeys => cs[q].name = dn[cs[q].d].name)
  BY <1>2, IdleIs
<1>5. \A n \in Files : n \notin blind' /\ hash[n] # 0 /\ h[n] = hash[n] /\ dn[hash[n]].valid =>
        Kept(dn, cs, hash[n])
  BY <1>1 DEF Kept
<1>6. Kernel(dn, h, hd, cs)
  BY DEF cs
<1> QED
  BY <1>2, <1>3, <1>4, <1>5, <1>6, KeepsCurrent

(* Every dentry but those of the call stays as it is, and those are not    *)
(* valid, unless the call has changed nothing.                             *)
LEMMA EndCurrent ==
  ASSUME NEW T, Inv(T), Current, NEW p \in Procs, entry' = entry, blind \subseteq blind',
         NEW dn, NEW h, NEW hd, Kernel(dn, h, hd, Done(p)),
         \A n \in Names : h[n] \in {0, hash[n]},
         \A n \in Names : h[n] # 0 => dn[h[n]].name = dentry[h[n]].name,
         \A n \in Names : h[n] # 0 /\ dn[h[n]].valid => dn[h[n]] = dentry[h[n]],
         \A n \in Files : n \notin blind' /\ h[n] # 0 /\ dn[h[n]].valid
                            /\ h[n] \in {call[p].d, call[p].target} => Harmless(call[p])
  PROVE  Current'
<1>1. \A n \in Files : n \in Names
  BY VfsAssumption
<1>2. ASSUME NEW n \in Files, n \notin blind', hash[n] # 0, h[n] = hash[n], dn[hash[n]].valid
      PROVE  LET d == hash[n] IN
             /\ dentry[d].valid /\ dn[d].attr = dentry[d].attr /\ dn[d].page = dentry[d].page
             /\ Pending(call[p], d) => Harmless(call[p])
  BY <1>1, <1>2 DEF Pending
<1> QED
  BY <1>2, DoneCurrent

LEMMA EndUnchanged ==
  ASSUME NEW T, Inv(T), Current, NEW p \in Procs, entry' = entry, blind \subseteq blind', NEW hd,
         Kernel(dentry, hash, hd, Done(p)),
         \A n \in Files : n \notin blind' /\ hash[n] # 0 /\ dentry[hash[n]].valid
                            /\ hash[n] \in {call[p].d, call[p].target} => Harmless(call[p])
  PROVE  Current'
<1>1. \A n \in Names : hash[n] \in {0, hash[n]}
  OBVIOUS
<1> QED
  BY <1>1, EndCurrent

LEMMA EndInvalid ==
  ASSUME NEW T, Inv(T), Current, NEW p \in Procs, call[p].key # "move", entry' = entry,
         blind \subseteq blind', NEW h, NEW hd, Kernel(Invalid(call[p].d), h, hd, Done(p)),
         \A n \in Names : h[n] \in {0, hash[n]}
  PROVE  Current'
<1> DEFINE d == call[p].d  dn == Invalid(d)
<1>1. Dentries(dentry) /\ \A n \in Names : hash[n] \in Ids \cup {0}
  BY DEF Inv
<1>2. Dentries(dn) /\ Like(dentry, dn)
  BY InvalidKept
<1>3. /\ \A i \in Ids : i # d => dn[i] = dentry[i]
      /\ d \in Ids => ~dn[d].valid
  BY <1>1 DEF Invalid, Dentries, IsDentry
<1>4. call[p].target = 0 /\ 0 \notin Ids /\ \A n \in Files : n \in Names
  BY VfsAssumption DEF Current, Kinds, Ids
<1>5. Kernel(dn, h, hd, Done(p))
  OBVIOUS
<1> HIDE DEF dn
<1>6. \A n \in Names : h[n] # 0 => dn[h[n]].name = dentry[h[n]].name
  BY <1>1, <1>2 DEF Like
<1>7. \A n \in Names : h[n] # 0 /\ dn[h[n]].valid => dn[h[n]] = dentry[h[n]] /\ h[n] # d
  BY <1>1, <1>3
<1>8. \A n \in Files : ~(h[n] # 0 /\ dn[h[n]].valid /\ h[n] \in {d, call[p].target})
  BY <1>4, <1>7
<1> QED
  BY <1>5, <1>6, <1>7, <1>8, EndCurrent
----------------------------------------------------------------------------
(* Lookups and the new files. *)
LEMMA LookupCurrent ==
  ASSUME NEW T, Inv(T), Current, NEW p \in Procs, Lookup(p)
  PROVE  Current'
<1>1. /\ call[p].stage = "answered" /\ call[p].key = "attr" /\ call[p].d = 0 /\ call[p].target = 0
      /\ call[p].name \in Names
  BY DEF Lookup, Answered, Current, Kinds, Inv, Calls, IsCall
<1>2. /\ Dentries(dentry) /\ hash = [n \in Names |-> hash[n]]
      /\ \A n \in Names : hash[n] \in Ids \cup {0}
      /\ \A n \in Files : n \in Names
  BY VfsAssumption DEF Inv
<1>3. CASE ~Succeeded(p)
  <2>1. Kernel(dentry, hash, held, Done(p)) /\ entry' = entry /\ blind' = blind
    BY <1>3 DEF Lookup, Return
  <2> QED
    BY <1>1, <2>1, EndUnchanged
<1>4. CASE Succeeded(p)
  <2>1. PICK d \in Free : Return(p, [dentry EXCEPT ![d] = Dentry(call[p].name, call[p].reply.attr)],
                                 [hash EXCEPT ![call[p].name] = d], [held EXCEPT ![p] = d], {})
    BY <1>4 DEF Lookup
  <2> DEFINE x == Dentry(call[p].name, call[p].reply.attr)  dn == [dentry EXCEPT ![d] = x]
             h == [hash EXCEPT ![call[p].name] = d]  cs == Done(p)
  <2>2. /\ Kernel(dn, h, [held EXCEPT ![p] = d], cs) /\ entry' = entry /\ blind' = blind
    BY <2>1 DEF Return
  <2>3. /\ d \in Ids /\ d # 0 /\ \A n \in Names : hash[n] # d
        /\ \A q \in Procs : call[q].d # d
    BY DEF Free, Used, Ids
  <2>4. cs[p] = Idle /\ \A q \in Procs : q # p => cs[q] = call[q]
    BY DEF Done, Inv, Calls
  <2>5. /\ dn[d] = x /\ \A i \in Ids : i # d => dn[i] = dentry[i]
        /\ x.name = call[p].name /\ x.attr = call[p].reply.attr /\ x.page = {}
    BY <1>2, <2>3 DEF Dentries, Dentry
  <2>6. h[call[p].name] = d /\ \A n \in Names : n # call[p].name => h[n] = hash[n]
    BY <1>1, <1>2
  <2> HIDE DEF dn, h, cs, x
  <2>7. \A n \in Names : h[n] \in Ids \cup {0}
    BY <1>2, <2>3, <2>6
  <2>8. \A q \in Procs : cs[q] = call[q] \/ cs[q] = Idle
    BY <2>4
  <2>9. \A q, r \in Procs : cs[q].key \in DirKeys /\ cs[r].key \in DirKeys => q = r
    BY <2>4, IdleIs DEF Current, OneInDirectory
  <2>10. \A q \in Procs : cs[q].key # "attr"
    BY <1>1, <2>4, IdleIs DEF Current, OneInDirectory, DirKeys
  <2>11. \A q \in Procs : cs[q] = call[q] \/ (cs[q].key \in FileKeys => cs[q].name = dn[cs[q].d].name)
    BY <2>8, IdleIs
  <2>12. \A n \in Names : h[n] # 0 => dn[h[n]].name = n
    BY <1>2, <2>3, <2>5, <2>6 DEF Current, ByName
  <2>13. ASSUME NEW n \in Files, n \notin blind', h[n] # 0, dn[h[n]].valid
         PROVE  (h[n] = hash[n] /\ Kept(dn, cs, hash[n])) \/ Made(dn, cs, n, h[n])
    <3>1. CASE n = call[p].name
      <4>1. entry[n].kind # "none" /\ call[p].reply.attr = Attributes(entry[n])
        BY <1>1, <1>4, <2>2, <2>13, <3>1 DEF Current, FoundCurrent, Succeeded
      <4>2. \A q \in Procs : cs[q].d # d
        BY <2>3, <2>4, IdleIs
      <4> QED
        BY <2>5, <2>6, <3>1, <4>1, <4>2 DEF Made
    <3>2. CASE n # call[p].name
      <4>1. h[n] = hash[n] /\ hash[n] \in Ids /\ dn[hash[n]] = dentry[hash[n]]
        BY <1>2, <2>3, <2>5, <2>6, <2>13, <3>2
      <4>2. \A q \in Procs : Pending(call[q], hash[n]) => cs[q] = call[q]
        BY <1>1, <2>4, <2>13, <4>1 DEF Pending
      <4> QED
        BY <2>13, <4>1, <4>2, Untouched
    <3> QED
      BY <3>1, <3>2
  <2> QED
    BY <2>2, <2>7, <2>8, <2>9, <2>10, <2>11, <2>12, <2>13, CacheCurrent
<1> QED
  BY <1>3, <1>4

LEMMA CreateCurrent ==
  ASSUME NEW T, Inv(T), Current, NEW p \in Procs, Create(p) \/ Makedir(p)
  PROVE  Current'
<1>1. call[p].key \in {"mkfile", "mkdir"} /\ call[p].d = 0 /\ call[p].target = 0
  BY DEF Create, Makedir, Answered, Current, Kinds
<1>2. /\ Dentries(dentry) /\ \A n \in Names : hash[n] \in Ids \cup {0}
      /\ \A n \in Files : n \in Names
  BY VfsAssumption DEF Inv
<1>3. CASE Return(p, dentry, hash, held, {})
  <2>1. Kernel(dentry, hash, held, Done(p)) /\ entry' = entry /\ blind' = blind
    BY <1>3 DEF Return
  <2> QED
    BY <1>1, <2>1, EndUnchanged
<1>4. CASE \E d \in Free : Return(p, [dentry EXCEPT ![d] = Dentry(call[p].name, call[p].reply.attr)],
                                  hash, [held EXCEPT ![p] = d], {})
  <2>1. PICK d \in Free : Return(p, [dentry EXCEPT ![d] = Dentry(call[p].name, call[p].reply.attr)],
                                 hash, [held EXCEPT ![p] = d], {})
    BY <1>4
  <2> DEFINE dn == [dentry EXCEPT ![d] = Dentry(call[p].name, call[p].reply.attr)]
  <2>2. Kernel(dn, hash, [held EXCEPT ![p] = d], Done(p)) /\ entry' = entry /\ blind' = blind
    BY <2>1 DEF Return
  <2>3. \A n \in Names : hash[n] # d
    BY DEF Free, Used
  <2>4. \A n \in Names : hash[n] # 0 => dn[hash[n]] = dentry[hash[n]]
    BY <1>2, <2>3 DEF Dentries
  <2> HIDE DEF dn
  <2>5. \A n \in Names : hash[n] \in {0, hash[n]}
    OBVIOUS
  <2> QED
    BY <1>1, <2>2, <2>4, <2>5, EndCurrent
<1> QED
  BY <1>3, <1>4 DEF Create, Makedir
----------------------------------------------------------------------------
(* unlink and rmdir. *)
LEMMA UnlinkCurrent ==
  ASSUME NEW T, Inv(T), Current, NEW p \in Procs, Unlink(p)
  PROVE  Current'
<1>1. /\ call[p].stage = "answered" /\ call[p].key \in {"rmfile", "rmdir"}
      /\ ~call[p].more /\ call[p].key # "move"
  BY DEF Unlink, Answered, Current, Kinds
<1>2. /\ hash = [n \in Names |-> hash[n]]
      /\ \A n \in Names : hash[n] \in Ids \cup {0}
  BY DEF Inv
<1>3. CASE ~Succeeded(p)
  <2>1. Kernel(dentry, hash, held, Done(p)) /\ entry' = entry /\ blind' = blind
    BY <1>3 DEF Unlink, Return
  <2>2. Harmless(call[p])
    BY <1>1, <1>3 DEF Harmless, Succeeded
  <2> QED
    BY <2>1, <2>2, EndUnchanged
<1>4. CASE Succeeded(p)
  <2> DEFINE d == call[p].d  h == [hash EXCEPT ![dentry[d].name] = 0]
  <2>1. Kernel(Invalid(d), h, held, Done(p)) /\ entry' = entry /\ blind' = blind
    BY <1>4 DEF Unlink, Return, Invalid
  <2>2. \A m \in Names : h[m] \in {0, hash[m]}
    BY <1>2
  <2> HIDE DEF h
  <2> QED
    BY <1>1, <2>1, <2>2, EndInvalid
<1> QED
  BY <1>3, <1>4

(* rename: neither dentry stays valid, whatever became of the move. *)
LEMMA RenameCurrent ==
  ASSUME NEW T, Inv(T), Current, NEW p \in Procs, Rename(p)
  PROVE  Current'
<1> DEFINE d == call[p].d  t == call[p].target  n == dentry[d].name  r == call[p].to
           inv == [i \in Ids |-> IF i \in {d, t} THEN [dentry[i] EXCEPT !.valid = FALSE]
                                 ELSE dentry[i]]
           dn == [inv EXCEPT ![d].name = r]
           h == [hash EXCEPT ![n] = 0, ![r] = IF t = 0 THEN 0 ELSE d]
<1>1. /\ call[p].key = "move" /\ d \in Ids /\ t \in Ids \cup {0} /\ r \in Names /\ r \in Files
      /\ n \in Names /\ 0 \notin Ids
  <2>1. call[p].key = "move" /\ d # 0
    BY CallsReady DEF Rename, Answered, Dated
  <2>2. d \in Ids /\ t \in Ids \cup {0} /\ r \in Files /\ 0 \notin Ids
    BY <2>1 DEF Inv, Calls, IsCall, Ids
  <2>3. n \in Names
    BY <2>2 DEF Inv, InUse, Used
  <2> QED
    BY <2>1, <2>2, <2>3, VfsAssumption
<1>2. /\ Dentries(dentry) /\ hash = [m \in Names |-> hash[m]]
      /\ \A m \in Names : hash[m] \in Ids \cup {0}
      /\ \A m \in Files : m \in Names
  BY VfsAssumption DEF Inv
<1>3. /\ \A i \in Ids : i \in {d, t} => ~inv[i].valid /\ inv[i].name = dentry[i].name
      /\ \A i \in Ids : i \notin {d, t} => inv[i] = dentry[i]
      /\ \A i \in Ids : IsDentry(inv[i])
  <2>1. ASSUME NEW y, IsDentry(y), NEW z
        PROVE  /\ IsDentry([y EXCEPT !.valid = z]) /\ [y EXCEPT !.valid = z].name = y.name
               /\ [y EXCEPT !.valid = z].valid = z
    BY <2>1 DEF IsDentry
  <2>2. \A i \in Ids : IsDentry(dentry[i])
    BY <1>2 DEF Dentries
  <2>3. ASSUME NEW i \in Ids, i \in {d, t}
        PROVE  inv[i].valid = FALSE /\ inv[i].name = dentry[i].name /\ IsDentry(inv[i])
    <3>1. inv[i] = [dentry[i] EXCEPT !.valid = FALSE]
      BY <2>3
    <3>2. IsDentry(dentry[i])
      BY <2>2
    <3> HIDE DEF inv, d, t, r, n, h
    <3>3. LET y == [dentry[i] EXCEPT !.valid = FALSE]
          IN  IsDentry(y) /\ y.name = dentry[i].name /\ y.valid = FALSE
      BY <2>1, <3>2
    <3> QED
      BY <3>1, <3>3
  <2>4. \A i \in Ids : i \notin {d, t} => inv[i] = dentry[i]
    OBVIOUS
  <2> HIDE DEF inv
  <2>5. \A i \in Ids : IsDentry(inv[i])
    BY <2>2, <2>3, <2>4
  <2> QED
    BY <2>3, <2>4, <2>5
<1>4. entry' = entry /\ blind' = blind
  BY DEF Rename, Return
<1>5. CASE ~Succeeded(p)
  <2>1. Kernel(inv, hash, held, Done(p))
    BY <1>5 DEF Rename, Return
  <2> HIDE DEF inv
  <2>2. /\ \A m \in Names : hash[m] # 0 => inv[hash[m]].name = dentry[hash[m]].name
        /\ \A m \in Names : hash[m] # 0 /\ inv[hash[m]].valid =>
             inv[hash[m]] = dentry[hash[m]] /\ hash[m] \notin {d, t}
    BY <1>2, <1>3
  <2>3. \A m \in Names : hash[m] \in {0, hash[m]}
    OBVIOUS
  <2>4. \A m \in Files : ~(hash[m] # 0 /\ inv[hash[m]].valid /\ hash[m] \in {d, t})
    BY <1>2, <2>2
  <2> QED
    BY <1>4, <2>1, <2>2, <2>3, <2>4, EndCurrent
<1>6. CASE Succeeded(p)
  <2> DEFINE cs == Done(p)
  <2>1. Kernel(dn, h, held, cs)
    BY <1>6 DEF Rename, Return
  <2>2. cs[p] = Idle /\ \A q \in Procs : q # p => cs[q] = call[q]
    BY DEF Done, Inv, Calls
  <2>3. /\ \A i \in Ids : i # d => dn[i] = inv[i]
        /\ dn[d].name = r /\ dn[d].valid = inv[d].valid
    <3>1. inv = [i \in Ids |-> inv[i]] /\ IsDentry(inv[d])
      BY <1>1, <1>3
    <3> HIDE DEF inv
    <3> QED
      BY <1>1, <3>1 DEF IsDentry
  <2>4. /\ h[r] \in {0, d}
        /\ \A m \in Names : m # r => h[m] \in {0, hash[m]}
        /\ n # r => h[n] = 0
        /\ \A m \in Names : m \notin {n, r} => h[m] = hash[m]
    BY <1>1, <1>2
  <2> HIDE DEF dn, h, cs, inv
  <2>5. \A m \in Names : h[m] \in Ids \cup {0}
    BY <1>1, <1>2, <2>4
  <2>6. \A q \in Procs : cs[q] = call[q] \/ cs[q] = Idle
    BY <2>2
  <2>7. \A q, s \in Procs : cs[q].key \in DirKeys /\ cs[s].key \in DirKeys => q = s
    BY <2>2, IdleIs DEF Current, OneInDirectory
  <2>8. \A q \in Procs : cs[q].key # "attr"
    BY <1>1, <2>2, IdleIs DEF Current, OneInDirectory, DirKeys
  <2>9. \A q \in Procs : cs[q] = call[q] \/ (cs[q].key \in FileKeys => cs[q].name = dn[cs[q].d].name)
    BY <2>6, IdleIs
  <2>10. ASSUME NEW m \in Names, m # r, h[m] # 0
         PROVE  h[m] = hash[m] /\ dentry[hash[m]].name = m /\ h[m] # d
    <3>1. h[m] = hash[m] /\ dentry[hash[m]].name = m
      BY <2>4, <2>10 DEF Current, ByName
    <3>2. m # n
      BY <1>1, <2>4, <2>10
    <3> QED
      BY <3>1, <3>2
  <2>11. \A m \in Names : h[m] # 0 => dn[h[m]].name = m
    <3> SUFFICES ASSUME NEW m \in Names, h[m] # 0 PROVE dn[h[m]].name = m
      OBVIOUS
    <3>1. CASE m = r
      BY <2>3, <2>4, <3>1
    <3>2. CASE m # r
      BY <1>2, <1>3, <2>3, <2>10, <3>2
    <3> QED
      BY <3>1, <3>2
  <2>12. ASSUME NEW m \in Files, m \notin blind', h[m] # 0, dn[h[m]].valid
         PROVE  h[m] = hash[m] /\ Kept(dn, cs, hash[m])
    <3>1. m # r
      BY <1>1, <1>3, <2>3, <2>4, <2>12
    <3>2. h[m] = hash[m] /\ hash[m] # d /\ hash[m] \in Ids
      BY <1>2, <2>10, <2>12, <3>1
    <3>3. hash[m] # t /\ dn[hash[m]] = dentry[hash[m]]
      BY <1>3, <2>3, <2>12, <3>2
    <3>4. \A q \in Procs : Pending(call[q], hash[m]) => cs[q] = call[q]
      BY <2>2, <3>2, <3>3 DEF Pending
    <3> QED
      BY <2>12, <3>2, <3>3, <3>4, Untouched
  <2> QED
    BY <1>4, <2>1, <2>5, <2>6, <2>7, <2>8, <2>9, <2>11, <2>12, CacheCurrent
<1> QED
  BY <1>5, <1>6

(* open and setattr. *)
LEMMA OpenCurrent ==
  ASSUME NEW T, Inv(T), Current, NEW p \in Procs, Open(p) \/ Chmod(p)
  PROVE  Current'
<1>1. PICK hd : Kernel(Invalid(call[p].d), hash, hd, Done(p)) /\ entry' = entry /\ blind' = blind
  BY DEF Open, Chmod, Return
<1>2. call[p].key # "move" /\ \A n \in Names : hash[n] \in {0, hash[n]}
  BY DEF Open, Chmod, Answered
<1> QED
  BY <1>1, <1>2, EndInvalid
----------------------------------------------------------------------------
(* write.  When a block fails after another one, the dentry stays valid:   *)
(* the file is blind.                                                      *)
LEMMA WriteEndCurrent ==
  ASSUME NEW T, Tokens(T), \A n \in Files : Plain(n), Inv(T), Current, NEW p \in Procs, WriteEnd(p)
  PROVE  Current'
<1>1. /\ call[p].stage = "answered" /\ call[p].key = "put" /\ call[p].target = 0
      /\ entry' = entry
  BY DEF WriteEnd, Answered, Current, Kinds
<1>2. CASE Succeeded(p)
  <2>1. Kernel(Invalid(call[p].d), hash, held, Done(p)) /\ blind' = blind
    BY <1>2 DEF WriteEnd
  <2>2. \A n \in Names : hash[n] \in {0, hash[n]}
    OBVIOUS
  <2> QED
    BY <1>1, <2>1, <2>2, EndInvalid
<1>3. CASE ~Succeeded(p)
  <2>1. /\ Kernel(dentry, hash, held, Done(p))
        /\ blind' = IF call[p].more THEN blind \cup {ParsePut(call[p].line).name} ELSE blind
    BY <1>3 DEF WriteEnd
  <2>2. ASSUME NEW n \in Files, n \notin blind', hash[n] # 0, dentry[hash[n]].valid,
               hash[n] \in {call[p].d, call[p].target}
        PROVE  Harmless(call[p])
    <3>1. call[p].name = n
      <4>1. Sound(n) /\ call[p].d = hash[n]
        BY <1>1, <2>1, <2>2 DEF Sound
      <4> QED
        BY <1>1, <4>1 DEF Current, ByName, FileKeys
    <3>2. ParsePut(call[p].line).name = n
      BY <1>1, <3>1, PutMeans
    <3>3. ~call[p].more
      BY <2>1, <2>2, <3>2
    <3> QED
      BY <1>1, <1>3, <3>3 DEF Harmless, Succeeded
  <2>3. blind \subseteq blind'
    BY <2>1
  <2> QED
    BY <1>1, <2>1, <2>2, <2>3, EndUnchanged
<1> QED
  BY <1>2, <1>3

(* Another block of a write goes out: the one before it is still to be told. *)
LEMMA NextBlockCurrent ==
  ASSUME NEW T, Inv(T), Current, NEW p \in Procs, NextBlock(p)
  PROVE  Current'
<1>1. /\ call[p].stage = "answered" /\ call[p].key = "put" /\ IsCall(call[p])
      /\ entry' = entry /\ blind' = blind /\ dentry' = dentry /\ hash' = hash
  BY DEF NextBlock, Answered, kernel, Inv, Calls
<1>2. /\ \A q \in Procs : q # p => call'[q] = call[q]
      /\ call'[p].stage = "sent" /\ call'[p].more = TRUE /\ call'[p].key = "put"
      /\ call'[p].d = call[p].d /\ call'[p].target = call[p].target /\ call'[p].name = call[p].name
  <2> DEFINE line == PutLine(Before(call[p].line, Blank), <<>>, Data[written + 1])
  <2>1. call' = [call EXCEPT ![p].stage = "sent", ![p].reply = None, ![p].more = TRUE,
                             ![p].line = line]
    BY DEF NextBlock
  <2> HIDE DEF line
  <2>2. /\ \A q \in Procs : q # p => call'[q] = call[q]
        /\ call'[p] = [call[p] EXCEPT !.stage = "sent", !.reply = None, !.more = TRUE, !.line = line]
    BY <2>1 DEF Inv, Calls
  <2> QED
    BY <1>1, <2>2 DEF IsCall
<1>3. Kinds' /\ OneInDirectory'
  BY <1>1, <1>2 DEF Current, Kinds, OneInDirectory, DirKeys, Keys, FileKeys
<1>4. \A n : Sound(n)' = Sound(n)
  BY <1>1 DEF Sound
<1>5. ByName'
  BY <1>1, <1>2, <1>4 DEF Current, ByName, FileKeys
<1>6. FoundCurrent'
  BY <1>1, <1>2 DEF Current, FoundCurrent
<1>7. ASSUME NEW n, Fresh(n)' PROVE Fresh(n)
  <2>1. \A q \in Procs : Pending(call'[q], hash[n]) => Harmless(call'[q])
    BY <1>1, <1>7 DEF Fresh, Settled
  <2>2. ASSUME NEW q \in Procs, Pending(call[q], hash[n]) PROVE Harmless(call[q])
    <3>1. CASE q = p
      BY <1>2, <2>1, <2>2, <3>1 DEF Pending, Harmless
    <3>2. CASE q # p
      BY <1>2, <2>1, <2>2, <3>2
    <3> QED
      BY <3>1, <3>2
  <2> QED
    BY <1>4, <1>7, <2>2 DEF Fresh, Settled
<1>8. DentriesCurrent'
  BY <1>1, <1>7 DEF Current, DentriesCurrent
<1>9. ReadsCurrent'
  <2> SUFFICES ASSUME NEW q \in Procs, NEW n \in Files, call'[q].key = "get", call'[q].d = hash'[n],
                      Fresh(n)'
               PROVE  Got(call'[q]) \subseteq {Text(entry'[n])}
    BY DEF ReadsCurrent
  <2>1. q # p
    BY <1>2
  <2> QED
    BY <1>1, <1>2, <1>7, <2>1 DEF Current, ReadsCurrent
<1> QED
  BY <1>3, <1>5, <1>6, <1>8, <1>9 DEF Current
----------------------------------------------------------------------------
(* Another get of a readpage goes out: what was read is kept.              *)
LEMMA NextGetCurrent ==
  ASSUME NEW T, Inv(T), Current, NEW p \in Procs, NextGet(p)
  PROVE  Current'
<1>1. /\ call[p].stage = "answered" /\ call[p].key = "get" /\ IsCall(call[p]) /\ ~call[p].more
      /\ entry' = entry /\ blind' = blind /\ dentry' = dentry /\ hash' = hash
      /\ call[p].reply.tag = "data"
  BY DEF NextGet, Answered, kernel, Inv, Calls, Current, Kinds
<1>2. /\ \A q \in Procs : q # p => call'[q] = call[q]
      /\ call'[p].stage = "sent" /\ call'[p].more = call[p].more /\ call'[p].key = "get"
      /\ call'[p].d = call[p].d /\ call'[p].target = call[p].target /\ call'[p].name = call[p].name
      /\ call'[p].read = Got(call[p])
  <2> DEFINE read == call[p].read \cup {call[p].reply.attr.data}
  <2>1. read = Got(call[p])
    BY <1>1 DEF Got, Told
  <2>2. call' = [call EXCEPT ![p].stage = "sent", ![p].reply = None, ![p].read = read]
    BY DEF NextGet, Inv, Calls
  <2> HIDE DEF read
  <2>3. /\ \A q \in Procs : q # p => call'[q] = call[q]
        /\ call'[p] = [call[p] EXCEPT !.stage = "sent", !.reply = None, !.read = read]
    BY <2>2 DEF Inv, Calls
  <2> QED
    BY <1>1, <2>1, <2>3 DEF IsCall
<1>3. Kinds' /\ OneInDirectory'
  BY <1>1, <1>2 DEF Current, Kinds, OneInDirectory, DirKeys, Keys, FileKeys
<1>4. \A n : Sound(n)' = Sound(n)
  BY <1>1 DEF Sound
<1>5. ByName'
  BY <1>1, <1>2, <1>4 DEF Current, ByName, FileKeys
<1>6. FoundCurrent'
  BY <1>1, <1>2 DEF Current, FoundCurrent
<1>7. ASSUME NEW n, Fresh(n)' PROVE Fresh(n)
  <2>1. \A q \in Procs : Pending(call'[q], hash[n]) => Harmless(call'[q])
    BY <1>1, <1>7 DEF Fresh, Settled
  <2>2. ASSUME NEW q \in Procs, Pending(call[q], hash[n]) PROVE Harmless(call[q])
    <3>1. CASE q = p
      BY <1>1, <3>1 DEF Harmless
    <3>2. CASE q # p
      BY <1>2, <2>1, <2>2, <3>2
    <3> QED
      BY <3>1, <3>2
  <2> QED
    BY <1>4, <1>7, <2>2 DEF Fresh, Settled
<1>8. DentriesCurrent'
  BY <1>1, <1>7 DEF Current, DentriesCurrent
<1>9. ReadsCurrent'
  <2> SUFFICES ASSUME NEW q \in Procs, NEW n \in Files, call'[q].key = "get", call'[q].d = hash'[n],
                      Fresh(n)'
               PROVE  Got(call'[q]) \subseteq {Text(entry'[n])}
    BY DEF ReadsCurrent
  <2>1. call[q].key = "get" /\ call[q].d = hash[n] /\ Fresh(n)
    BY <1>1, <1>2, <1>7
  <2>2. Got(call[q]) \subseteq {Text(entry[n])}
    BY <2>1 DEF Current, ReadsCurrent
  <2>3. Got(call'[q]) = Got(call[q])
    <3>1. CASE q = p
      BY <1>2, <3>1 DEF Got, Told
    <3>2. CASE q # p
      BY <1>2, <3>2
    <3> QED
      BY <3>1, <3>2
  <2> QED
    BY <1>1, <2>2, <2>3
<1> QED
  BY <1>3, <1>5, <1>6, <1>8, <1>9 DEF Current
----------------------------------------------------------------------------
(* A name of the listing has no version to cut off. *)
LEMMA NameOfFile ==
  ASSUME NEW n \in Files
  PROVE  Before(n, AtAt) = n
BY VfsAssumption DEF Before

(* readpage: the page is what was read, or empty. *)
LEMMA ReadpageCurrent ==
  ASSUME NEW T, Inv(T), Current, NEW p \in Procs, Readpage(p)
  PROVE  Current'
<1> DEFINE d == call[p].d
           page == IF Got(call[p]) = {} THEN {<<>>} ELSE Got(call[p])
           dn == [dentry EXCEPT ![d].page = page]
<1>1. /\ call[p].stage = "answered" /\ call[p].key = "get" /\ ~call[p].more /\ Harmless(call[p])
  BY DEF Readpage, Answered, Current, Kinds, Harmless
<1>2. /\ Dentries(dentry) /\ \A n \in Names : hash[n] \in Ids \cup {0}
      /\ \A n \in Names : hash[n] \in {0, hash[n]}
      /\ \A n \in Files : n \in Names
  BY VfsAssumption DEF Inv
<1>3. Return(p, dn, hash, held, {}) \/ Return(p, dentry, hash, held, {})
  BY <1>1 DEF Readpage, Got, Told
<1>4. CASE Return(p, dentry, hash, held, {})
  <2>1. Kernel(dentry, hash, held, Done(p)) /\ blind' = blind /\ entry' = entry
    BY <1>4 DEF Return
  <2> QED
    BY <1>1, <2>1, EndUnchanged
<1>5. CASE Return(p, dn, hash, held, {})
  <2>1. Kernel(dn, hash, held, Done(p)) /\ blind' = blind /\ entry' = entry
    BY <1>5 DEF Return
  <2>2. Dentries(dn) /\ Like(dentry, dn)
    BY <1>2, InvalidKept
  <2>3. /\ \A i \in Ids : i # d => dn[i] = dentry[i]
        /\ d \in Ids => /\ dn[d].valid = dentry[d].valid /\ dn[d].attr = dentry[d].attr
                        /\ dn[d].page = page
    BY <1>2 DEF Dentries, IsDentry
  <2> HIDE DEF dn
  <2>4. \A n \in Names : hash[n] # 0 => dn[hash[n]].name = dentry[hash[n]].name
    BY <1>2, <2>2 DEF Like
  <2>5. ASSUME NEW n \in Files, n \notin blind', hash[n] # 0, dn[hash[n]].valid
        PROVE  LET i == hash[n] IN
               /\ dentry[i].valid /\ dn[i].attr = dentry[i].attr
               /\ \/ dn[i].page = dentry[i].page \/ dn[i].page = {<<>>}
                  \/ call[p].key = "get" /\ call[p].d = i /\ dn[i].page = Got(call[p])
    BY <1>1, <1>2, <2>3, <2>5
  <2>6. \A n \in Files : n \notin blind' /\ hash[n] # 0 /\ hash[n] = hash[n] /\ dn[hash[n]].valid =>
          LET i == hash[n] IN
          /\ dentry[i].valid /\ dn[i].attr = dentry[i].attr
          /\ \/ dn[i].page = dentry[i].page \/ dn[i].page = {<<>>}
             \/ call[p].key = "get" /\ call[p].d = i /\ dn[i].page = Got(call[p])
          /\ Pending(call[p], i) => Harmless(call[p])
    BY <1>1, <2>5
  <2>7. entry' = entry /\ blind \subseteq blind' /\ Kernel(dn, hash, held, Done(p))
    BY <2>1
  <2> HIDE DEF d, page
  <2> QED
    BY <1>2, <2>4, <2>6, <2>7, DoneCurrent
<1> QED
  BY <1>3, <1>4, <1>5

(* ioctl: what makes the dentry valid again makes its file blind.          *)
LEMMA IoctlCurrent ==
  ASSUME NEW T, Inv(T), Current, NEW p \in Procs, Ioctl(p)
  PROVE  Current'
<1> DEFINE d == call[p].d  command == Command(call[p].line)
<1>1. /\ call[p].stage = "answered" /\ call[p].key = "ioctl" /\ ~call[p].more /\ call[p].target = 0
      /\ call[p].key # "move" /\ 0 \notin Ids
  BY DEF Ioctl, Answered, Current, Kinds, Ids
<1>2. /\ Dentries(dentry) /\ \A n \in Names : hash[n] \in Ids \cup {0}
      /\ \A n \in Names : hash[n] \in {0, hash[n]}
      /\ \A n \in Files : n \in Names
  BY VfsAssumption DEF Inv
<1>3. CASE /\ Return(p, dentry, hash, held, {})
           /\ command = "version" \/ (command = "rescan" /\ ~Succeeded(p))
  <2>1. Kernel(dentry, hash, held, Done(p)) /\ entry' = entry /\ blind' = blind
    BY <1>3 DEF Return
  <2>2. Harmless(call[p])
    BY <1>1, <1>3 DEF Harmless, Succeeded
  <2> QED
    BY <2>1, <2>2, EndUnchanged
<1>4. CASE Return(p, Invalid(d), hash, held, {})
  <2>1. Kernel(Invalid(d), hash, held, Done(p)) /\ entry' = entry /\ blind' = blind
    BY <1>4 DEF Return
  <2> QED
    BY <1>1, <1>2, <2>1, EndInvalid
<1>5. CASE Return(p, [dentry EXCEPT ![d].valid = TRUE], hash, held, {Before(dentry[d].name, AtAt)})
  <2> DEFINE dn == [dentry EXCEPT ![d].valid = TRUE]
  <2>1. /\ Kernel(dn, hash, held, Done(p)) /\ entry' = entry /\ blind \subseteq blind'
        /\ Before(dentry[d].name, AtAt) \in blind'
    BY <1>5 DEF Return
  <2>2. Dentries(dn) /\ Like(dentry, dn)
    BY <1>2, InvalidKept
  <2>3. \A i \in Ids : i # d => dn[i] = dentry[i]
    BY <1>2 DEF Dentries
  <2> HIDE DEF dn
  <2>4. \A n \in Names : hash[n] # 0 => dn[hash[n]].name = dentry[hash[n]].name
    BY <1>2, <2>2 DEF Like
  <2>5. ASSUME NEW n \in Files, n \notin blind', hash[n] # 0, dn[hash[n]].valid
        PROVE  LET i == hash[n] IN
               /\ dentry[i].valid /\ dn[i].attr = dentry[i].attr /\ dn[i].page = dentry[i].page
               /\ ~Pending(call[p], i)
    <3>1. hash[n] \in Ids /\ dentry[hash[n]].name = n
      BY <1>2, <2>5 DEF Current, ByName
    <3>2. hash[n] # d
      BY <2>1, <2>5, <3>1, NameOfFile
    <3> QED
      BY <1>1, <2>3, <2>5, <3>1, <3>2 DEF Pending
  <2> QED
    BY <1>2, <2>1, <2>4, <2>5, DoneCurrent
<1> QED
  BY <1>3, <1>4, <1>5 DEF Ioctl

LEMMA FinishCurrent ==
  ASSUME NEW T, Tokens(T), \A n \in Files : Plain(n), Inv(T), Current, NEW p \in Procs, Finish(p)
  PROVE  Current'
BY LookupCurrent, CreateCurrent, UnlinkCurrent, RenameCurrent, OpenCurrent,
   NextBlockCurrent,
   WriteEndCurrent, NextGetCurrent, ReadpageCurrent, IoctlCurrent DEF Finish
----------------------------------------------------------------------------
LEMMA InitCurrent ==
  ASSUME Init
  PROVE  Current
<1>1. /\ \A n \in Names : hash[n] = 0
      /\ \A n \in Files : n \in Names
      /\ \A p \in Procs : call[p] = Idle
  BY VfsAssumption DEF Init
<1>2. Kinds /\ OneInDirectory /\ FoundCurrent
  BY <1>1, IdleIs DEF Kinds, OneInDirectory, FoundCurrent
<1>3. \A n \in Files : ~Sound(n)
  BY <1>1 DEF Sound
<1> QED
  BY <1>1, <1>2, <1>3 DEF Current, ByName, DentriesCurrent, ReadsCurrent, Fresh

LEMMA StepCurrent ==
  ASSUME NEW T, Tokens(T), \A n \in Files : Plain(n), Inv(T), Current, [Next]_vars
  PROVE  Current'
<1>1. ASSUME NEW p \in Procs, Serve(p) PROVE Current'
  BY <1>1, ServeCurrent
<1>2. ASSUME NEW p \in Procs, Finish(p) PROVE Current'
  BY <1>2, FinishCurrent
<1>3. CASE \/ \E p \in Procs : Close(p) \/ TruncateInode(p) \/ \E n \in Names : Walk(p, n)
           \/ \E n \in Names : Prune(n)
  BY <1>3, KernelStepCurrent
<1>4. ASSUME NEW p \in Procs,
             \/ \E n \in Names : \/ BeginLookup(p, n) \/ BeginCreate(p, n) \/ BeginRemove(p, n)
                                 \/ \E r \in Files : BeginRename(p, n, r)
             \/ BeginOpenTruncating(p) \/ BeginRead(p) \/ BeginWrite(p)
             \/ \E mode \in Modes : BeginChmod(p, mode)
             \/ \E c \in Commands : BeginIoctl(p, c) \/ \E v \in Versions : BeginIoctlVersion(p, c, v)
      PROVE  Current'
  BY <1>4, AllBeginCurrent
<1>5. CASE UNCHANGED vars
  BY <1>5 DEF vars, kernel, Current, Kinds, OneInDirectory, ByName, FoundCurrent,
     DentriesCurrent,
     ReadsCurrent, Fresh, Sound, Settled
<1>6. ASSUME NEW p \in Procs,
             \/ \E c \in Commands \cap Unversioned : BeginIoctl(p, c)
             \/ \E c \in Commands \ Unversioned, v \in Versions : BeginIoctlVersion(p, c, v)
      PROVE  \E c \in Commands : BeginIoctl(p, c) \/ \E v \in Versions : BeginIoctlVersion(p, c, v)
  BY <1>6
<1> QED
  BY <1>1, <1>2, <1>3, <1>4, <1>5, <1>6 DEF Next

LEMMA AlwaysCurrent ==
  ASSUME NEW T, Tokens(T), \A n \in Files : Plain(n)
  PROVE  Spec => [](Inv(T) /\ Current)
<1>1. Init => Inv(T) /\ Current
  BY InitInv, InitCurrent
<1>2. Inv(T) /\ Current /\ [Next]_vars => Inv(T)' /\ Current'
  BY StepInv, StepCurrent
<1> QED
  BY <1>1, <1>2, PTL DEF Spec

(* A dentry that nobody is working with is settled. *)
LEMMA TrustedIsFresh ==
  ASSUME NEW n \in Trusted
  PROVE  n \in Files /\ Fresh(n)
BY DEF Trusted, Fresh, Sound, Settled, Quiet, Pending
----------------------------------------------------------------------------
(* cvsfs_lookup_validate (dir.c) trusts a dentry by its d_time: the inode  *)
(* under such a dentry says of the file what the daemon would say.  The    *)
(* files in blind are excepted: what changes them goes past their dentry,  *)
(* which is then right only by chance (another name for the file, an       *)
(* answer that was lost, a later block that failed, ioctl).  For the other *)
(* files it holds wherever the processes' steps meet.                      *)
THEOREM CleanIsCurrent ==
  ASSUME NEW T, Tokens(T), \A n \in Files : Plain(n)
  PROVE  Spec => []CleanMeansCurrent
<1>1. Current => CleanMeansCurrent
  BY TrustedIsFresh DEF Current, DentriesCurrent, CleanMeansCurrent
<1> QED
  BY <1>1, AlwaysCurrent, PTL

(* The pages that cvsfs_readpage (file.c) leaves in the page cache of such *)
(* an inode, of a file that is not blind, are the contents of the file or  *)
(* empty: never those that it had before, and of one contents although     *)
(* several gets may have brought them.                                     *)
THEOREM PagesAreCurrent ==
  ASSUME NEW T, Tokens(T), \A n \in Files : Plain(n)
  PROVE  Spec => []PagesCurrent
<1>1. Current => PagesCurrent
  BY TrustedIsFresh DEF Current, DentriesCurrent, PagesCurrent
<1> QED
  BY <1>1, AlwaysCurrent, PTL
----------------------------------------------------------------------------
(* Only the daemon's step changes a file. *)
LEMMA OnlyServeChanges ==
  ASSUME [Next]_vars, entry' # entry
  PROVE  \E p \in Procs : Serve(p)
<1>1. ASSUME NEW q \in Procs, Finish(q) PROVE entry' = entry
  <2>1. CASE Lookup(q) \/ Create(q) \/ Makedir(q)
    BY <2>1 DEF Lookup, Create, Makedir, Return
  <2>2. CASE Unlink(q) \/ Rename(q)
    BY <2>2 DEF Unlink, Rename, Return
  <2>3. CASE Open(q) \/ Chmod(q) \/ Ioctl(q)
    BY <2>3 DEF Open, Chmod, Ioctl, Return
  <2>4. CASE WriteEnd(q) \/ Readpage(q) \/ NextBlock(q) \/ NextGet(q)
    BY <2>4 DEF WriteEnd, Readpage, NextBlock, NextGet, Return
  <2> QED
    BY <1>1, <2>1, <2>2, <2>3, <2>4 DEF Finish
<1>2. ASSUME NEW q \in Procs,
             \/ BeginOpenTruncating(q) \/ BeginRead(q) \/ BeginWrite(q)
             \/ \E mode \in Modes : BeginChmod(q, mode)
             \/ \E c \in Commands \cap Unversioned : BeginIoctl(q, c)
             \/ \E c \in Commands \ Unversioned, v \in Versions : BeginIoctlVersion(q, c, v)
      PROVE  entry' = entry
  BY <1>2 DEF BeginOpenTruncating, BeginRead, BeginWrite, BeginChmod, BeginIoctl,
     BeginIoctlVersion,
     BeginFile
<1>3. ASSUME NEW q \in Procs, NEW n \in Names,
             \/ BeginLookup(q, n) \/ BeginCreate(q, n) \/ BeginRemove(q, n)
             \/ \E r \in Files : BeginRename(q, n, r)
      PROVE  entry' = entry
  BY <1>3 DEF BeginLookup, BeginCreate, BeginRemove, BeginRename, BeginDirectory
<1> QED
  BY <1>1, <1>2, <1>3 DEF Next, Close, TruncateInode, Walk, Prune, vars

(* What is on the disk under an entry, and in which layer.                 *)
SameFile(e, f) == e.kind = f.kind /\ e.disk = f.disk /\ e.stored = f.stored

LEMMA LoadedFile ==
  ASSUME Entries(entry), NEW r, NEW n \in Files
  PROVE  SameFile(Loaded(r)[n], entry[n])
<1>1. CASE Found(r) /\ Loads(r)
  <2>1. IsEntry(entry[n])
    BY DEF Entries
  <2>2. Loaded(r) = [entry EXCEPT ![r.name].known = entry[r.name].known \cup {Real(r.version)}]
    BY <1>1 DEF Loaded, Entries, Found, Exists
  <2>3. \/ Loaded(r)[n] = entry[n]
        \/ \E x : Loaded(r)[n] = [entry[n] EXCEPT !.known = x]
    BY <2>2 DEF Entries
  <2> QED
    BY <2>1, <2>3 DEF IsEntry, SameFile
<1>2. CASE ~(Found(r) /\ Loads(r))
  BY <1>2 DEF Loaded, SameFile
<1> QED
  BY <1>1, <1>2

LEMMA SetDataFile ==
  ASSUME NEW e, IsEntry(e)
  PROVE  SameFile(SetData(e), e)
<1> DEFINE e1 == [e EXCEPT !.data = e.stored]  e2 == [e1 EXCEPT !.mode = e.access]
<1>1. IsEntry(e1) /\ SameFile(e1, e)
  BY DEF IsEntry, SameFile
<1> HIDE DEF e1
<1>2. SameFile(e2, e1)
  BY <1>1 DEF IsEntry, SameFile
<1>3. SetData(e) = [[e EXCEPT !.data = e.stored] EXCEPT !.mode = e.access]
  BY DEF SetData
<1> QED
  BY <1>1, <1>2, <1>3 DEF SameFile, e1

(* What is where a file was moved to: the file, unless the entry that it   *)
(* has replaced is of a checked-out file that is gone.                     *)
LEMMA RenamedFile ==
  ASSUME Entries(entry), NEW n \in Files, NEW to \in Files
  PROVE  /\ IsEntry(Renamed(n, to))
         /\ Unnamed(n, to) => entry[to].kind = "out" /\ entry[to].disk = "none"
         /\ ~Unnamed(n, to) => /\ Renamed(n, to).disk = entry[n].disk
                               /\ Renamed(n, to).stored = entry[n].stored
         /\ entry[to].kind # "none" => Renamed(n, to).kind = entry[to].kind
<1> DEFINE t == Target(n, to)  t1 == [t EXCEPT !.disk = entry[n].disk]
           t2 == [t1 EXCEPT !.stored = entry[n].stored]
           t3 == [t2 EXCEPT !.access = entry[n].access]
<1>1. IsEntry(t)
  BY TargetEntry
<1>2. entry[to].kind # "none" => t = entry[to]
  BY DEF Target
<1>3. entry[to].kind = "none" => t.kind # "out"
  BY DEF Target, Entry
<1>4. Renamed(n, to) = IF Unnamed(n, to) THEN t ELSE t3
  BY DEF Renamed
<1>5. Unnamed(n, to) <=> t.kind = "out" /\ t.disk = "none"
  BY DEF Unnamed
<1> HIDE DEF t
<1>6. IsEntry(t1) /\ t1.disk = entry[n].disk /\ t1.kind = t.kind
  BY <1>1 DEF IsEntry
<1> HIDE DEF t1
<1>7. IsEntry(t2) /\ t2.disk = entry[n].disk /\ t2.kind = t.kind /\ t2.stored = entry[n].stored
  BY <1>6 DEF IsEntry
<1> HIDE DEF t2
<1>8. IsEntry(t3) /\ t3.disk = entry[n].disk /\ t3.kind = t.kind /\ t3.stored = entry[n].stored
  BY <1>7 DEF IsEntry
<1> HIDE DEF t3
<1> QED
  BY <1>1, <1>2, <1>3, <1>4, <1>5, <1>8

LEMMA ServeAsked ==
  ASSUME Entries(entry), Calls(call), NEW p \in Procs, Serve(p), NEW n \in Files, Writable(n),
         ~(OnDisk(entry'[n]) /\ entry'[n].stored = entry[n].stored)
  PROVE  Asked(p, n)
<1>1. /\ entry[n].kind \in {"out", "local"} /\ entry[n].disk = "file"
      /\ ~SameFile(entry'[n], entry[n])
  BY DEF Writable, OnDisk, SameFile
<1>2. PICK reply, seen : Served(p, reply, seen) /\ Fair(p, reply)
  BY ServeTells
<1>3. /\ call[p].stage = "sent" /\ call'[p].stage = "answered"
      /\ \A x : Answer(p, x) => call'[p].reply = x
  BY <1>2, AnswerIs DEF Served
<1>4. \A r : entry' # Loaded(r)
  BY <1>1, LoadedFile
<1>5. entry' # entry
  BY <1>1 DEF SameFile
(* An entry that was replaced was that of n. *)
<1>6. ASSUME NEW m, NEW x, entry' = [entry EXCEPT ![m] = x] PROVE m = n /\ ~SameFile(x, entry[n])
  <2>1. m # n => entry'[n] = entry[n]
    BY <1>6 DEF Entries
  <2>2. m = n => entry'[n] = x
    BY <1>6 DEF Entries
  <2> QED
    BY <1>1, <2>1, <2>2 DEF SameFile
<1>7. CASE Attr(p) \/ Get(p)
  BY <1>4, <1>7 DEF Attr, Get
<1>8. ASSUME NEW key, NEW kind, Make(p, key, kind) PROVE FALSE
  <2> DEFINE m == ParseMode(call[p].line).name
  <2>1. /\ ~Exists(m) /\ m \in Files
        /\ \E x : entry' = [entry EXCEPT ![m] = x]
    BY <1>4, <1>5, <1>8 DEF Make
  <2>2. m = n
    BY <1>6, <2>1
  <2> QED
    BY <1>1, <2>1, <2>2 DEF Exists
<1>9. CASE Rmfile(p)
  <2> DEFINE m == ParseName(call[p].line).name
  <2>1. /\ call[p].key = "rmfile" /\ Answers(p, Ok, {})
        /\ entry' = [entry EXCEPT ![m] = PopUp(m)]
    BY <1>4, <1>9 DEF Rmfile, Serving
  <2>2. Understood(p).name = n
    BY <1>6, <2>1 DEF Understood
  <2>3. call'[p].reply # Errno
    BY <1>3, <2>1, Results DEF Answers, Ok, Errno, Reply
  <2> QED
    BY <1>3, <2>1, <2>2, <2>3 DEF Asked
<1>10. CASE Rmdir(p)
  <2> DEFINE m == ParseName(call[p].line).name
  <2>1. /\ Exists(m) /\ entry[m].kind = "dir"
        /\ entry' = [entry EXCEPT ![m].disk = "none"] \/ entry' = [entry EXCEPT ![m] = Unlisted(m)]
    BY <1>4, <1>10 DEF Rmdir
  <2>2. m # n
    BY <1>1, <2>1
  <2>3. entry'[n] = entry[n]
    BY <2>1, <2>2 DEF Entries
  <2> QED
    BY <1>1, <2>3 DEF SameFile
<1>11. CASE Truncfile(p)
  <2> DEFINE m == ParseName(call[p].line).name
  <2>1. call[p].key = "truncfile" /\ \E x : entry' = [entry EXCEPT ![m] = x]
    BY <1>4, <1>11 DEF Truncfile, Serving, Changes
  <2>2. Understood(p).name = n
    BY <1>6, <2>1 DEF Understood
  <2> QED
    BY <1>3, <2>1, <2>2 DEF Asked
<1>12. CASE Move(p)
  <2> DEFINE m == ParseMove(call[p].line).name  to == MoveTarget(call[p].line)
  <2>1. /\ call[p].key = "move" /\ to \in Files /\ CanMove(m, to)
        /\ entry' = Moved(m, to) \/ entry' = HalfMoved(m, to)
        /\ Unnamed(m, to) \/ ~Unnamed(m, to)
    BY <1>4, <1>12 DEF Move, Serving
  <2>2. m \in Files /\ m # to /\ entry[m].disk # "none" /\ entry[to].disk \in {"none", entry[m].disk}
    BY <2>1 DEF CanMove
  <2>3. Understood(p) = ParseMove(call[p].line)
    BY <2>1 DEF Understood
  <2>4. SameFile(entry'[to], Renamed(m, to))
    <3>1. IsEntry(Renamed(m, to))
      BY <2>1, <2>2, RenamedFile
    <3>2. entry'[to] = SetData(Renamed(m, to)) \/ entry'[to] = Renamed(m, to)
      <4>1. CASE entry' = Moved(m, to)
        BY <2>1, <2>2, <4>1 DEF Moved, Entries
      <4>2. CASE entry' = HalfMoved(m, to)
        BY <2>1, <2>2, <4>2 DEF HalfMoved, Entries
      <4> QED
        BY <2>1, <4>1, <4>2
    <3> QED
      BY <3>1, <3>2, SetDataFile DEF SameFile
  <2>5. n \in {m, to}
    <3>1. n \notin {m, to} => entry'[n] = entry[n]
      BY <2>1 DEF Moved, HalfMoved, Entries
    <3> QED
      BY <1>1, <3>1 DEF SameFile
  <2>6. CASE n = m
    <3>1. \/ entry'[to].disk = "file" /\ entry'[to].stored = entry[n].stored
          \/ entry[to].kind = "out" /\ entry[to].disk = "none"
      BY <1>1, <2>1, <2>2, <2>4, <2>6, RenamedFile DEF SameFile
    <3> QED
      BY <1>3, <2>1, <2>3, <2>6, <3>1 DEF Asked
  <2>7. CASE n = to
    <3>1. entry[m].disk = "file" /\ ~Unnamed(m, to)
      BY <1>1, <2>1, <2>2, <2>7, RenamedFile
    <3>2. entry'[n].disk = "file" /\ entry'[n].stored = entry[m].stored
      BY <2>1, <2>2, <2>4, <2>7, <3>1, RenamedFile DEF SameFile
    <3> QED
      BY <1>3, <2>1, <2>2, <2>3, <2>7, <3>2 DEF Asked
  <2> QED
    BY <2>5, <2>6, <2>7
<1>13. CASE Put(p)
  <2> DEFINE m == ParsePut(call[p].line).name
  <2>1. call[p].key = "put" /\ \E x : entry' = [entry EXCEPT ![m] = x]
    BY <1>5, <1>13 DEF Put, Serving, Changes
  <2>2. Understood(p).name = n
    BY <1>6, <2>1 DEF Understood
  <2> QED
    BY <1>3, <2>1, <2>2 DEF Asked
<1>14. CASE Setattr(p)
  <2> DEFINE m == ParseMode(call[p].line).name  x == ModeOf(call[p].line)[1]
             e == [entry[m] EXCEPT !.access = x]
  <2>1. entry' = [entry EXCEPT ![m] = SetData(e)] \/ entry' = [entry EXCEPT ![m] = e]
    BY <1>5, <1>14 DEF Setattr, Changes
  <2>2. m = n /\ (~SameFile(SetData(e), entry[n]) \/ ~SameFile(e, entry[n]))
    <3> HIDE DEF e
    <3> QED
      BY <1>6, <2>1
  <2>3. IsEntry(e) /\ SameFile(e, entry[n])
    <3>1. IsEntry(entry[n])
      BY DEF Entries
    <3> HIDE DEF x
    <3> QED
      BY <2>2, <3>1 DEF IsEntry, SameFile
  <2> HIDE DEF e
  <2>4. SameFile(SetData(e), e)
    BY <2>3, SetDataFile
  <2> QED
    BY <2>2, <2>3, <2>4 DEF SameFile
<1>15. CASE Checkout(p)
  <2> DEFINE m == ParseIoctl(call[p].line).name
  <2>1. /\ call[p].key = "ioctl" /\ Command(call[p].line) \in {"checkout", "checkout_version"}
        /\ \E x : entry' = [entry EXCEPT ![m] = x]
    BY <1>5, <1>15 DEF Checkout, Serving
  <2>2. Understood(p).name = n
    BY <1>6, <2>1 DEF Understood
  <2> QED
    BY <1>3, <2>1, <2>2 DEF Asked
<1>16. CASE OtherIoctl(p) \/ NotDone(p)
  BY <1>5, <1>16 DEF OtherIoctl, NotDone
<1> QED
  BY <1>7, <1>8, <1>9, <1>10, <1>11, <1>12, <1>13, <1>14, <1>15, <1>16 DEF Serve,
     Mkfile, Mkdir

(* What is written in a file of the layers (TCvsInterfacePserver.cpp) is   *)
(* changed only by a request for this file that is to change it: a write,  *)
(* a truncation, a checkout, a removal that is not refused, or a move of   *)
(* it or over it, which takes it along.  So it is although the daemon      *)
(* changes the disk before it knows whether it can go on, whatever it      *)
(* answers then and wherever the server, the disk or an answer fails.      *)
THEOREM WrittenIsKept ==
  ASSUME NEW T, Tokens(T)
  PROVE  Spec => OnlyAskedIsLost
<1>1. ASSUME Inv(T), [Next]_vars
      PROVE  \A n \in Files :
               Writable(n) /\ ~(OnDisk(entry'[n]) /\ entry'[n].stored = entry[n].stored)
               => \E p \in Procs : Asked(p, n)
  <2> SUFFICES ASSUME NEW n \in Files, Writable(n),
                      ~(OnDisk(entry'[n]) /\ entry'[n].stored = entry[n].stored)
               PROVE  \E p \in Procs : Asked(p, n)
    OBVIOUS
  <2>1. entry' # entry
    BY DEF Writable
  <2>2. PICK p \in Procs : Serve(p)
    BY <1>1, <2>1, OnlyServeChanges
  <2> QED
    BY <1>1, <2>2, ServeAsked DEF Inv
<1>2. Spec => []Inv(T)
  <2>1. Init => Inv(T)
    BY InitInv
  <2>2. Inv(T) /\ [Next]_vars => Inv(T)'
    BY StepInv
  <2> QED
    BY <2>1, <2>2, PTL DEF Spec
<1> QED
  BY <1>1, <1>2, PTL DEF Spec, OnlyAskedIsLost
----------------------------------------------------------------------------
(* The types.  An entry has what its kind says: files of the repository    *)
(* are where the repository has some, a version is on the disk for a file  *)
(* checked out only, and contents come from a version or a write.          *)
Proper(n, e) ==
  /\ e.kind \in {"none", "remote", "out", "local", "dir", "phantom"}
  /\ e.disk = "none" \/ e.kind \in {"out", "local", "dir"}
  /\ e.data \in Contents /\ e.stored \in Contents
  /\ e.kind \in {"remote", "out"} => n \in CvsFiles
  /\ e.kind = "out" <=> e.version # <<>>
Properly(f) == \A n \in Files : Proper(n, f[n])
Good(n, e) == IsEntry(e) /\ Proper(n, e)

(* A line that puts a block of Data: a name without a blank before it.     *)
PutsBlock(T, line) ==
  \E x \in Seq(T), i \in DOMAIN Data : ~Has(x, Blank) /\ line = x \o <<Blank, Data[i]>>
Blocks(T) == \A p \in Procs : call[p].key = "put" => PutsBlock(T, call[p].line)

(* What gets have brought. *)
Part == Contents \ {<<>>}
ReadsParts(c) == c.read \subseteq Part /\ (c.key = "get" => Got(c) \subseteq Part)
Parts == \A p \in Procs : ReadsParts(call[p])

Counted == calls \in 0 .. MaxCalls /\ failures \in 0 .. MaxFailures /\ written \in 0 .. Len(Data)

Typed(T) == Properly(entry) /\ Blocks(T) /\ Parts /\ Counted

(* One field of an entry changes, or what is listed of it. *)
LEMMA FieldProper ==
  ASSUME NEW n, NEW e, Good(n, e), NEW x
  PROVE  /\ Good(n, [e EXCEPT !.access = x])
         /\ x \in Contents => Good(n, [e EXCEPT !.stored = x])
         /\ x = "none" \/ e.kind \in {"out", "local", "dir"} => Good(n, [e EXCEPT !.disk = x])
         /\ [e EXCEPT !.access = x].kind = e.kind /\ [e EXCEPT !.stored = x].kind = e.kind
         /\ [e EXCEPT !.disk = x].kind = e.kind
<1>1. Good(n, [e EXCEPT !.access = x]) /\ [e EXCEPT !.access = x].kind = e.kind
  BY DEF Good, IsEntry, Proper
<1>2. /\ x \in Contents => Good(n, [e EXCEPT !.stored = x])
      /\ [e EXCEPT !.stored = x].kind = e.kind
  BY DEF Good, IsEntry, Proper
<1>3. /\ x = "none" \/ e.kind \in {"out", "local", "dir"} => Good(n, [e EXCEPT !.disk = x])
      /\ [e EXCEPT !.disk = x].kind = e.kind
  BY DEF Good, IsEntry, Proper
<1> QED
  BY <1>1, <1>2, <1>3

LEMMA SetDataProper ==
  ASSUME NEW n, NEW e, Good(n, e)
  PROVE  Proper(n, SetData(e))
<1> DEFINE e1 == [e EXCEPT !.data = e.stored]  e2 == [e1 EXCEPT !.mode = e.access]
<1>1. e.stored \in Contents
  BY DEF Good, Proper
<1>2. Good(n, e1)
  BY <1>1 DEF Good, IsEntry, Proper
<1>3. SetData(e) = e2
  BY DEF SetData
<1> HIDE DEF e1
<1>4. Proper(n, e2)
  BY <1>2 DEF Good, IsEntry, Proper
<1> QED
  BY <1>3, <1>4

LEMMA ProperChanged ==
  ASSUME Entries(entry), Properly(entry), NEW n, NEW x, n \in Files => Proper(n, x)
  PROVE  Properly([entry EXCEPT ![n] = x])
<1> SUFFICES ASSUME NEW m \in Files PROVE Proper(m, [entry EXCEPT ![n] = x][m])
  BY DEF Properly
<1>1. Proper(m, entry[m])
  BY DEF Properly
<1>2. [entry EXCEPT ![n] = x][m] = IF m = n THEN x ELSE entry[m]
  BY DEF Entries
<1> QED
  BY <1>1, <1>2

LEMMA LoadedProper ==
  ASSUME NEW r, Entries(entry), Properly(entry)
  PROVE  Properly(Loaded(r))
<1>1. CASE Found(r) /\ Loads(r)
  <2> DEFINE known == entry[r.name].known \cup {Real(r.version)}
  <2>1. r.name \in Files /\ IsEntry(entry[r.name]) /\ Proper(r.name, entry[r.name])
    BY <1>1 DEF Entries, Properly, Found, Exists
  <2>2. Loaded(r) = [entry EXCEPT ![r.name] = [entry[r.name] EXCEPT !.known = known]]
    BY <1>1, <2>1 DEF Loaded, Entries
  <2>3. ASSUME NEW e, NEW k, IsEntry(e), Proper(r.name, e) PROVE Proper(r.name, [e EXCEPT !.known = k])
    BY <2>3 DEF IsEntry, Proper
  <2> HIDE DEF known
  <2>4. Proper(r.name, [entry[r.name] EXCEPT !.known = known])
    BY <2>1, <2>3
  <2>5. ASSUME NEW n, NEW x, n \in Files => Proper(n, x) PROVE Properly([entry EXCEPT ![n] = x])
    BY <2>5, ProperChanged
  <2>6. Properly([entry EXCEPT ![r.name] = [entry[r.name] EXCEPT !.known = known]])
    BY <2>4, <2>5
  <2> QED
    BY <2>2, <2>6
<1>2. CASE ~(Found(r) /\ Loads(r))
  BY <1>2 DEF Loaded
<1> QED
  BY <1>1, <1>2

(* What a name holds that is made anew. *)
LEMMA PlainProper ==
  ASSUME NEW n, NEW s, NEW k \in {"none", "local", "dir", "phantom"}
  PROVE  /\ Proper(n, Entry(k, <<>>, <<>>, "rw"))
         /\ Proper(n, [Entry(k, <<>>, <<>>, "rw") EXCEPT !.cvsKnown = s])
         /\ n \in CvsFiles => Proper(n, [Remote EXCEPT !.known = s, !.cvsKnown = s])
<1>1. <<>> \in Contents
  BY DEF Contents
<1> QED
  BY <1>1 DEF Proper, Entry, Remote

LEMMA PopUpProper ==
  ASSUME NEW n
  PROVE  Proper(n, PopUp(n)) /\ Proper(n, Unlisted(n))
BY PlainProper DEF PopUp, Unlisted, Missing

LEMMA RenamedProper ==
  ASSUME NEW n \in Files, NEW r \in Files, Entries(entry), Properly(entry), CanMove(n, r)
  PROVE  Good(r, Renamed(n, r))
<1> DEFINE t == Target(n, r)  t1 == [t EXCEPT !.disk = entry[n].disk]
           t2 == [t1 EXCEPT !.stored = entry[n].stored]
           t3 == [t2 EXCEPT !.access = entry[n].access]
<1>1. Good(n, entry[n]) /\ Good(r, entry[r])
  BY DEF Good, Properly, Entries
<1>2. Good(r, t) /\ t.kind \in {"out", "local", "dir"}
  <2>1. CASE entry[r].kind # "none"
    BY <1>1, <2>1 DEF Target, CanMove, Good, Proper
  <2>2. CASE entry[r].kind = "none"
    <3>1. IsEntry(t)
      BY TargetEntry
    <3> DEFINE k == IF entry[n].kind = "dir" THEN "dir" ELSE "local"
    <3>2. t.kind = k /\ t.data = entry[n].data /\ t.stored = entry[n].data /\ t.version = <<>>
      BY <2>2 DEF Target, Entry
    <3>3. entry[n].data \in Contents /\ k \in {"dir", "local"}
      BY <1>1 DEF Good, Proper
    <3> HIDE DEF t, k
    <3> QED
      BY <3>1, <3>2, <3>3 DEF Good, Proper
  <2> QED
    BY <2>1, <2>2
<1>3. entry[n].stored \in Contents
  BY <1>1 DEF Good, Proper
<1>4. Renamed(n, r) = IF Unnamed(n, r) THEN t ELSE t3
  BY DEF Renamed
<1> HIDE DEF t
<1>5. Good(r, t1)
  BY <1>2, FieldProper
<1> HIDE DEF t1
<1>6. Good(r, t2)
  BY <1>3, <1>5, FieldProper
<1> HIDE DEF t2
<1>7. Good(r, t3)
  BY <1>6, FieldProper
<1> QED
  BY <1>2, <1>4, <1>7

LEMMA MovedProper ==
  ASSUME NEW n \in Files, NEW r \in Files, Entries(entry), Properly(entry), CanMove(n, r)
  PROVE  Properly(Moved(n, r)) /\ Properly(HalfMoved(n, r))
<1>1. Good(r, Renamed(n, r)) /\ Proper(r, SetData(Renamed(n, r)))
  BY RenamedProper, SetDataProper
<1>2. Properly(Moved(n, r))
  <2> SUFFICES ASSUME NEW m \in Files PROVE Proper(m, Moved(n, r)[m])
    BY DEF Properly
  <2>1. Moved(n, r)[m] = IF m = n THEN PopUp(n) ELSE IF m = r THEN SetData(Renamed(n, r)) ELSE entry[m]
    BY DEF Moved, Entries
  <2> QED
    BY <1>1, <2>1, PopUpProper DEF Properly
<1>3. Properly(HalfMoved(n, r))
  <2> DEFINE e1 == [entry[n] EXCEPT !.disk = "none"]  e2 == [e1 EXCEPT !.stored = <<>>]
  <2>1. Good(n, entry[n]) /\ <<>> \in Contents
    BY DEF Good, Properly, Entries, Contents
  <2>2. \A m \in Files : HalfMoved(n, r)[m] = IF m = n THEN e2 ELSE IF m = r THEN Renamed(n, r) ELSE entry[m]
    BY DEF HalfMoved, Entries, CanMove
  <2>3. Good(n, e1)
    BY <2>1, FieldProper
  <2> HIDE DEF e1
  <2>4. Good(n, e2)
    BY <2>1, <2>3, FieldProper
  <2> HIDE DEF e2
  <2> QED
    BY <1>1, <2>2, <2>4 DEF Properly, Good
<1> QED
  BY <1>2, <1>3

LEMMA CheckedOutProper ==
  ASSUME NEW r, r.name \in Files, Entries(entry), Properly(entry)
  PROVE  Good(r.name, CheckedOut(r).entry)
<1> DEFINE e == entry[r.name]  v == Real(r.version)  found == Editable(r.name)
           known == IF found THEN e.cvsKnown ELSE e.known
           learnt == IF v \in Versions THEN known \cup {v} ELSE known
           done == r.name \in CvsFiles /\ v \in known
<1>1. IsEntry(e) /\ Proper(r.name, e)
  BY DEF Entries, Properly
<1>2. CheckedOut(r).entry =
        IF done THEN [Entry("out", v, v, "rw") EXCEPT !.cvsKnown = e.cvsKnown]
        ELSE IF ~found THEN [e EXCEPT !.known = learnt]
        ELSE [Missing EXCEPT !.cvsKnown = IF r.name \in CvsFiles THEN learnt ELSE {}]
  BY DEF CheckedOut
<1>3. known \subseteq Versions
  BY <1>1 DEF IsEntry
<1>4. IsEntry(CheckedOut(r).entry)
  BY CheckedOutEntry
<1> HIDE DEF v, found, known, learnt
<1>5. ASSUME done PROVE Proper(r.name, [Entry("out", v, v, "rw") EXCEPT !.cvsKnown = e.cvsKnown])
  <2>1. v \in Versions /\ r.name \in CvsFiles
    BY <1>3, <1>5
  <2>2. v # <<>> /\ v \in Contents
    <3>1. Len(v) = 1 /\ Len(<<>>) = 0
      BY <2>1, VfsAssumption
    <3> QED
      BY <2>1, <3>1 DEF Contents
  <2> HIDE DEF e
  <2> QED
    BY <2>1, <2>2 DEF Proper, Entry
<1>6. Proper(r.name, [e EXCEPT !.known = learnt])
  <2> HIDE DEF e
  <2> QED
    BY <1>1 DEF Proper, IsEntry
<1>7. Proper(r.name, [Missing EXCEPT !.cvsKnown = IF r.name \in CvsFiles THEN learnt ELSE {}])
  BY PlainProper DEF Missing
<1> HIDE DEF e, done
<1> QED
  BY <1>2, <1>4, <1>5, <1>6, <1>7 DEF Good

(* What arrives of a write is the block. *)
LEMMA BlockArrives ==
  ASSUME NEW T, Tokens(T), NEW line, PutsBlock(T, line)
  PROVE  DataOf(line) \in Contents /\ Before(line, Blank) \in Seq(T) /\ ~Has(Before(line, Blank), Blank)
<1>1. PICK x \in Seq(T), i \in DOMAIN Data : ~Has(x, Blank) /\ line = x \o <<Blank, Data[i]>>
  BY DEF PutsBlock
<1>2. Blank \in T /\ Data[i] \in T
  BY DEF Tokens
<1>3. <<Data[i]>> \in Seq(T)
  BY <1>2, OneToken
<1>4. line = (x \o <<Blank>>) \o <<Data[i]>>
  BY <1>1, <1>2, WordAppended
<1>5. x \o <<Blank>> \o <<Data[i]>> = (x \o <<Blank>>) \o <<Data[i]>>
  OBVIOUS
<1>6. Before(line, Blank) = x /\ After(line, Blank) = <<Data[i]>>
  BY <1>1, <1>2, <1>3, <1>4, <1>5, CutAt
<1> QED
  BY <1>1, <1>6 DEF DataOf, Contents

(* The daemon's step. *)
LEMMA ServeProper ==
  ASSUME NEW T, Tokens(T), Inv(T), Typed(T), NEW p \in Procs, Serve(p)
  PROVE  Properly(entry')
<1>1. Entries(entry) /\ Properly(entry) /\ <<>> \in Contents
  BY DEF Inv, Typed, Contents
<1>2. \A r : Properly(Loaded(r))
  BY <1>1, LoadedProper
<1>3. \A n, x : (n \in Files => Proper(n, x)) => Properly([entry EXCEPT ![n] = x])
  BY <1>1, ProperChanged
<1>4. \A n : Properly([entry EXCEPT ![n] = PopUp(n)]) /\ Properly([entry EXCEPT ![n] = Unlisted(n)])
  BY <1>3, PopUpProper
<1>5. \A n \in Files : Good(n, entry[n])
  BY <1>1 DEF Entries, Properly, Good
<1>6. ASSUME NEW n, NEW e, n \in Files => Good(n, e)
      PROVE  Properly([entry EXCEPT ![n] = e]) /\ Properly([entry EXCEPT ![n] = SetData(e)])
  <2>1. n \in Files => Proper(n, e) /\ Proper(n, SetData(e))
    BY <1>6, SetDataProper DEF Good
  <2> QED
    BY <1>3, <2>1
<1>7. CASE Attr(p) \/ Get(p)
  BY <1>2, <1>7 DEF Attr, Get
<1>8. ASSUME NEW key, NEW kind \in {"local", "dir"}, Make(p, key, kind)
      PROVE  Properly(entry')
  <2> DEFINE r == ParseMode(call[p].line)
             made(k) == [Entry(k, <<>>, <<>>, "rw") EXCEPT !.cvsKnown = entry[r.name].cvsKnown]
  <2>1. \/ entry' = Loaded(r) \/ entry' = entry
        \/ \E k \in {"local", "dir", "phantom"} : entry' = [entry EXCEPT ![r.name] = made(k)]
    BY <1>8 DEF Make
  <2>2. \A k \in {"local", "dir", "phantom"} : Proper(r.name, made(k))
    BY PlainProper
  <2> HIDE DEF made
  <2> QED
    BY <1>1, <1>2, <1>3, <2>1, <2>2
<1>9. CASE Rmfile(p)
  BY <1>2, <1>4, <1>9 DEF Rmfile
<1>10. CASE Rmdir(p)
  <2> DEFINE r == ParseName(call[p].line)  n == r.name
  <2>1. \/ n \in Files /\ entry' = [entry EXCEPT ![n].disk = "none"]
        \/ entry' = [entry EXCEPT ![n] = Unlisted(n)]
        \/ entry' = Loaded(r)
    BY <1>10 DEF Rmdir, Exists
  <2>2. ASSUME n \in Files, entry' = [entry EXCEPT ![n].disk = "none"]
        PROVE  Properly(entry')
    <3>1. Good(n, [entry[n] EXCEPT !.disk = "none"])
      BY <1>5, <2>2, FieldProper
    <3>2. entry' = [entry EXCEPT ![n] = [entry[n] EXCEPT !.disk = "none"]]
      BY <1>1, <2>2 DEF Entries
    <3> QED
      BY <1>6, <3>1, <3>2
  <2> QED
    BY <1>2, <1>4, <2>1, <2>2
<1>11. CASE Truncfile(p)
  <2> DEFINE r == ParseName(call[p].line)  n == r.name
             e1 == [entry[n] EXCEPT !.stored = <<>>]  e2 == [e1 EXCEPT !.access = entry[n].mode]
             e3 == [e2 EXCEPT !.disk = "file"]
  <2>1. \/ entry' = Loaded(r)
        \/ /\ n \in Files /\ entry[n].kind = "local"
           /\ entry' = [entry EXCEPT ![n] = e3] \/ entry' = [entry EXCEPT ![n] = SetData(e3)]
    BY <1>11 DEF Truncfile, Exists, Changes
  <2>2. ASSUME n \in Files, entry[n].kind = "local" PROVE Good(n, e3)
    <3>1. Good(n, e1) /\ e1.kind = "local"
      BY <1>1, <1>5, <2>2, FieldProper
    <3> HIDE DEF e1
    <3>2. Good(n, e2) /\ e2.kind = "local"
      BY <3>1, FieldProper
    <3> HIDE DEF e2
    <3> QED
      BY <3>2, FieldProper
  <2> HIDE DEF e3
  <2>3. ASSUME n \in Files, entry[n].kind = "local"
        PROVE  Properly([entry EXCEPT ![n] = e3]) /\ Properly([entry EXCEPT ![n] = SetData(e3)])
    BY <1>6, <2>2, <2>3
  <2> HIDE DEF n
  <2> QED
    BY <1>2, <2>1, <2>3
<1>12. CASE Move(p)
  <2> DEFINE r == ParseMove(call[p].line)  to == MoveTarget(call[p].line)
  <2>1. CASE CanMove(r.name, to)
    <3>1. /\ r.name \in Files /\ to \in Files
          /\ entry' = Moved(r.name, to) \/ entry' = HalfMoved(r.name, to)
      BY <1>12, <2>1 DEF Move, CanMove
    <3> QED
      BY <1>1, <2>1, <3>1, MovedProper
  <2>2. CASE ~CanMove(r.name, to)
    BY <1>2, <1>12, <2>2 DEF Move
  <2> QED
    BY <2>1, <2>2
<1>13. CASE Put(p)
  <2> DEFINE n == ParsePut(call[p].line).name  block == DataOf(call[p].line)
             put(x) == [entry[n] EXCEPT !.stored = x]
  <2>1. block \in Contents
    BY <1>13, BlockArrives DEF Put, Serving, Typed, Blocks
  <2>2. \/ entry' = entry
        \/ /\ n \in Files
           /\ \E x \in {block, <<>>} : \/ entry' = [entry EXCEPT ![n] = put(x)]
                                       \/ entry' = [entry EXCEPT ![n] = SetData(put(x))]
    BY <1>13 DEF Put, Exists, Changes
  <2>3. ASSUME n \in Files, NEW x \in {block, <<>>} PROVE Good(n, put(x))
    BY <1>1, <1>5, <2>1, <2>3, FieldProper
  <2> HIDE DEF put, block, n
  <2>4. ASSUME n \in Files, NEW x \in {block, <<>>}
        PROVE  Properly([entry EXCEPT ![n] = put(x)]) /\ Properly([entry EXCEPT ![n] = SetData(put(x))])
    BY <1>6, <2>3, <2>4
  <2> QED
    BY <1>1, <2>2, <2>4
<1>14. CASE Setattr(p)
  <2> DEFINE n == ParseMode(call[p].line).name  mode == ModeOf(call[p].line)[1]
             e == [entry[n] EXCEPT !.access = mode]
  <2>1. \/ entry' = entry
        \/ n \in Files /\ (entry' = [entry EXCEPT ![n] = e] \/ entry' = [entry EXCEPT ![n] = SetData(e)])
    BY <1>14 DEF Setattr, Exists, Changes
  <2>2. n \in Files => Good(n, e)
    <3> HIDE DEF mode
    <3> QED
      BY <1>5, FieldProper
  <2> HIDE DEF e, n
  <2>3. Properly([entry EXCEPT ![n] = e]) /\ Properly([entry EXCEPT ![n] = SetData(e)])
    BY <1>6, <2>2
  <2> QED
    BY <1>1, <2>1, <2>3
<1>15. CASE Checkout(p)
  <2> DEFINE r == ParseIoctl(call[p].line)  n == r.name  x == CheckedOut(r).entry
             x1 == [x EXCEPT !.stored = <<>>]
  <2>1. \/ entry' = entry \/ entry' = [entry EXCEPT ![n] = Unlisted(n)]
        \/ entry' = [entry EXCEPT ![n] = x] \/ entry' = [entry EXCEPT ![n] = SetData(x1)]
    BY <1>15 DEF Checkout
  <2>2. n \in Files => Good(n, x)
    BY <1>1, CheckedOutProper
  <2> HIDE DEF x
  <2>3. n \in Files => Good(n, x1)
    BY <1>1, <2>2, FieldProper
  <2> HIDE DEF x1, n
  <2>4. Properly([entry EXCEPT ![n] = x]) /\ Properly([entry EXCEPT ![n] = SetData(x1)])
    <3>1. Properly([entry EXCEPT ![n] = x])
      BY <1>6, <2>2
    <3> QED
      BY <1>6, <2>3, <3>1
  <2> QED
    BY <1>1, <1>4, <2>1, <2>4
<1>16. CASE OtherIoctl(p) \/ NotDone(p)
  BY <1>1, <1>16 DEF OtherIoctl, NotDone
<1> QED
  BY <1>7, <1>8, <1>9, <1>10, <1>11, <1>12, <1>13, <1>14, <1>15, <1>16 DEF Serve,
     Mkfile, Mkdir

(* What a get brings is a version or was written. *)
LEMMA GetTyped ==
  ASSUME NEW T, Inv(T), Typed(T), NEW p \in Procs, Serve(p), call[p].key = "get",
         Told(call'[p])
  PROVE  call'[p].reply.attr.data \in Part
<1> DEFINE r == ParseGet(call[p].line)  e == entry[r.name]
           said(data) == Reply("data", Attribute(FALSE, data, "rw", <<>>))
<1>1. Calls(call) /\ Entries(entry) /\ call[p].stage = "sent"
  BY DEF Inv, Serve, Attr, Mkfile, Mkdir, Make, Rmfile, Rmdir, Truncfile, Move, Get,
     Put, Setattr,
     Checkout, OtherIoctl, NotDone, Serving
<1>2. Get(p) \/ NotDone(p)
  BY DEF Serve, Attr, Mkfile, Mkdir, Make, Rmfile, Rmdir, Truncfile, Move, Get, Put,
     Setattr,
     Checkout, OtherIoctl, Serving
<1>3. \A reply : Answer(p, reply) => call'[p].reply = reply
  BY <1>1, AnswerIs
<1>4. None.tag # "data" /\ Lost.tag # "data" /\ \A x : said(x).attr.data = x
  BY DEF None, Lost, Reply, Attribute
<1>5. CASE NotDone(p)
  <2>1. Answer(p, None)
    BY <1>5 DEF NotDone, Fails
  <2> QED
    BY <1>3, <1>4, <2>1 DEF Told
<1>6. CASE Get(p)
  <2>1. \/ Answer(p, None) \/ Answer(p, Lost)
        \/ /\ Found(r) /\ ~Loads(r) /\ e.kind = "remote"
           /\ Real(r.version) # <<>> /\ Answer(p, said(Real(r.version)))
        \/ Found(r) /\ e.stored # <<>> /\ Answer(p, said(e.stored))
    BY <1>6 DEF Get, Answers
  <2>2. Found(r) => IsEntry(e) /\ e.stored \in Contents
    BY <1>1 DEF Found, Exists, Entries, Typed, Properly, Proper
  <2>3. Found(r) /\ ~Loads(r) /\ e.kind = "remote" => Real(r.version) \in Versions
    BY <2>2 DEF Loads, IsEntry, Found
  <2> HIDE DEF said
  <2> QED
    BY <1>3, <1>4, <2>1, <2>2, <2>3 DEF Told, Part, Contents
<1> QED
  BY <1>2, <1>5, <1>6

(* The name before the block has no blank. *)
LEMMA NameOfBlock ==
  ASSUME NEW T, Tokens(T), NEW n \in Seq(T), ~Has(n, Blank), NEW v \in Stamps
  PROVE  WithVersion(n, v) \in Seq(T) /\ ~Has(WithVersion(n, v), Blank)
<1>1. CASE v = <<>>
  BY <1>1 DEF WithVersion
<1>2. CASE v # <<>>
  <2>1. v \in Versions /\ v \in Seq(T) /\ ~Has(v, Blank) /\ AtAt \in T
    BY <1>2 DEF Stamps, Tokens, Plain
  <2>2. <<AtAt>> \in Seq(T) /\ ~Has(<<AtAt>>, Blank)
    BY <2>1, OneToken, HasOne, TokensDiffer
  <2>3. n \o <<AtAt>> \in Seq(T) /\ ~Has(n \o <<AtAt>>, Blank)
    <3>1. n \o <<AtAt>> \in Seq(T)
      BY <2>2, ConcatProperties
    <3> QED
      BY <2>2, <3>1, HasConcat, Zenon
  <2>4. (n \o <<AtAt>>) \o v \in Seq(T) /\ ~Has((n \o <<AtAt>>) \o v, Blank)
    <3> DEFINE m == n \o <<AtAt>>
    <3> HIDE DEF m
    <3>1. m \in Seq(T) /\ ~Has(m, Blank)
      BY <2>3 DEF m
    <3>2. m \o v \in Seq(T)
      BY <2>1, <3>1, ConcatProperties
    <3>3. ~Has(m \o v, Blank)
      BY <2>1, <3>1, HasConcat, Zenon
    <3> QED
      BY <3>2, <3>3 DEF m
  <2>5. WithVersion(n, v) = (n \o <<AtAt>>) \o v
    BY <1>2 DEF WithVersion
  <2> QED
    BY <2>4, <2>5
<1> QED
  BY <1>1, <1>2

LEMMA PutLineBlock ==
  ASSUME NEW T, Tokens(T), NEW n \in Seq(T), ~Has(n, Blank), NEW v \in Stamps, NEW i \in DOMAIN Data
  PROVE  PutsBlock(T, PutLine(n, v, Data[i]))
<1> DEFINE x == IF Has(n, AtAt) /\ ~Has(Before(n, AtAt), At) THEN n ELSE WithVersion(n, v)
<1>1. x \in Seq(T) /\ ~Has(x, Blank)
  BY NameOfBlock
<1>2. PutLine(n, v, Data[i]) = x \o <<Blank, Data[i]>>
  BY DEF PutLine
<1> HIDE DEF x
<1> QED
  BY <1>1, <1>2 DEF PutsBlock

(* The other steps: what is on its way is a block still. *)
LEMMA BlocksKept ==
  ASSUME NEW T, Blocks(T),
         \A q \in Procs : \/ call'[q].key # "put"
                          \/ call'[q].key = call[q].key /\ call'[q].line = call[q].line
                          \/ PutsBlock(T, call'[q].line)
  PROVE  Blocks(T)'
<1>1. \A q \in Procs : call'[q].key = "put" => PutsBlock(T, call'[q].line)
  BY DEF Blocks
<1> QED
  BY <1>1 DEF Blocks, PutsBlock

(* And what was read are parts of contents. *)
LEMMA PartsKept ==
  ASSUME Parts,
         \A q \in Procs : \/ call'[q] = call[q]
                          \/ call'[q].read = {} /\ call'[q].stage # "answered"
                          \/ ReadsParts(call'[q])
  PROVE  Parts'
<1>1. \A q \in Procs : ReadsParts(call'[q])
  BY DEF Parts, ReadsParts, Got, Told
<1> QED
  BY <1>1 DEF Parts, ReadsParts, Got, Told, Part, Contents

LEMMA ServeTyped ==
  ASSUME NEW T, Tokens(T), Inv(T), Typed(T), NEW p \in Procs, Serve(p)
  PROVE  Typed(T)'
<1>1. Properly(entry)'
  BY ServeProper DEF Properly, Proper, Contents
<1>2. PICK reply, seen : Served(p, reply, seen)
  BY ServeTells DEF Inv
<1>3. /\ \A q \in Procs \ {p} : call'[q] = call[q]
      /\ call'[p].key = call[p].key /\ call'[p].line = call[p].line
      /\ call'[p].read = call[p].read
  BY <1>2, AnswerIs DEF Served, Inv
<1>4. Blocks(T)' /\ Parts'
  <2>1. Blocks(T)'
    BY <1>3, BlocksKept DEF Typed
  <2>2. call[p].read \subseteq Part
    BY DEF Typed, Parts, ReadsParts
  <2>3. call[p].key = "get" /\ Told(call'[p]) => call'[p].reply.attr.data \in Part
    BY GetTyped
  <2>4. ReadsParts(call'[p])
    BY <1>3, <2>2, <2>3 DEF ReadsParts, Got
  <2> QED
    BY <1>3, <2>1, <2>4, PartsKept DEF Typed
<1>5. written' = written /\ calls' = calls
  BY <1>2 DEF Served, Answer
<1>6. failures' = failures \/ (failures < MaxFailures /\ failures' = failures + 1)
  <2>1. ASSUME NEW r, \/ \E s : Answers(p, r, s)
                      \/ Fails(p, r)
                      \/ \E n, e : Changes(p, n, e)
        PROVE  failures' = failures \/ (failures < MaxFailures /\ failures' = failures + 1)
    BY <2>1 DEF Answers, Fails, Changes
  <2>2. ASSUME NEW key, NEW kind, Make(p, key, kind)
        PROVE  \E r : (\E s : Answers(p, r, s)) \/ Fails(p, r)
    BY <2>2 DEF Make
  <2>3. CASE Attr(p) \/ Get(p)
    BY <2>1, <2>3 DEF Attr, Get
  <2>4. CASE Rmfile(p)
    BY <2>1, <2>4 DEF Rmfile
  <2>5. CASE Rmdir(p)
    BY <2>1, <2>5 DEF Rmdir
  <2>6. CASE Truncfile(p)
    BY <2>1, <2>6 DEF Truncfile
  <2>7. CASE Move(p)
    BY <2>1, <2>7 DEF Move
  <2>8. CASE Put(p)
    BY <2>1, <2>8 DEF Put
  <2>9. CASE Setattr(p)
    BY <2>1, <2>9 DEF Setattr
  <2>10. CASE Checkout(p)
    BY <2>1, <2>10 DEF Checkout
  <2>11. CASE OtherIoctl(p)
    BY <2>1, <2>11 DEF OtherIoctl
  <2>12. CASE NotDone(p)
    BY <2>1, <2>12 DEF NotDone
  <2> QED
    BY <2>1, <2>2, <2>3, <2>4, <2>5, <2>6, <2>7, <2>8, <2>9, <2>10, <2>11, <2>12
       DEF Serve, Mkfile, Mkdir
<1>7. Counted'
  BY <1>5, <1>6, VfsAssumption DEF Counted, Typed
<1> QED
  BY <1>1, <1>4, <1>7 DEF Typed

LEMMA FinishTyped ==
  ASSUME NEW T, Tokens(T), Inv(T), Typed(T), NEW p \in Procs, Finish(p)
  PROVE  Typed(T)'
<1>1. entry' = entry /\ failures' = failures
  <2>1. CASE Lookup(p) \/ Create(p) \/ Makedir(p)
    BY <2>1 DEF Lookup, Create, Makedir, Return
  <2>2. CASE Unlink(p) \/ Rename(p)
    BY <2>2 DEF Unlink, Rename, Return
  <2>3. CASE Open(p) \/ Chmod(p) \/ Ioctl(p)
    BY <2>3 DEF Open, Chmod, Ioctl, Return
  <2>4. CASE WriteEnd(p) \/ Readpage(p) \/ NextBlock(p) \/ NextGet(p)
    BY <2>4 DEF WriteEnd, Readpage, NextBlock, NextGet, Return
  <2> QED
    BY <2>1, <2>2, <2>3, <2>4 DEF Finish
<1>2. Properly(entry)'
  BY <1>1 DEF Typed, Properly, Proper, Contents
<1>3. CASE NextBlock(p)
  <2> DEFINE line == PutLine(Before(call[p].line, Blank), <<>>, Data[written + 1])
  <2>1. /\ call' = [call EXCEPT ![p].stage = "sent", ![p].reply = None, ![p].more = TRUE,
                                ![p].line = line]
        /\ written < Len(Data) /\ calls < MaxCalls /\ written' = written + 1 /\ calls' = calls + 1
        /\ call[p].key = "put"
    BY <1>3 DEF NextBlock, Answered
  <2>2. PutsBlock(T, line)
    <3>1. Before(call[p].line, Blank) \in Seq(T) /\ ~Has(Before(call[p].line, Blank), Blank)
      BY <2>1, BlockArrives DEF Typed, Blocks
    <3>2. written + 1 \in DOMAIN Data /\ <<>> \in Stamps
      BY <2>1 DEF Tokens, Inv, Stamps
    <3> QED
      BY <3>1, <3>2, PutLineBlock
  <2> HIDE DEF line
  <2>3. /\ \A q \in Procs \ {p} : call'[q] = call[q]
        /\ call'[p].line = line /\ call'[p].key = "put" /\ call'[p].read = call[p].read
    <3>1. /\ \A q \in Procs \ {p} : call'[q] = call[q]
          /\ call'[p] = [call[p] EXCEPT !.stage = "sent", !.reply = None, !.more = TRUE, !.line = line]
      BY <2>1 DEF Inv, Calls
    <3>2. IsCall(call[p])
      BY DEF Inv, Calls
    <3>3. call'[p].line = line /\ call'[p].read = call[p].read /\ call'[p].key = call[p].key
      BY <3>1, <3>2 DEF IsCall
    <3>4. call[p].key = "put"
      BY <2>1
    <3> QED
      BY <3>1, <3>3, <3>4
  <2>4. Blocks(T)' /\ Parts'
    <3>1. Blocks(T)'
      BY <2>2, <2>3, BlocksKept DEF Typed
    <3>2. ReadsParts(call'[p])
      BY <2>3 DEF Typed, Parts, ReadsParts
    <3> QED
      BY <2>3, <3>1, <3>2, PartsKept DEF Typed
  <2>5. Counted'
    BY <1>1, <2>1, VfsAssumption DEF Counted, Typed, Tokens
  <2> QED
    BY <1>2, <2>4, <2>5 DEF Typed
<1>4. CASE NextGet(p)
  <2> DEFINE read == call[p].read \cup {call[p].reply.attr.data}
  <2>1. call[p].key = "get" /\ read = Got(call[p])
    BY <1>4 DEF NextGet, Answered, Got, Told
  <2>2. call' = [call EXCEPT ![p].stage = "sent", ![p].reply = None, ![p].read = read]
    BY <1>4 DEF NextGet, Inv, Calls
  <2> HIDE DEF read
  <2>3. /\ \A q \in Procs \ {p} : call'[q] = call[q]
        /\ call'[p].line = call[p].line /\ call'[p].key = call[p].key
        /\ call'[p].stage = "sent" /\ call'[p].read = read
    <3>1. /\ \A q \in Procs \ {p} : call'[q] = call[q]
          /\ call'[p] = [call[p] EXCEPT !.stage = "sent", !.reply = None, !.read = read]
      BY <2>2 DEF Inv, Calls
    <3>2. IsCall(call[p])
      BY DEF Inv, Calls
    <3> QED
      BY <3>1, <3>2 DEF IsCall
  <2>4. Blocks(T)' /\ Parts'
    <3>1. Blocks(T)'
      BY <2>3, BlocksKept DEF Typed
    <3>2. read \subseteq Part
      BY <2>1 DEF Typed, Parts, ReadsParts
    <3>3. ReadsParts(call'[p])
      BY <2>3, <3>2 DEF ReadsParts, Got, Told
    <3> QED
      BY <2>3, <3>1, <3>3, PartsKept DEF Typed
  <2>5. Counted'
    BY <1>1, <1>4 DEF Counted, Typed, NextGet
  <2> QED
    BY <1>2, <2>4, <2>5 DEF Typed
<1>5. CASE ~NextBlock(p) /\ ~NextGet(p)
  <2>1. call' = Done(p) /\ written' = written /\ calls' = calls
    <3>1. CASE Lookup(p) \/ Create(p) \/ Makedir(p)
      BY <3>1 DEF Lookup, Create, Makedir, Return, Kernel
    <3>2. CASE Unlink(p) \/ Rename(p)
      BY <3>2 DEF Unlink, Rename, Return, Kernel
    <3>3. CASE Open(p) \/ Chmod(p) \/ Ioctl(p)
      BY <3>3 DEF Open, Chmod, Ioctl, Return, Kernel
    <3>4. CASE WriteEnd(p) \/ Readpage(p)
      BY <3>4 DEF WriteEnd, Readpage, Return, Kernel
    <3> QED
      BY <1>5, <3>1, <3>2, <3>3, <3>4 DEF Finish
  <2>2. \A q \in Procs : call'[q] = Idle \/ call'[q] = call[q]
    BY <2>1 DEF Done, Inv, Calls
  <2>3. Blocks(T)' /\ Parts'
    <3>1. Blocks(T)'
      BY <2>2, BlocksKept, IdleIs DEF Typed
    <3>2. Idle.read = {}
      BY DEF Idle
    <3> QED
      BY <2>2, <3>1, <3>2, PartsKept, IdleIs DEF Typed
  <2>4. Counted'
    BY <1>1, <2>1 DEF Counted, Typed
  <2> QED
    BY <1>2, <2>3, <2>4 DEF Typed
<1> QED
  BY <1>3, <1>4, <1>5

(* An operation begins. *)
LEMMA BeginTyped ==
  ASSUME NEW T, Tokens(T), Inv(T), Typed(T), NEW p \in Procs, NEW key, NEW d, NEW t, NEW n, NEW r,
         NEW l, call' = Begin(p, key, d, t, n, r, l), key = "put" => PutsBlock(T, l),
         entry' = entry, failures' = failures, calls < MaxCalls, calls' = calls + 1,
         written' = written \/ (written < Len(Data) /\ written' = written + 1)
  PROVE  Typed(T)'
<1> DEFINE c == Begun(key, d, t, n, r, l)
<1>1. c.key = key /\ c.line = l /\ c.read = {} /\ c.stage = "sent"
  BY DEF Begun, Idle
<1>2. call'[p] = c /\ \A q \in Procs \ {p} : call'[q] = call[q]
  BY DEF Begin, Begun, Inv, Calls
<1> HIDE DEF c
<1>3. Blocks(T)' /\ Parts'
  <2>1. Blocks(T)'
    BY <1>1, <1>2, BlocksKept DEF Typed
  <2> QED
    BY <1>1, <1>2, <2>1, PartsKept DEF Typed
<1>4. Counted'
  BY VfsAssumption DEF Counted, Typed, Tokens
<1>5. Properly(entry)'
  BY DEF Typed, Properly, Proper, Contents
<1> QED
  BY <1>3, <1>4, <1>5 DEF Typed

LEMMA AllBeginTyped ==
  ASSUME NEW T, Tokens(T), \A n \in Names : ~Has(n, Blank), Inv(T), Typed(T), NEW p \in Procs,
         \/ \E n \in Names : \/ BeginLookup(p, n) \/ BeginCreate(p, n) \/ BeginRemove(p, n)
                             \/ \E r \in Files : BeginRename(p, n, r)
         \/ BeginOpenTruncating(p) \/ BeginRead(p) \/ BeginWrite(p)
         \/ \E mode \in Modes : BeginChmod(p, mode)
         \/ \E c \in Commands : BeginIoctl(p, c) \/ \E v \in Versions : BeginIoctlVersion(p, c, v)
  PROVE  Typed(T)'
<1>1. ASSUME NEW n \in Names, BeginLookup(p, n) PROVE Typed(T)'
  BY <1>1, BeginTyped DEF BeginLookup, Kernel, CanCall
<1>2. ASSUME NEW key, key # "put", NEW d, NEW t, NEW n, NEW r, NEW l,
             BeginDirectory(p, key, d, t, n, r, l)
      PROVE  Typed(T)'
  BY <1>2, BeginTyped DEF BeginDirectory, Kernel, CanCall
<1>3. ASSUME NEW n \in Names,
             \/ BeginCreate(p, n) \/ BeginRemove(p, n) \/ \E r \in Files : BeginRename(p, n, r)
      PROVE  Typed(T)'
  BY <1>2, <1>3 DEF BeginCreate, BeginRemove, BeginRename
<1>4. ASSUME NEW key, key # "put", NEW l, BeginFile(p, key, l), Holds(p)
      PROVE  Typed(T)'
  BY <1>4, BeginTyped DEF BeginFile, Kernel, Holds, CanCall
<1>5. CASE BeginWrite(p)
  <2> DEFINE d == held[p]  line == PutLine(FullName(d), Version(d), Data[written + 1])
  <2>1. /\ BeginFile(p, "put", line) /\ Holds(p) /\ written < Len(Data)
    BY <1>5 DEF BeginWrite, HoldsFile
  <2>2. PutsBlock(T, line)
    <3>1. d \in Ids /\ d \in InUse
      BY <2>1 DEF Inv, Holds, InUse, Used
    <3>2. dentry[d].name \in Names /\ Version(d) \in Stamps
      BY <3>1, InodeVersion
    <3>3. dentry[d].name \in Seq(T) /\ ~Has(dentry[d].name, Blank)
      BY <3>2 DEF Tokens
    <3>4. FullName(d) \in Seq(T) /\ ~Has(FullName(d), Blank)
      BY <3>2, <3>3, NameOfBlock DEF FullName
    <3>5. written + 1 \in DOMAIN Data
      BY <2>1 DEF Tokens, Inv
    <3> HIDE DEF d
    <3> QED
      BY <3>2, <3>4, <3>5, PutLineBlock
  <2> HIDE DEF line
  <2> QED
    BY <2>1, <2>2, BeginTyped DEF BeginFile, Kernel, Holds, CanCall
<1>6. CASE BeginOpenTruncating(p) \/ BeginRead(p)
  BY <1>4, <1>6 DEF BeginOpenTruncating, BeginRead, HoldsFile
<1>7. ASSUME \E mode \in Modes : BeginChmod(p, mode) PROVE Typed(T)'
  BY <1>4, <1>7 DEF BeginChmod
<1>8. ASSUME \E c \in Commands : BeginIoctl(p, c) \/ \E v \in Versions : BeginIoctlVersion(p, c, v)
      PROVE  Typed(T)'
  BY <1>4, <1>8 DEF BeginIoctl, BeginIoctlVersion, HoldsFile
<1> QED
  BY <1>1, <1>3, <1>5, <1>6, <1>7, <1>8

LEMMA StepTyped ==
  ASSUME NEW T, Tokens(T), \A n \in Names : ~Has(n, Blank), Inv(T), Typed(T), [Next]_vars
  PROVE  Typed(T)'
<1>1. ASSUME NEW p \in Procs, Serve(p) PROVE Typed(T)'
  BY <1>1, ServeTyped
<1>2. ASSUME NEW p \in Procs, Finish(p) PROVE Typed(T)'
  BY <1>2, FinishTyped
<1>3. ASSUME entry' = entry, call' = call, written' = written, failures' = failures,
             calls' = calls \/ (calls < MaxCalls /\ calls' = calls + 1)
      PROVE  Typed(T)'
  <2>1. Properly(entry)'
    BY <1>3 DEF Typed, Properly, Proper, Contents
  <2>2. Blocks(T)' /\ Parts'
    BY <1>3, BlocksKept, PartsKept DEF Typed
  <2>3. Counted'
    BY <1>3, VfsAssumption DEF Counted, Typed
  <2> QED
    BY <2>1, <2>2, <2>3 DEF Typed
<1>4. CASE \/ \E p \in Procs : Close(p) \/ TruncateInode(p) \/ \E n \in Names : Walk(p, n)
           \/ \E n \in Names : Prune(n)
  BY <1>3, <1>4 DEF Close, TruncateInode, Walk, Prune, Kernel, CanCall
<1>5. ASSUME NEW p \in Procs,
             \/ \E n \in Names : \/ BeginLookup(p, n) \/ BeginCreate(p, n) \/ BeginRemove(p, n)
                                 \/ \E r \in Files : BeginRename(p, n, r)
             \/ BeginOpenTruncating(p) \/ BeginRead(p) \/ BeginWrite(p)
             \/ \E mode \in Modes : BeginChmod(p, mode)
             \/ \E c \in Commands : BeginIoctl(p, c) \/ \E v \in Versions : BeginIoctlVersion(p, c, v)
      PROVE  Typed(T)'
  BY <1>5, AllBeginTyped
<1>6. ASSUME NEW p \in Procs,
             \/ \E c \in Commands \cap Unversioned : BeginIoctl(p, c)
             \/ \E c \in Commands \ Unversioned, v \in Versions : BeginIoctlVersion(p, c, v)
      PROVE  \E c \in Commands : BeginIoctl(p, c) \/ \E v \in Versions : BeginIoctlVersion(p, c, v)
  BY <1>6
<1>7. CASE UNCHANGED vars
  BY <1>3, <1>7 DEF vars
<1> QED
  BY <1>1, <1>2, <1>4, <1>5, <1>6, <1>7 DEF Next

LEMMA InitTyped ==
  ASSUME NEW T, Tokens(T), Init
  PROVE  Typed(T)
<1>1. Properly(entry)
  <2> SUFFICES ASSUME NEW n \in Files PROVE Proper(n, entry[n])
    BY DEF Properly
  <2>1. /\ entry[n] \in {Remote} \cup {Entry(k, <<>>, <<>>, "rw") : k \in {"none", "local", "dir"}}
                         \cup {Entry("out", v, v, "rw") : v \in Versions}
        /\ entry[n].kind \in {"remote", "out"} <=> n \in CvsFiles
    BY DEF Init, Listings
  <2>2. <<>> \in Contents
    BY DEF Contents
  <2>3. CASE entry[n] = Remote
    BY <2>1, <2>2, <2>3 DEF Proper, Remote, Entry
  <2>4. ASSUME NEW k \in {"none", "local", "dir"}, entry[n] = Entry(k, <<>>, <<>>, "rw")
        PROVE  Proper(n, entry[n])
    BY <2>4, PlainProper
  <2>5. ASSUME NEW v \in Versions, entry[n] = Entry("out", v, v, "rw")
        PROVE  Proper(n, entry[n])
    <3>1. v # <<>> /\ v \in Contents
      <4>1. Len(v) = 1 /\ Len(<<>>) = 0
        BY VfsAssumption
      <4> QED
        BY <4>1 DEF Contents
    <3> QED
      BY <2>1, <2>5, <3>1 DEF Proper, Entry
  <2> QED
    BY <2>1, <2>3, <2>4, <2>5
<1>2. Blocks(T) /\ Parts
  <2>1. \A p \in Procs : call[p] = Idle
    BY DEF Init
  <2>2. Idle.read = {} /\ Got(Idle) = {}
    BY DEF Idle, Got, Told
  <2> QED
    BY <2>1, <2>2, IdleIs DEF Blocks, Parts, ReadsParts
<1>3. Counted
  BY VfsAssumption DEF Init, Counted, Tokens
<1> QED
  BY <1>1, <1>2, <1>3 DEF Typed

(* What the daemon lists and the kernel remembers has the types they give  *)
(* it: a version is checked out where the repository has the file and is   *)
(* the only kind with a version on the disk (TCvsInterfacePserver.cpp),    *)
(* data are those of a version or of a write, and a dentry is hashed by    *)
(* its name (dir.c), when no name has a blank in it.                       *)
THEOREM VfsTypeCorrect ==
  ASSUME NEW T, Tokens(T), \A n \in Files : Plain(n), \A n \in Names : ~Has(n, Blank)
  PROVE  Spec => []TypeOK
<1>1. Spec => [](Inv(T) /\ Current)
  BY AlwaysCurrent
<1>2. Init => Typed(T)
  BY InitTyped
<1>3. Inv(T) /\ Typed(T) /\ [Next]_vars => Typed(T)'
  BY StepTyped
<1>4. Inv(T) /\ Current /\ Typed(T) => TypeOK
  <2> SUFFICES ASSUME Inv(T), Current, Typed(T)
               PROVE  TypeOK
    OBVIOUS
  <2>1. ASSUME NEW n \in Files
        PROVE  /\ entry[n].kind \in {"none", "remote", "out", "local", "dir", "phantom"}
               /\ entry[n].disk = "none" \/ entry[n].kind \in {"out", "local", "dir"}
               /\ entry[n].version \in Versions \cup {<<>>}
               /\ entry[n].data \in Contents /\ entry[n].stored \in Contents
               /\ entry[n].known \subseteq Versions /\ entry[n].cvsKnown \subseteq Versions
               /\ entry[n].kind \in {"remote", "out"} => n \in CvsFiles
               /\ entry[n].kind = "out" <=> entry[n].version # <<>>
    BY <2>1 DEF Inv, Entries, IsEntry, Stamps, Typed, Properly, Proper
  <2>2. hash \in [Names -> Ids \cup {0}] /\ held \in [Procs -> Ids \cup {0}]
    BY DEF Inv
  <2>3. \A n \in Names : hash[n] # 0 => dentry[hash[n]].name = n
    BY DEF Current, ByName
  <2>4. \A p \in Procs : call[p].key \in DirKeys \cup FileKeys \cup {"idle"}
    BY DEF Current, Kinds, Keys
  <2>5. ASSUME NEW p \in Procs, held[p] # 0 PROVE dentry[held[p]].name \in Names
    BY <2>5 DEF Inv, InUse, Used
  <2>6. \A p \in Procs : call[p].read \subseteq Contents \ {<<>>}
    BY DEF Typed, Parts, ReadsParts, Part
  <2> QED
    BY <2>1, <2>2, <2>3, <2>4, <2>5, <2>6 DEF TypeOK, Typed, Counted
<1> QED
  BY <1>1, <1>2, <1>3, <1>4, PTL DEF Spec
=============================================================================
