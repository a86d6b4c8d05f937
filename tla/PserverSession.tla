--------------------------- MODULE PserverSession ---------------------------
(***************************************************************************)
(* How the daemon talks to the CVS server: TCvsSessionPserver.cpp (login,  *)
(* lines out, lines and data in), the two commands of                      *)
(* TCvsPserverCommand*.cpp, the sockets, and the functions of              *)
(* TCvsInterfacePserver.cpp that run a command and keep what it brought.   *)
(*                                                                         *)
(* Every command has a connection and a session of its own.  The server    *)
(* reads lines and answers in its own time; it may fall silent, refuse,    *)
(* fail a command, or close the connection and lose what it had sent.      *)
(***************************************************************************)
EXTENDS Naturals, Sequences, SequencesExt

CONSTANTS
  Dirs,         \* the directories of the module, in the order rdiff visits them
  Files,        \* its files: a directory followed by a name
  MaxVersion,   \* the versions of a file are 1 .. MaxVersion
  Blocks,       \* the parts that the data of a version arrives in
  MaxSessions,  \* bound on the connections of a behaviour
  MaxCommits,   \* bound on the changes of the repository
  MaxOpen,      \* the descriptors that the daemon may have open
  MaxBreaks     \* bound on the connections that break

Versions == 1 .. MaxVersion
NoDir    == <<"none">>   \* fCurrentDir = 0, no path of the module
IsSequence(s) == s \in Seq(ToSet(s))

ASSUME SessionAssumption ==
  /\ IsSequence(Dirs) /\ <<>> \in ToSet(Dirs) /\ NoDir \notin ToSet(Dirs)
  /\ IsFiniteSet(Files)
  /\ \A f \in Files : IsSequence(f) /\ Len(f) > 0 /\ Front(f) \in ToSet(Dirs)
  /\ MaxVersion \in Nat \ {0} /\ Blocks \in Nat \ {0}
  /\ {MaxSessions, MaxCommits, MaxOpen, MaxBreaks} \subseteq Nat

VARIABLES
  head,      \* the server: the head version of each file, 0 if there is none
  authed,    \* the server: it has accepted the login of this connection
  link,      \* the connection: "none", "up", "silent", "closed" by the server, or
             \* "cut": closed within the number that the size is
  up, down,  \* the lines on their way to the server; what is on its way back
  cmd, step, \* the command that runs, and where the daemon is in it
  todo,      \* the lines the daemon has yet to send in this step
  curDir,    \* fCurrentPath, or NoDir before a directory was named
  data,      \* fFileData: the attributes read so far
  pos,       \* the blocks of data received
  cvs,       \* fCvsDir: the head version of the files found
  loaded, root,   \* fTreeLoaded; fRootDir as it was copied from fCvsDir
  known,     \* fFileVersions: the attributes of each version
  store,     \* /remote: the blocks stored of a version, or NoFile
  spare, fds,     \* fSocket.sockfd; the descriptors open for sockets
  listing,   \* history: the repository when the last rdiff ran
  sessions, commits, breaks, deaths,  \* history: counts
  diskFull   \* history: a block could not be written

server  == <<head, authed, commits>>
wire    == <<link, up, down, breaks>>
reading == <<curDir, data, pos, cvs>>
kept    == <<loaded, root, known, store>>
sockets == <<spare, fds, sessions>>
vars == <<server, wire, cmd, step, todo, reading, kept, sockets, listing, deaths, diskFull>>

NoFile == Blocks + 1
NotKnown == {"unknown"}
Fields == {"time", "mode", "size"}
ShortFields == (Fields \ {"size"}) \cup {"digits"}   \* all, but the size cut short
Closed == {"closed", "cut"}
Idle   == [op |-> "idle", file |-> <<>>, version |-> 0]
Nothing == [f \in Files |-> 0]

LoginLines   == <<"auth", "root", "user", "password", "endauth">>
VerifyLines  == <<"verify", "root", "user", "password", "endverify">>
PrepareLines == <<"Root", "Valid-responses", "UseUnchanged">>
RdiffLines   == <<"-s", "-r", "0", "module", "rdiff">>
CoLines      == <<"-N", "-P", "-r", "version", "path", "Directory", "root", "co">>

CommandLines == IF cmd.op = "tree" THEN RdiffLines ELSE CoLines

(* Items on the way to the daemon: a line, or data that one recv returns.  *)
Line(k)       == [kind |-> k, path |-> <<>>, version |-> 0]
DirLine(d)    == [kind |-> "dir", path |-> d, version |-> 0]
FileLine(f,v) == [kind |-> "file", path |-> f, version |-> v]

TypeOK ==
  /\ head \in [Files -> 0 .. MaxVersion] /\ authed \in BOOLEAN
  /\ link \in {"none", "up", "silent"} \cup Closed /\ (link = "none" => up = <<>> /\ down = <<>>)
  /\ cmd.op \in {"idle", "test", "tree", "attr", "file"} /\ (cmd = Idle <=> step = "idle")
  /\ step \in {"idle", "login", "greeting", "prepare", "command", "reply", "data"}
  /\ data \subseteq Fields /\ pos \in 0 .. Blocks
  /\ cvs \in [Files -> 0 .. MaxVersion] /\ root \in [Files -> 0 .. MaxVersion]
  /\ loaded \in BOOLEAN
  /\ known \in [Files -> [Versions -> (SUBSET (Fields \cup {"digits"})) \cup {NotKnown}]]
  /\ store \in [Files -> [Versions -> 0 .. NoFile]]
  /\ spare \in {"unset", "socket", "bad"} /\ fds \in 0 .. MaxOpen
  /\ (cmd = Idle <=> link = "none") /\ (spare = "socket" => fds > 0)

Init ==
  /\ head = [f \in Files |-> 1] /\ authed = FALSE
  /\ link = "none" /\ up = <<>> /\ down = <<>>
  /\ cmd = Idle /\ step = "idle" /\ todo = <<>>
  /\ curDir = NoDir /\ data = {} /\ pos = 0
  /\ cvs = Nothing /\ loaded = FALSE /\ root = Nothing
  /\ known = [f \in Files |-> [v \in Versions |-> NotKnown]]
  /\ store = [f \in Files |-> [v \in Versions |-> NoFile]]
  /\ spare = "unset" /\ fds = 0 /\ listing = Nothing
  /\ sessions = 0 /\ commits = 0 /\ breaks = 0 /\ deaths = 0
  /\ diskFull = FALSE
----------------------------------------------------------------------------
(* TSocket::Connect: the socket at hand becomes the connection's, and the  *)
(* next one is made at once.  One that could not be made is not made again.*)
Available == IF spare = "unset" THEN fds < MaxOpen ELSE spare = "socket"

Connect ==
  LET now == IF spare = "unset" THEN fds + 1 ELSE fds IN
  /\ Available /\ link' = "up" /\ up' = <<>> /\ down' = <<>> /\ authed' = FALSE
  /\ spare' = IF now < MaxOpen THEN "socket" ELSE "bad"
  /\ fds' = IF now < MaxOpen THEN now + 1 ELSE now
  /\ sessions' = sessions + 1

(* Mutant: the socket made for it is forgotten. *)
ConnectFailsForgetting ==
  /\ cmd = Idle /\ spare = "unset" /\ fds < MaxOpen /\ fds' = fds + 1
  /\ UNCHANGED <<server, wire, cmd, step, todo, reading, kept, spare, sessions, listing,
                 deaths, diskFull>>

(* The connection is refused; the socket made for it stays. *)
ConnectFails ==
  /\ cmd = Idle /\ spare = "unset" /\ fds < MaxOpen
  /\ spare' = "socket" /\ fds' = fds + 1
  /\ UNCHANGED <<server, wire, cmd, step, todo, reading, kept, sessions, listing,
                 deaths, diskFull>>

(* A session begins with the login: ExecuteCommand, or Test. *)
Begin(op, f, v) ==
  /\ cmd = Idle /\ sessions < MaxSessions /\ Connect
  /\ cmd' = [op |-> op, file |-> f, version |-> v] /\ step' = "login"
  /\ todo' = IF op = "test" THEN VerifyLines ELSE LoginLines
  /\ UNCHANGED <<head, commits, breaks, known, loaded, root, reading, listing,
                 deaths, diskFull>>

Test == Begin("test", <<>>, 0) /\ UNCHANGED store

LoadCvsTree == ~loaded /\ Begin("tree", <<>>, 0) /\ UNCHANGED store

LoadAttribute(f, v) ==
  loaded /\ root[f] # 0 /\ known[f][v] = NotKnown /\ Begin("attr", f, v) /\ UNCHANGED store

(* LoadFile creates the file of the version, or empties it, beforehand. *)
LoadFile(f, v) ==
  /\ loaded /\ root[f] # 0 /\ (known[f][v] = NotKnown \/ store[f][v] = NoFile)
  /\ Begin("file", f, v) /\ store' = [store EXCEPT ![f][v] = 0]
----------------------------------------------------------------------------
(* Mutant: the session is not deleted, and its connection stays. *)
EndSessionOpen ==
  /\ cmd' = Idle /\ step' = "idle" /\ todo' = <<>>
  /\ curDir' = NoDir /\ data' = {} /\ pos' = 0
  /\ UNCHANGED <<server, wire, spare, fds, sessions, listing, deaths, diskFull>>

(* The end of a session: the socket is shut down, but its descriptor stays *)
(* open.                                                                   *)
EndSession ==
  /\ cmd' = Idle /\ step' = "idle" /\ todo' = <<>>
  /\ link' = "none" /\ up' = <<>> /\ down' = <<>> /\ authed' = FALSE
  /\ curDir' = NoDir /\ data' = {} /\ pos' = 0
  /\ UNCHANGED <<head, commits, breaks, spare, fds, sessions, listing, deaths, diskFull>>

(* Mutant: what was stored of a version that did not arrive is kept. *)
FailKeeping == EndSession /\ UNCHANGED <<kept, cvs>>

(* The command returns false: LoadFile deletes what it stored. *)
Fail ==
  /\ EndSession /\ UNCHANGED <<loaded, root, known, cvs>>
  /\ store' = IF cmd.op # "file" THEN store
              ELSE [store EXCEPT ![cmd.file][cmd.version] = NoFile]

Succeed ==
  /\ EndSession /\ UNCHANGED <<cvs, store>>
  /\ loaded' = (loaded \/ cmd.op = "tree")
  /\ root' = IF cmd.op = "tree" THEN cvs ELSE root
  /\ known' = IF cmd.op \notin {"attr", "file"} \/ known[cmd.file][cmd.version] # NotKnown
              THEN known ELSE [known EXCEPT ![cmd.file][cmd.version] = data]
----------------------------------------------------------------------------
(* Mutant: DoLogin does not wait for the server's answer. *)
AfterSendHasty ==
  IF Len(todo) > 1 THEN step' = step /\ todo' = Tail(todo)
  ELSE IF step = "login" THEN step' = "prepare" /\ todo' = PrepareLines
  ELSE IF step = "prepare" THEN step' = "command" /\ todo' = CommandLines
  ELSE todo' = <<>> /\ step' = "reply"

(* TCvsSessionPserver::execute: one line, which may be the last of a step. *)
(* The first line sent on a connection the server has closed is lost.      *)
AfterSend ==
  IF Len(todo) > 1 THEN step' = step /\ todo' = Tail(todo)
  ELSE IF step = "prepare" THEN step' = "command" /\ todo' = CommandLines
  ELSE /\ todo' = <<>> /\ step' = IF step = "login" THEN "greeting" ELSE "reply"

(* Mutant: the files of the tree are not removed before it is read. *)
EmptyNot == UNCHANGED cvs

(* TCvsPserverCommandTree::execute empties the tree once rdiff is sent. *)
EmptyTree ==
  cvs' = IF cmd.op = "tree" /\ step = "command" /\ Len(todo) = 1 THEN Nothing ELSE cvs

Send ==
  /\ todo # <<>> /\ AfterSend /\ EmptyTree
  /\ up' = IF link = "up" THEN Append(up, Head(todo)) ELSE up
  /\ UNCHANGED <<server, link, down, breaks, cmd, curDir, data, pos, kept, sockets,
                 listing, deaths, diskFull>>

SendFails == todo # <<>> /\ Fail

(* send to a connection that was reset raises SIGPIPE, which nothing       *)
(* handles: the daemon dies, and another is started.                       *)
SendKills ==
  /\ todo # <<>> /\ link \in Closed /\ deaths' = deaths + 1
  /\ cmd' = Idle /\ step' = "idle" /\ todo' = <<>>
  /\ link' = "none" /\ down' = <<>> /\ authed' = FALSE
  /\ curDir' = NoDir /\ data' = {} /\ pos' = 0 /\ cvs' = Nothing
  /\ loaded' = FALSE /\ root' = Nothing
  /\ known' = [f \in Files |-> [v \in Versions |-> NotKnown]]
  /\ spare' = "unset" /\ fds' = 0
  /\ UNCHANGED <<head, commits, up, breaks, store, sessions, listing, diskFull>>
----------------------------------------------------------------------------
(* ReadLine and ReadRaw: what arrived is taken.  Nothing for ten seconds   *)
(* ends the command, and so does a connection that was reset.  Of a closed *)
(* one ReadLine makes an empty line, or a line of the part that arrived,   *)
(* and ReadRaw no data: the loops over an answer go on for ever.           *)
Reading == step \in {"greeting", "reply", "data"}

Take(k) == Reading /\ down # <<>> /\ Head(down).kind = k
           /\ down' = Tail(down) /\ UNCHANGED <<link, up, breaks>>

Go(s, lines) ==
  step' = s /\ todo' = lines /\ UNCHANGED <<server, cmd, kept, sockets, listing,
                                            deaths, diskFull>>

(* Mutant: -1 of ReadRaw is taken for a length. *)
TimeoutOfLine == step \in {"greeting", "reply"} /\ link \in {"up", "silent"} /\ down = <<>> /\ Fail

(* Mutant: the attributes count although the size did not arrive. *)
TimeoutIgnored ==
  /\ Reading /\ link \in {"up", "silent"} /\ down = <<>>
  /\ IF cmd.op = "attr" /\ step = "reply" THEN Succeed ELSE Fail

Timeout == Reading /\ link \in {"up", "silent"} /\ down = <<>> /\ Fail

(* DoLogin *)
Welcome ==
  /\ step = "greeting"
  /\ \/ cmd.op = "test" /\ down # <<>> /\ Head(down).kind = "love" /\ Succeed
     \/ /\ cmd.op # "test" /\ Take("love") /\ Go("prepare", PrepareLines)
        /\ UNCHANGED reading

Unwelcome ==
  /\ step = "greeting"
  /\ down = <<>> => link \in Closed
  /\ down # <<>> => Head(down).kind # "love"
  /\ Fail

(* TCvsPserverCommand::processData *)
EndsWith(k) == step = "reply" /\ down # <<>> /\ Head(down).kind = k

Finished == EndsWith("ok") /\ Succeed
Refused  == EndsWith("error") /\ Fail

(* TCvsPserverCommandTree::processLine: a file counts once a directory was *)
(* named; its path is cut by the length of the directory's.                *)
TreeLine ==
  /\ step = "reply" /\ cmd.op = "tree" /\ UNCHANGED <<data, pos>>
  /\ \/ Take("dir") /\ curDir' = Head(down).path /\ UNCHANGED cvs
     \/ /\ Take("file") /\ UNCHANGED curDir
        /\ cvs' = IF curDir = NoDir THEN cvs
                  ELSE [cvs EXCEPT ![Append(curDir, Last(Head(down).path))] = Head(down).version]
  /\ Go("reply", <<>>)

(* TCvsPserverCommandCheckout::processLine: without a stream the command   *)
(* ends at the size, however much the server has yet to say.               *)
AttributeLine ==
  /\ step = "reply" /\ cmd.op \in {"attr", "file"} /\ UNCHANGED <<curDir, pos, cvs>>
  /\ \E field \in {"time", "mode"} : Take(field) /\ data' = data \cup {field}
  /\ Go("reply", <<>>)

SizeLine ==
  /\ EndsWith("size") /\ cmd.op \in {"attr", "file"}
  /\ known' = IF cmd.op = "attr"
              THEN [known EXCEPT ![cmd.file][cmd.version] = data \cup {"size"}] ELSE known
  /\ IF cmd.op = "attr"
       THEN EndSession /\ UNCHANGED <<loaded, root, store, cvs>>
       ELSE /\ Take("size") /\ data' = data \cup {"size"}
            /\ step' = "data" /\ UNCHANGED <<curDir, pos, cvs, todo, server, cmd, loaded,
                                             root, store, sockets, listing, deaths, diskFull>>

(* The number was cut short: an attribute command ends as if it were whole,*)
(* and a file command reads the data that does not come, for ever.         *)
ShortSize ==
  /\ step = "reply" /\ cmd.op = "attr" /\ link = "cut" /\ down = <<>>
  /\ known' = [known EXCEPT ![cmd.file][cmd.version] = data \cup {"digits"}]
  /\ EndSession /\ UNCHANGED <<loaded, root, store, cvs>>

(* The stream is not asked whether it could write the block; once it could *)
(* not, it writes no more.                                                 *)
Written(stored) == IF stored = pos THEN {pos, pos + 1} ELSE {stored}

DataBlock ==
  /\ step = "data" /\ Take("data") /\ pos' = pos + 1
  /\ \E stored \in Written(store[cmd.file][cmd.version]) :
       /\ store' = [store EXCEPT ![cmd.file][cmd.version] = stored]
       /\ diskFull' = (diskFull \/ stored # pos + 1)
  /\ step' = IF pos + 1 < Blocks THEN "data" ELSE "reply"
  /\ UNCHANGED <<server, cmd, todo, curDir, data, cvs, loaded, root, known, sockets,
                 listing, deaths>>

DaemonStep ==
  \/ Send \/ SendFails \/ SendKills \/ Timeout \/ Welcome \/ Unwelcome
  \/ Finished \/ Refused \/ TreeLine \/ AttributeLine \/ SizeLine
  \/ ShortSize \/ DataBlock
----------------------------------------------------------------------------
(* The server, which is not part of the repository: what the daemon relies *)
(* on.  It answers the last line of a login and of a command.              *)
Asked(lines) == link = "up" /\ up # <<>> /\ Last(up) \in lines /\ up' = <<>>

Answers(items) ==
  /\ down' = down \o items
  /\ UNCHANGED <<head, commits, link, breaks, cmd, step, todo, reading, kept, sockets,
                 deaths, diskFull>>

ServerGreets ==
  /\ Asked({"endauth", "endverify"}) /\ authed' \in BOOLEAN
  /\ Answers(<<Line(IF authed' THEN "love" ELSE "hate")>>) /\ UNCHANGED listing

FilesIn(d) == {f \in Files : Front(f) = d /\ head[f] # 0}

Differences ==
  FlattenSeq([i \in DOMAIN Dirs |->
    <<DirLine(Dirs[i])>> \o SetToSeq({FileLine(f, head[f]) : f \in FilesIn(Dirs[i])})])

ServerDiffs ==
  /\ authed /\ Asked({"rdiff"}) /\ listing' = head
  /\ \/ Answers(Append(Differences, Line("ok")))
     \/ Answers(<<Line("error")>>)
  /\ UNCHANGED authed

ServerSends ==
  /\ authed /\ Asked({"co"})
  /\ \/ Answers(<<Line("time"), Line("mode"), Line("size")>>
                \o [i \in 1 .. Blocks |-> Line("data")] \o <<Line("ok")>>)
     \/ Answers(<<Line("error")>>)
  /\ UNCHANGED <<authed, listing>>

(* The connection breaks: nothing more arrives, at once or after a part.   *)
(* Silence stands for a reset too.  Of a line that arrives in part only    *)
(* the size matters: with any other the answer is read for ever.           *)
ServerStops ==
  /\ link = "up" /\ breaks < MaxBreaks /\ breaks' = breaks + 1 /\ up' = <<>>
  /\ \E n \in 0 .. Len(down) :
       /\ down' = SubSeq(down, 1, n)
       /\ \/ link' \in {"silent", "closed"}
          \/ n < Len(down) /\ down[n + 1].kind = "size" /\ link' = "cut"
  /\ UNCHANGED <<server, cmd, step, todo, reading, kept, sockets, listing, deaths, diskFull>>

(* Somebody commits or removes a file. *)
Commit(f) ==
  /\ commits < MaxCommits /\ commits' = commits + 1
  /\ head[f] # 0 /\ \E v \in {0, head[f] + 1} : v <= MaxVersion /\ head' = [head EXCEPT ![f] = v]
  /\ UNCHANGED <<authed, wire, cmd, step, todo, reading, kept, sockets, listing,
                 deaths, diskFull>>

ServerStep == ServerGreets \/ ServerDiffs \/ ServerSends \/ ServerStops

Next ==
  \/ DaemonStep \/ ServerStep \/ ConnectFails \/ Test \/ LoadCvsTree
  \/ \E f \in Files : Commit(f)
  \/ \E f \in Files : \E v \in 1 .. root[f] : LoadAttribute(f, v) \/ LoadFile(f, v)

(* The daemon goes on; of the server nothing is expected. *)
Spec == Init /\ [][Next]_vars /\ WF_vars(DaemonStep)
----------------------------------------------------------------------------
(* The tree the daemon serves is the repository at one moment, whatever    *)
(* earlier attempts left behind and whenever they ended (LoadTree,         *)
(* TCvsPserverCommandTree.cpp 85-96).                                      *)
TreeIsListing == loaded => root = listing

(* The attributes of a version are all there or none: an answer that stops *)
(* half way gives no attributes (TCvsPserverCommandCheckout.cpp 78-80), but*)
(* for one: of a connection closed within the number, the size is what had *)
(* arrived of it (ReadLine, TCvsSessionPserver.cpp 331-337).               *)
AttributesWhole ==
  \A f \in Files, v \in Versions :
    known[f][v] \in {NotKnown, Fields} \/ (breaks > 0 /\ known[f][v] = ShortFields)

(* As long as no daemon died and no block failed to be written, a version  *)
(* in the cache is whole unless it is arriving right now (LoadFile,        *)
(* TCvsInterfacePserver.cpp 1149-1173).                                    *)
StoredWhole ==
  deaths = 0 /\ ~diskFull => \A f \in Files, v \in Versions :
    store[f][v] \in {Blocks, NoFile} \/ (cmd.op = "file" /\ cmd.file = f /\ cmd.version = v)

(* Nothing but the login goes to a server that has not accepted it.        *)
LoginFirst == step \in {"prepare", "command", "reply", "data"} => authed

(* Attempts to connect during an outage use up no descriptors: there is    *)
(* one for each session that began, and one for the next (TSocket::Connect)*)
OutageCostsNothing == fds <= sessions + 1

(* A command ends, whatever the server does, unless the server closes the  *)
(* connection while the daemon reads its answer (TConnectedSocket::Recv).  *)
CommandReturns ==
  cmd # Idle ~> cmd = Idle \/ (link \in Closed /\ step \in {"reply", "data"})
=============================================================================
