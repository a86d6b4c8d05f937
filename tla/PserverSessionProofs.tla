------------------------ MODULE PserverSessionProofs ------------------------
(***************************************************************************)
(* Invariants of PserverSession for every set of directories and files,    *)
(* every number of versions and blocks, and every bound.                   *)
(***************************************************************************)
EXTENDS PserverSession, SequenceTheorems, WellFoundedInduction, FiniteSetTheorems, TLAPS

(* The lines that a server answers, and the one a command ends with. *)
Finals    == {"endauth", "endverify", "rdiff", "co"}
Request   == IF cmd.op = "tree" THEN "rdiff" ELSE "co"
Sending   == {"login", "prepare", "command"}
Answering == {"reply", "data"}
Words ==
  {"auth", "root", "user", "password", "endauth", "verify", "endverify", "Root",
   "Valid-responses", "UseUnchanged", "-s", "-r", "0", "module", "rdiff",
   "-N", "-P", "version", "path", "Directory", "co"}
Kinds     == {"love", "hate", "time", "mode", "size", "data", "ok", "error"}
Known     == (SUBSET (Fields \cup {"digits"})) \cup {NotKnown}
Items     == [kind : Kinds, path : {<<>>}, version : {0}]

Typed ==
  /\ step \in Sending \cup Answering \cup {"idle", "greeting"}
  /\ cmd.op \in {"idle", "test", "tree", "attr", "file"} /\ (cmd.op = "idle" => step = "idle")
  /\ todo \in Seq(Words) /\ up \in Seq(Words)
  /\ authed \in BOOLEAN /\ data \subseteq Fields /\ pos \in 0 .. Blocks /\ deaths \in Nat /\ diskFull \in BOOLEAN
  /\ store \in [Files -> [Versions -> 0 .. NoFile]]
  /\ known \in [Files -> [Versions -> Known]]

(* The lines of a step are sent in their order, the final one last. *)
SendOrder ==
  /\ todo # <<>> <=> step \in Sending
  /\ \A i \in 1 .. Len(todo) : i < Len(todo) => todo[i] \notin Finals
  /\ step = "login" => todo[Len(todo)] \in {"endauth", "endverify"}
  /\ step = "prepare" => todo[Len(todo)] \notin Finals
  /\ step = "command" => todo[Len(todo)] = Request
  /\ cmd.op = "test" => step \in {"login", "greeting"}

(* The server is asked one thing at a time, and has answered what was      *)
(* asked before.                                                           *)
AskedOnce ==
  /\ link # "up" => up = <<>>
  /\ step \notin Answering => data = {} /\ pos = 0
  /\ step \notin Answering \cup {"greeting"} =>
       down = <<>> /\ \A i \in 1 .. Len(up) : up[i] \notin Finals
  /\ step = "greeting" /\ up # <<>> =>
       down = <<>> /\ up[Len(up)] \in {"endauth", "endverify"}
  /\ step \in Answering /\ up # <<>> =>
       down = <<>> /\ data = {} /\ pos = 0 /\ step = "reply" /\ up[Len(up)] = Request

Greeted ==
  step = "greeting" =>
    down \in {<<>>, <<Line("hate")>>, <<Line("love")>>} /\ (down = <<Line("love")>> => authed)

(* The parts of an answer to co, and how many of them have been taken. *)
Part(i) ==
  IF i = 1 THEN "time" ELSE IF i = 2 THEN "mode" ELSE IF i = 3 THEN "size"
  ELSE IF i <= 3 + Blocks THEN "data" ELSE "ok"

Taken ==
  IF "time" \notin data THEN 0 ELSE IF "mode" \notin data THEN 1
  ELSE IF "size" \notin data THEN 2 ELSE 3 + pos

AnswerOrder ==
  cmd.op \in {"attr", "file"} /\ step \in Answering =>
    /\ down \in Seq(Items)
    /\ ("mode" \in data => "time" \in data) /\ ("size" \in data => "mode" \in data)
    /\ pos > 0 => "size" \in data
    /\ step = "data" <=> "size" \in data /\ pos < Blocks
    /\ \/ Len(down) = 1 /\ down[1].kind = "error" /\ data = {}
       \/ \A i \in 1 .. Len(down) : down[i].kind = Part(Taken + i)

(* What is stored of the version that arrives is what has been taken.      *)
StoreFollows ==
  /\ step = "data" => cmd.op = "file" /\ pos < Blocks
  /\ cmd.op = "file" /\ cmd.file \in Files /\ cmd.version \in Versions /\ ~diskFull =>
       store[cmd.file][cmd.version] = pos
  /\ cmd.op = "tree" => cmd.file \notin Files

Inv ==
  /\ Typed /\ SendOrder /\ AskedOnce /\ Greeted /\ LoginFirst
  /\ AnswerOrder /\ StoreFollows /\ StoredWhole
----------------------------------------------------------------------------
LEMMA BlocksPositive == Blocks \in Nat /\ Blocks > 0
  BY SessionAssumption

LEMMA NoFileInNat == NoFile \in Nat /\ NoFile > Blocks
  BY BlocksPositive DEF NoFile

LEMMA FilesNamed == <<>> \notin Files
  BY SessionAssumption

(* Nested updates keep the types of the cache, whatever is updated. *)
LEMMA Updated ==
  ASSUME NEW K, NEW s \in [Files -> [Versions -> K]], NEW f, NEW v, NEW x \in K
  PROVE  [s EXCEPT ![f][v] = x] \in [Files -> [Versions -> K]]
  <1>1. CASE f \in Files
    <2>1. [s[f] EXCEPT ![v] = x] \in [Versions -> K]
      BY <1>1
    <2> QED
      BY <1>1, <2>1
  <1>2. CASE f \notin Files
    BY <1>2
  <1> QED
    BY <1>1, <1>2

(* The lines of each step are a sequence, and end with what is answered. *)
Script(s, last) ==
  /\ s \in Seq(Words) /\ Len(s) > 0 /\ s[Len(s)] = last
  /\ \A i \in 1 .. Len(s) : i < Len(s) => s[i] \notin Finals

LEMMA FiveLines ==
  ASSUME NEW a \in Words \ Finals, NEW b \in Words \ Finals, NEW c \in Words \ Finals,
         NEW d \in Words \ Finals, NEW e \in Words
  PROVE  Script(<<a, b, c, d, e>>, e)
  BY DEF Script

LEMMA LoginScript ==
  Script(LoginLines, "endauth") /\ Script(VerifyLines, "endverify")
  <1>1. /\ "auth" \in Words \ Finals /\ "root" \in Words \ Finals /\ "user" \in Words \ Finals
        /\ "password" \in Words \ Finals /\ "verify" \in Words \ Finals
        /\ "endauth" \in Words /\ "endverify" \in Words
    BY DEF Words, Finals
  <1>2. Script(LoginLines, "endauth")
    BY <1>1, FiveLines DEF LoginLines
  <1>3. Script(VerifyLines, "endverify")
    BY <1>1, FiveLines DEF VerifyLines
  <1> QED
    BY <1>2, <1>3

LEMMA PrepareScript == Script(PrepareLines, "UseUnchanged")
  <1>1. ASSUME NEW S, NEW a \in S, NEW b \in S, NEW c \in S
        PROVE  <<a, b, c>> \in Seq(S)
    OBVIOUS
  <1> QED
    BY <1>1 DEF Script, PrepareLines, Words, Finals

LEMMA CommandScript == Script(RdiffLines, "rdiff") /\ Script(CoLines, "co")
  <1>1. Script(RdiffLines, "rdiff")
    <2>1. /\ "-s" \in Words \ Finals /\ "-r" \in Words \ Finals /\ "0" \in Words \ Finals
          /\ "module" \in Words \ Finals /\ "rdiff" \in Words
      BY DEF Words, Finals
    <2> QED
      BY <2>1, FiveLines DEF RdiffLines
  <1>2. ASSUME NEW S, NEW a \in S, NEW b \in S, NEW c \in S, NEW d \in S,
               NEW e \in S, NEW f \in S, NEW g \in S, NEW h \in S
        PROVE  <<a, b, c, d, e, f, g, h>> \in Seq(S)
    BY SMTT(60)
  <1>3. CoLines \in Seq(Words)
    BY <1>2 DEF CoLines, Words
  <1>4. Len(CoLines) = 8 /\ CoLines[8] = "co"
    BY DEF CoLines
  <1>5. \A i \in 1 .. 7 : CoLines[i] \notin Finals
    BY DEF CoLines, Finals
  <1>6. Script(CoLines, "co")
    BY <1>3, <1>4, <1>5 DEF Script
  <1> QED
    BY <1>1, <1>6

(* Nothing known, and the fields that an answer brings. *)
LEMMA KnownFields ==
  /\ NotKnown \in Known /\ Fields \in Known
  /\ \A d : d \subseteq Fields => d \in Known /\ d \cup {"digits"} \in Known
  <1>1. NotKnown \in Known
    BY DEF Known
  <1>2. ASSUME NEW d, d \subseteq Fields
        PROVE  d \in Known /\ d \cup {"digits"} \in Known
    <2>1. d \subseteq Fields \cup {"digits"} /\ d \cup {"digits"} \subseteq Fields \cup {"digits"}
      BY <1>2
    <2> QED
      BY <2>1 DEF Known
  <1> QED
    BY <1>1, <1>2

LEMMA InitInv == Init => Inv
  <1> SUFFICES ASSUME Init
               PROVE  Inv
    OBVIOUS
  <1>1. Typed
    <2>1. store \in [Files -> [Versions -> 0 .. NoFile]]
      BY NoFileInNat DEF Init
    <2>2. known \in [Files -> [Versions -> Known]]
      BY KnownFields DEF Init
    <2> QED
      <3>1. cmd.op = "idle" /\ step = "idle" /\ data = {}
        BY DEF Init, Idle
      <3>2. /\ todo = <<>> /\ up = <<>> /\ authed = FALSE /\ deaths = 0 /\ pos = 0
            /\ diskFull = FALSE
        BY DEF Init
      <3> QED
        <4>1. cmd.op \in {"idle", "test", "tree", "attr", "file"} /\ data \subseteq Fields
          BY <3>1
        <4>2. todo \in Seq(Words) /\ up \in Seq(Words) /\ pos \in 0 .. Blocks
          BY <3>2, BlocksPositive
        <4> QED
          BY <3>1, <3>2, <4>1, <4>2, <2>1, <2>2 DEF Typed
  <1>2. SendOrder /\ AskedOnce /\ Greeted /\ LoginFirst /\ AnswerOrder
    BY DEF Init, SendOrder, AskedOnce, Greeted, LoginFirst, AnswerOrder, Idle, Sending,
       Answering
  <1>3. StoreFollows /\ StoredWhole
    BY DEF Init, StoreFollows, StoredWhole, Idle
  <1> QED
    BY <1>1, <1>2, <1>3 DEF Inv

(* After a session nothing of it is left but the caches. *)
LEMMA Ended ==
  ASSUME Typed, EndSession, StoredWhole',
         store' \in [Files -> [Versions -> 0 .. NoFile]],
         known' \in [Files -> [Versions -> Known]]
  PROVE  Inv'
  <1>1. Typed'
    <2>1. cmd'.op = "idle" /\ step' = "idle" /\ data' = {}
      BY DEF EndSession, Idle
    <2>2. todo' = <<>> /\ up' = <<>> /\ authed' = FALSE /\ deaths' = deaths /\ diskFull' = diskFull /\ pos' = 0
      BY DEF EndSession
    <2>3. cmd'.op \in {"idle", "test", "tree", "attr", "file"} /\ data' \subseteq Fields
      BY <2>1
    <2>4. todo' \in Seq(Words) /\ up' \in Seq(Words) /\ pos' \in 0 .. Blocks
      BY <2>2, BlocksPositive
    <2> QED
      BY <2>1, <2>2, <2>3, <2>4 DEF Typed
  <1>2. SendOrder' /\ AskedOnce' /\ Greeted' /\ LoginFirst' /\ AnswerOrder' /\ StoreFollows'
    BY DEF EndSession, SendOrder, AskedOnce, Greeted, LoginFirst, AnswerOrder,
       StoreFollows,
       Idle, Sending, Answering
  <1> QED
    BY <1>1, <1>2 DEF Inv

LEMMA FailInv ==
  ASSUME Inv, Fail
  PROVE  Inv'
  <1>1. store' \in [Files -> [Versions -> 0 .. NoFile]]
    <2>1. store \in [Files -> [Versions -> 0 .. NoFile]] /\ NoFile \in 0 .. NoFile
      BY NoFileInNat DEF Inv, Typed
    <2>2. [store EXCEPT ![cmd.file][cmd.version] = NoFile] \in [Files -> [Versions -> 0 .. NoFile]]
      BY <2>1, Updated
    <2> QED
      BY <2>1, <2>2 DEF Fail
  <1>2. StoredWhole'
    <2> SUFFICES ASSUME deaths' = 0, ~diskFull', NEW f \in Files, NEW v \in Versions
                 PROVE  store'[f][v] \in {Blocks, NoFile}
      BY DEF StoredWhole
    <2>1. store[f][v] \in {Blocks, NoFile} \/ (cmd.op = "file" /\ cmd.file = f /\ cmd.version = v)
      BY DEF Inv, StoredWhole, Fail, EndSession
    <2> QED
      BY <2>1 DEF Inv, Typed, Fail
  <1> QED
    BY <1>1, <1>2, Ended DEF Inv, Fail, Typed

(* A command succeeds at "ok", when all of the answer has been taken. *)
LEMMA AllTaken ==
  ASSUME Inv, Finished, cmd.op \in {"attr", "file"}
  PROVE  data = Fields /\ pos = Blocks
  <1> USE DEF Inv
  <1>1. step = "reply" /\ Len(down) > 0 /\ down[1].kind = "ok"
    BY DEF Finished, EndsWith, AnswerOrder, Answering
  <1>2. down[1].kind = Part(Taken + 1)
    BY <1>1 DEF AnswerOrder, Answering
  <1>3. Taken = 3 + Blocks /\ "size" \in data
    BY <1>2, <1>1, BlocksPositive DEF Part, Taken, Typed
  <1>4. "mode" \in data /\ "time" \in data
    BY <1>3, <1>1 DEF AnswerOrder, Answering
  <1>5. data = Fields
    BY <1>3, <1>4 DEF Typed, Fields
  <1>6. pos = Blocks
    BY <1>3, <1>4, BlocksPositive DEF Taken, Typed
  <1> QED
    BY <1>5, <1>6

LEMMA FinishedInv ==
  ASSUME Inv, Finished
  PROVE  Inv'
  <1> USE DEF Inv
  <1>1. cmd.op \in {"attr", "file"} => data = Fields /\ pos = Blocks
    BY AllTaken
  <1>2. known' \in [Files -> [Versions -> Known]]
    <2>1. data \in Known /\ known \in [Files -> [Versions -> Known]]
      BY KnownFields DEF Typed
    <2>2. [known EXCEPT ![cmd.file][cmd.version] = data] \in [Files -> [Versions -> Known]]
      BY <2>1, Updated
    <2> QED
      BY <2>1, <2>2 DEF Finished, Succeed
  <1>3. StoredWhole'
    <2> SUFFICES ASSUME deaths' = 0, ~diskFull', NEW f \in Files, NEW v \in Versions
                 PROVE  store'[f][v] \in {Blocks, NoFile}
      BY DEF StoredWhole
    <2>1. deaths = 0 /\ ~diskFull /\ store' = store
      BY DEF Finished, Succeed, EndSession
    <2>2. CASE cmd.op = "file" /\ cmd.file = f /\ cmd.version = v
      BY <2>1, <2>2, <1>1 DEF StoreFollows
    <2>3. CASE ~(cmd.op = "file" /\ cmd.file = f /\ cmd.version = v)
      BY <2>1, <2>3 DEF StoredWhole
    <2> QED
      BY <2>2, <2>3
  <1> QED
    BY <1>2, <1>3, Ended DEF Finished, Succeed, Typed

(* The login of a test ends a session that has brought nothing. *)
LEMMA WelcomeTestInv ==
  ASSUME Inv, cmd.op = "test", Succeed
  PROVE  Inv'
  <1>1. known' = known /\ store' = store /\ EndSession
    BY DEF Succeed
  <1>2. StoredWhole'
    BY <1>1 DEF Inv, StoredWhole, EndSession
  <1> QED
    BY <1>1, <1>2, Ended DEF Inv, Typed
LEMMA BeginInv ==
  ASSUME Inv, NEW op \in {"test", "tree", "attr", "file"}, NEW f, NEW v, Begin(op, f, v),
         op = "tree" => f \notin Files,
         store' = IF op = "file" THEN [store EXCEPT ![f][v] = 0] ELSE store
  PROVE  Inv'
  <1> USE DEF Inv, Begin, Connect
  <1>1. /\ step = "idle" /\ data = {} /\ pos = 0
        /\ step' = "login" /\ data' = {} /\ pos' = 0 /\ known' = known /\ deaths' = deaths
        /\ diskFull' = diskFull
        /\ cmd'.op = op /\ cmd'.file = f /\ cmd'.version = v
        /\ up' = <<>> /\ down' = <<>> /\ authed' = FALSE
    BY DEF Typed, AskedOnce, Answering, reading, Idle
  <1>2. Script(todo', "endauth") \/ Script(todo', "endverify")
    BY LoginScript
  <1>3. Typed'
    <2>1. store' \in [Files -> [Versions -> 0 .. NoFile]]
      <3>1. store \in [Files -> [Versions -> 0 .. NoFile]] /\ 0 \in 0 .. NoFile
        BY NoFileInNat DEF Typed
      <3>2. [store EXCEPT ![f][v] = 0] \in [Files -> [Versions -> 0 .. NoFile]]
        BY <3>1, Updated
      <3> QED
        BY <3>1, <3>2
    <2>2. up' \in Seq(Words)
      BY <1>1
    <2>3. data' \subseteq Fields /\ pos' \in 0 .. Blocks
      BY <1>1 DEF Typed
    <2> QED
      BY <1>1, <1>2, <2>1, <2>2, <2>3 DEF Typed, Sending, Script
  <1>4. SendOrder'
    BY <1>1, <1>2 DEF SendOrder, Sending, Script
  <1>5. AskedOnce' /\ Greeted' /\ LoginFirst' /\ AnswerOrder'
    BY <1>1 DEF AskedOnce, Greeted, LoginFirst, AnswerOrder, Answering
  <1>7. StoreFollows'
    BY <1>1, NoFileInNat DEF StoreFollows, Typed
  <1>8. StoredWhole'
    <2> SUFFICES ASSUME deaths' = 0, ~diskFull', NEW g \in Files, NEW w \in Versions,
                        ~(op = "file" /\ f = g /\ v = w)
                 PROVE  store'[g][w] \in {Blocks, NoFile}
      BY <1>1 DEF StoredWhole
    <2>1. cmd.op # "file"
      BY DEF Idle
    <2>2. store[g][w] \in {Blocks, NoFile}
      BY <1>1, <2>1 DEF StoredWhole
    <2> QED
      BY <2>2 DEF Typed
  <1> QED
    BY <1>3, <1>4, <1>5, <1>7, <1>8

LEMMA SendInv ==
  ASSUME Inv, Send
  PROVE  Inv'
  <1>0. Typed /\ SendOrder /\ AskedOnce /\ Greeted /\ LoginFirst
        /\ AnswerOrder /\ StoreFollows /\ StoredWhole
    BY DEF Inv
  <1>1. /\ step \in Sending /\ todo # <<>>
        /\ data = {} /\ pos = 0 /\ down = <<>> /\ down' = down /\ data' = data /\ pos' = pos
        /\ cmd' = cmd /\ deaths' = deaths
        /\ diskFull' = diskFull /\ authed' = authed /\ link' = link
        /\ known' = known /\ store' = store
    BY <1>0 DEF Send, SendOrder, AskedOnce, Sending, Answering, kept, server
  <1>2. Len(todo) \in Nat /\ Len(todo) > 0 /\ todo \in Seq(Words)
    BY <1>0, <1>1 DEF Typed
  <1>3. \/ Len(todo) > 1 /\ step' = step /\ todo' = Tail(todo)
        \/ Len(todo) = 1 /\ step = "prepare" /\ step' = "command" /\ Script(todo', Request)
        \/ /\ Len(todo) = 1 /\ step # "prepare" /\ todo' = <<>>
           /\ step' = IF step = "login" THEN "greeting" ELSE "reply"
    <2>1. CASE Len(todo) > 1
      BY <2>1 DEF Send, AfterSend
    <2>2. CASE Len(todo) = 1 /\ step = "prepare"
      <3>1. step' = "command" /\ todo' = CommandLines
        BY <2>2 DEF Send, AfterSend
      <3> QED
        BY <2>2, <3>1, CommandScript DEF CommandLines, Request
    <2>3. CASE Len(todo) = 1 /\ step # "prepare"
      BY <2>3 DEF Send, AfterSend
    <2>4. Len(todo) > 1 \/ Len(todo) = 1
      BY <1>2
    <2> QED
      BY <2>1, <2>2, <2>3, <2>4, Zenon
  <1>4. Typed'
    <2>1. todo' \in Seq(Words)
      <3>1. Len(todo) > 1 => Tail(todo) \in Seq(Words)
        BY <1>2
      <3>2. Script(todo', Request) => todo' \in Seq(Words)
        BY DEF Script
      <3>3. <<>> \in Seq(Words)
        OBVIOUS
      <3> QED
        BY <1>3, <3>1, <3>2, <3>3
    <2>2. up' \in Seq(Words)
      BY <1>0, <1>2 DEF Send, Typed
    <2>3. step' \in Sending \cup Answering \cup {"idle", "greeting"} /\ step # "idle"
      BY <1>1, <1>3 DEF Sending, Answering
    <2> QED
      BY <1>0, <1>1, <2>1, <2>2, <2>3 DEF Typed
  <1>5. SendOrder'
    <2>1. CASE Len(todo) > 1 /\ step' = step /\ todo' = Tail(todo)
      <3>1. Len(todo') = Len(todo) - 1 /\ \A i \in 1 .. Len(todo') : todo'[i] = todo[i + 1]
        BY <2>1, <1>2
      <3>2. todo' # <<>> /\ todo'[Len(todo')] = todo[Len(todo)]
        BY <3>1, <2>1, <1>2
      <3> QED
        BY <3>1, <3>2, <2>1, <1>0, <1>1, <1>2 DEF SendOrder, Request
    <2>2. CASE step' = "command" /\ Script(todo', Request) /\ step = "prepare"
      BY <2>2, <1>0, <1>1 DEF SendOrder, Sending, Request, Script
    <2>3. CASE /\ step # "prepare" /\ todo' = <<>>
               /\ step' = IF step = "login" THEN "greeting" ELSE "reply"
      <3>1. Len(todo') = 0 /\ step' \notin Sending
        BY <2>3 DEF Sending
      <3> QED
        BY <2>3, <3>1, <1>0, <1>1 DEF SendOrder, Sending
    <2> QED
      BY <2>1, <2>2, <2>3, <1>3
  <1>6. AskedOnce'
    <2>1. CASE link = "up"
      <3>1. Len(up') = Len(up) + 1 /\ up'[Len(up')] = todo[1]
            /\ \A i \in 1 .. Len(up) : up'[i] = up[i]
        BY <2>1, <1>0, <1>2 DEF Send, Typed
      <3> QED
        <4>1. CASE Len(todo) > 1 /\ step' = step
          <5>1. todo[1] \notin Finals
            BY <4>1, <1>0, <1>2 DEF SendOrder
          <5>2. \A i \in 1 .. Len(up) : up[i] \notin Finals
            BY <1>0, <1>1 DEF AskedOnce, Sending, Answering
          <5>3. \A i \in 1 .. Len(up') : up'[i] \notin Finals
            <6>1. Len(up) \in Nat
              BY <1>0 DEF Typed
            <6> QED
              BY <3>1, <5>1, <5>2, <6>1
          <5> QED
            BY <4>1, <5>3, <2>1, <1>1 DEF AskedOnce, Sending, Answering
        <4>2. CASE Len(todo) = 1 /\ step = "prepare" /\ step' = "command"
          <5>1. todo[1] \notin Finals
            BY <4>2, <1>0, <1>2 DEF SendOrder
          <5> QED
            <6>1. \A i \in 1 .. Len(up) : up[i] \notin Finals
              BY <1>0, <1>1 DEF AskedOnce, Sending, Answering
            <6>2. Len(up) \in Nat
              BY <1>0 DEF Typed
            <6>3. \A i \in 1 .. Len(up') : up'[i] \notin Finals
              BY <3>1, <5>1, <6>1, <6>2
            <6> QED
              BY <4>2, <6>3, <2>1, <1>1 DEF AskedOnce, Sending, Answering
        <4>3. CASE /\ Len(todo) = 1 /\ step # "prepare"
                   /\ step' = IF step = "login" THEN "greeting" ELSE "reply"
          <5>1. IF step = "login" THEN todo[1] \in {"endauth", "endverify"} ELSE todo[1] = Request
            BY <4>3, <1>0, <1>1 DEF SendOrder, Sending
          <5> QED
            BY <3>1, <4>3, <5>1, <2>1, <1>0, <1>1 DEF AskedOnce, Sending, Answering,
               Typed, Request
        <4> QED
          BY <4>1, <4>2, <4>3, <1>3
    <2>2. CASE link # "up"
      <3>1. up' = <<>>
        BY <2>2, <1>0 DEF Send, AskedOnce
      <3> QED
        BY <2>2, <3>1, <1>0, <1>1, <1>3 DEF AskedOnce, Sending, Answering
    <2> QED
      BY <2>1, <2>2
  <1>7. Greeted' /\ LoginFirst'
    BY <1>0, <1>1, <1>3 DEF Greeted, LoginFirst, Sending
  <1>8. AnswerOrder'
    BY <1>1, <1>3 DEF AnswerOrder, Sending, Answering
  <1>9. StoreFollows' /\ StoredWhole'
    BY <1>0, <1>1, <1>3 DEF StoreFollows, StoredWhole, Sending
  <1> QED
    BY <1>4, <1>5, <1>6, <1>7, <1>8, <1>9 DEF Inv
LEMMA SendKillsInv ==
  ASSUME Inv, SendKills
  PROVE  Inv'
  <1>0. Typed /\ SendOrder /\ AskedOnce /\ Greeted /\ LoginFirst
        /\ AnswerOrder /\ StoreFollows /\ StoredWhole
    BY DEF Inv
  <1>1. /\ cmd'.op = "idle" /\ cmd'.file = <<>> /\ step' = "idle" /\ todo' = <<>>
        /\ up' = <<>> /\ down' = <<>> /\ authed' = FALSE /\ deaths' = deaths + 1
        /\ diskFull' = diskFull /\ store' = store
    BY <1>0 DEF SendKills, AskedOnce, Idle, Closed
  <1>2. data' = {} /\ pos' = 0
    BY DEF SendKills
  <1>3. /\ known' = [f \in Files |-> [v \in Versions |-> NotKnown]]
        /\ known' \in [Files -> [Versions -> Known]]
    BY KnownFields DEF SendKills
  <1>4. Typed'
    <2>1. todo' \in Seq(Words) /\ up' \in Seq(Words)
      BY <1>1
    <2>2. data' \subseteq Fields /\ pos' \in 0 .. Blocks
      BY <1>2, BlocksPositive
    <2>3. cmd'.op \in {"idle", "test", "tree", "attr", "file"} /\ deaths' \in Nat
      BY <1>0, <1>1 DEF Typed
    <2> QED
      BY <1>0, <1>1, <1>3, <2>1, <2>2, <2>3 DEF Typed
  <1>5. SendOrder' /\ AskedOnce' /\ Greeted' /\ LoginFirst' /\ AnswerOrder'
    BY <1>1, <1>2
    DEF SendOrder, AskedOnce, Greeted, LoginFirst, AnswerOrder, Sending, Answering
  <1>6. StoreFollows' /\ StoredWhole'
    BY <1>0, <1>1 DEF StoreFollows, StoredWhole, Typed
  <1> QED
    BY <1>4, <1>5, <1>6 DEF Inv

(* The server has let the daemon in: "love" is on the way only then. *)
LEMMA WelcomeInv ==
  ASSUME Inv, Welcome
  PROVE  Inv'
  <1>1. CASE cmd.op = "test" /\ Succeed
    BY <1>1, WelcomeTestInv
  <1>2. CASE cmd.op # "test" /\ Take("love") /\ Go("prepare", PrepareLines) /\ UNCHANGED reading
    <2>0. Typed /\ SendOrder /\ AskedOnce /\ Greeted /\ LoginFirst
          /\ AnswerOrder /\ StoreFollows /\ StoredWhole
      BY DEF Inv
    <2>1. /\ step = "greeting" /\ step' = "prepare" /\ authed /\ authed' = authed
          /\ todo' = PrepareLines /\ cmd' = cmd /\ known' = known /\ store' = store
          /\ deaths' = deaths
          /\ diskFull' = diskFull /\ down' = <<>> /\ up' = up /\ up = <<>> /\ link' = link
      <3>1. /\ step = "greeting" /\ step' = "prepare" /\ authed' = authed
            /\ todo' = PrepareLines /\ cmd' = cmd /\ known' = known /\ store' = store
            /\ deaths' = deaths
            /\ diskFull' = diskFull /\ down' = Tail(down) /\ up' = up /\ link' = link
            /\ down # <<>> /\ Head(down).kind = "love"
        BY <1>2 DEF Welcome, Take, Go, kept, server
      <3>2. down = <<Line("love")>>
        BY <2>0, <3>1 DEF Greeted, Line
      <3> QED
        BY <2>0, <3>1, <3>2 DEF Greeted, AskedOnce
    <2>2. data' = {} /\ pos' = 0
      BY <1>2, <2>0, <2>1 DEF AskedOnce, Answering, reading
    <2>3. Script(todo', "UseUnchanged") /\ "UseUnchanged" \notin Finals
      BY <2>1, PrepareScript DEF Finals
    <2>4. Typed'
      <3>1. data' \subseteq Fields /\ pos' \in 0 .. Blocks
        BY <2>2, BlocksPositive
      <3> QED
        BY <2>0, <2>1, <2>3, <3>1 DEF Typed, Script, Sending
    <2>5. SendOrder'
      BY <1>2, <2>1, <2>3 DEF SendOrder, Sending, Script
    <2>6. AskedOnce' /\ Greeted' /\ LoginFirst' /\ AnswerOrder'
      BY <2>0, <2>1, <2>2 DEF AskedOnce, Greeted, LoginFirst, AnswerOrder, Answering
    <2>7. StoreFollows' /\ StoredWhole'
      <3>1. pos = 0
        BY <2>0, <2>1 DEF AskedOnce, Answering
      <3> QED
        BY <2>0, <2>1, <2>2, <3>1 DEF StoreFollows, StoredWhole
    <2> QED
      BY <2>4, <2>5, <2>6, <2>7 DEF Inv
  <1> QED
    BY <1>1, <1>2 DEF Welcome

(* A line of the tree: nothing of an answer to co is taken. *)
LEMMA TreeLineInv ==
  ASSUME Inv, TreeLine
  PROVE  Inv'
  <1>0. Typed /\ SendOrder /\ AskedOnce /\ Greeted /\ LoginFirst
        /\ AnswerOrder /\ StoreFollows /\ StoredWhole
    BY DEF Inv
  <1>1. /\ step = "reply" /\ step' = "reply" /\ cmd.op = "tree" /\ cmd' = cmd /\ todo' = <<>>
        /\ data' = data /\ pos' = pos /\ up' = up /\ link' = link /\ authed' = authed
        /\ known' = known /\ store' = store /\ deaths' = deaths
        /\ diskFull' = diskFull /\ down # <<>>
    BY DEF TreeLine, Take, Go, kept, server
  <1>2. up = <<>>
    BY <1>0, <1>1 DEF AskedOnce, Answering
  <1>3. Typed'
    <2>1. todo' \in Seq(Words)
      BY <1>1
    <2> QED
      BY <1>0, <1>1, <2>1 DEF Typed
  <1>4. SendOrder' /\ AskedOnce' /\ Greeted' /\ LoginFirst' /\ AnswerOrder'
    BY <1>0, <1>1, <1>2
    DEF SendOrder, AskedOnce, Greeted, LoginFirst, AnswerOrder, Sending, Answering
  <1>5. StoreFollows' /\ StoredWhole'
    BY <1>0, <1>1 DEF StoreFollows, StoredWhole
  <1> QED
    BY <1>3, <1>4, <1>5 DEF Inv
(* What remains of an answer to co when its first part is taken. *)
LEMMA RestOfAnswer ==
  ASSUME Inv, cmd.op \in {"attr", "file"}, step \in Answering, down # <<>>,
         Head(down).kind # "error"
  PROVE  /\ down \in Seq(Items) /\ Tail(down) \in Seq(Items) /\ Head(down).kind = Part(Taken + 1)
         /\ \A i \in 1 .. Len(Tail(down)) : Tail(down)[i].kind = Part(Taken + 1 + i)
  <1>1. /\ down \in Seq(Items) /\ Len(down) > 0 /\ Head(down) = down[1]
        /\ \A i \in 1 .. Len(down) : down[i].kind = Part(Taken + i)
    BY DEF Inv, AnswerOrder
  <1>2. Len(Tail(down)) = Len(down) - 1 /\ \A i \in 1 .. Len(Tail(down)) : Tail(down)[i] = down[i + 1]
    BY <1>1
  <1>3. Taken \in Nat
    BY BlocksPositive DEF Taken, Inv, Typed
  <1>4. ASSUME NEW i \in 1 .. Len(Tail(down))
        PROVE  Tail(down)[i].kind = Part(Taken + 1 + i)
    <2>1. down[i + 1].kind = Part(Taken + (i + 1)) /\ Taken + (i + 1) = Taken + 1 + i
      BY <1>1, <1>2, <1>3
    <2> QED
      BY <1>2, <2>1
  <1> QED
    BY <1>1, <1>4

LEMMA AttributeLineInv ==
  ASSUME Inv, AttributeLine
  PROVE  Inv'
  <1>0. Typed /\ SendOrder /\ AskedOnce /\ Greeted /\ LoginFirst
        /\ AnswerOrder /\ StoreFollows /\ StoredWhole
    BY DEF Inv
  <1>1. /\ step = "reply" /\ step' = "reply" /\ cmd' = cmd /\ todo' = <<>>
        /\ pos' = pos /\ up' = up /\ link' = link /\ authed' = authed
        /\ known' = known /\ store' = store /\ deaths' = deaths
        /\ diskFull' = diskFull /\ down # <<>> /\ down' = Tail(down)
    BY DEF AttributeLine, Take, Go, kept, server
  <1>2. PICK field \in {"time", "mode"} : Head(down).kind = field /\ data' = data \cup {field}
    BY DEF AttributeLine, Take
  <1>3. up = <<>>
    BY <1>0, <1>1 DEF AskedOnce, Answering
  <1>4. Typed'
    <2>1. todo' \in Seq(Words)
      BY <1>1
    <2>2. data' \subseteq Fields
      BY <1>0, <1>2 DEF Typed, Fields
    <2> QED
      BY <1>0, <1>1, <2>1, <2>2 DEF Typed
  <1>5. SendOrder' /\ AskedOnce' /\ Greeted' /\ LoginFirst'
    BY <1>0, <1>1, <1>3 DEF SendOrder, AskedOnce, Greeted, LoginFirst, Sending, Answering
  <1>6. AnswerOrder'
    <2> SUFFICES ASSUME cmd.op \in {"attr", "file"}
                 PROVE  AnswerOrder'
      BY <1>1 DEF AnswerOrder
    <2>1. /\ down' \in Seq(Items) /\ Head(down).kind = Part(Taken + 1)
          /\ \A i \in 1 .. Len(down') : down'[i].kind = Part(Taken + 1 + i)
      BY <1>1, <1>2, RestOfAnswer DEF Answering
    <2>2. /\ "mode" \in data => "time" \in data
          /\ "size" \in data => "mode" \in data
          /\ pos > 0 => "size" \in data
          /\ step = "data" <=> "size" \in data /\ pos < Blocks
      BY <1>0, <1>1 DEF AnswerOrder, Answering
    <2>3. \/ field = "time" /\ Taken = 0 /\ "time" \notin data
          \/ field = "mode" /\ Taken = 1 /\ "time" \in data /\ "mode" \notin data
      BY <1>0, <1>2, <2>1, BlocksPositive DEF Part, Taken, Typed
    <2>4. Taken' = Taken + 1 /\ "size" \notin data'
      BY <1>2, <2>2, <2>3 DEF Taken
    <2>5. \A i \in 1 .. Len(down') : down'[i].kind = Part(Taken' + i)
      BY <2>1, <2>4
    <2> QED
      BY <1>1, <1>2, <2>1, <2>2, <2>3, <2>4, <2>5 DEF AnswerOrder, Part
  <1>7. StoreFollows' /\ StoredWhole'
    BY <1>0, <1>1 DEF StoreFollows, StoredWhole
  <1> QED
    BY <1>4, <1>5, <1>6, <1>7 DEF Inv

(* The size comes after the other attributes. *)
LEMMA AtTheSize ==
  ASSUME Inv, SizeLine
  PROVE  /\ Taken = 2 /\ data \cup {"size"} = Fields /\ "size" \notin data /\ pos = 0
         /\ Tail(down) \in Seq(Items)
         /\ \A i \in 1 .. Len(Tail(down)) : Tail(down)[i].kind = Part(3 + i)
  <1>0. Typed /\ AnswerOrder
    BY DEF Inv
  <1>1. step = "reply" /\ down # <<>> /\ Head(down).kind = "size" /\ cmd.op \in {"attr", "file"}
    BY DEF SizeLine, EndsWith
  <1>2. /\ Tail(down) \in Seq(Items) /\ Head(down).kind = Part(Taken + 1)
        /\ \A i \in 1 .. Len(Tail(down)) : Tail(down)[i].kind = Part(Taken + 1 + i)
    BY <1>1, RestOfAnswer DEF Answering
  <1>3. Taken = 2 /\ "size" \notin data /\ "mode" \in data /\ "time" \in data
    BY <1>0, <1>1, <1>2, BlocksPositive DEF Part, Taken, Typed
  <1>4. data \cup {"size"} = Fields
    BY <1>0, <1>3 DEF Typed, Fields
  <1>5. pos = 0
    BY <1>0, <1>1, <1>3, BlocksPositive DEF AnswerOrder, Answering, Typed
  <1> QED
    BY <1>2, <1>3, <1>4, <1>5

(* It ends a command that only wants the attributes. *)
LEMMA SizeLineInv ==
  ASSUME Inv, SizeLine
  PROVE  Inv'
  <1>0. Typed /\ SendOrder /\ AskedOnce /\ Greeted /\ LoginFirst
        /\ AnswerOrder /\ StoreFollows /\ StoredWhole
    BY DEF Inv
  <1>1. step = "reply" /\ down # <<>> /\ Head(down).kind = "size" /\ cmd.op \in {"attr", "file"}
    BY DEF SizeLine, EndsWith
  <1>2. /\ Taken = 2 /\ data \cup {"size"} = Fields /\ "size" \notin data /\ pos = 0
        /\ Tail(down) \in Seq(Items)
        /\ \A i \in 1 .. Len(Tail(down)) : Tail(down)[i].kind = Part(3 + i)
    BY AtTheSize
  <1>3. CASE cmd.op = "attr"
    <2>1. EndSession /\ store' = store /\ known' = [known EXCEPT ![cmd.file][cmd.version] = Fields]
      BY <1>2, <1>3 DEF SizeLine
    <2>2. known \in [Files -> [Versions -> Known]] /\ Fields \in Known
      BY <1>0, KnownFields DEF Typed
    <2>3. known' \in [Files -> [Versions -> Known]]
      BY <2>1, <2>2, Updated
    <2>4. StoredWhole'
      BY <1>0, <1>3, <2>1 DEF StoredWhole, EndSession
    <2> QED
      BY <1>0, <2>1, <2>3, <2>4, Ended DEF Typed
  <1>4. CASE cmd.op # "attr"
    <2>1. /\ step' = "data" /\ cmd' = cmd /\ todo' = todo /\ known' = known /\ store' = store
          /\ deaths' = deaths
          /\ diskFull' = diskFull /\ authed' = authed /\ up' = up /\ link' = link /\ pos' = pos
          /\ down' = Tail(down) /\ data' = data \cup {"size"}
      BY <1>4 DEF SizeLine, Take, server
    <2>2. up = <<>>
      BY <1>0, <1>1 DEF AskedOnce, Answering
    <2>3. Typed'
      <3>1. data' \subseteq Fields
        BY <1>0, <2>1 DEF Typed, Fields
      <3> QED
        BY <1>0, <1>1, <2>1, <3>1 DEF Typed, Answering
    <2>4. SendOrder' /\ AskedOnce' /\ Greeted' /\ LoginFirst'
      BY <1>0, <1>1, <2>1, <2>2
      DEF SendOrder, AskedOnce, Greeted, LoginFirst, Sending, Answering
    <2>5. AnswerOrder'
      <3>1. data' = Fields /\ pos' = 0 /\ Taken' = 3
        BY <1>2, <2>1 DEF Taken, Fields
      <3> QED
        BY <1>2, <2>1, <3>1, BlocksPositive DEF AnswerOrder, Fields
    <2>6. StoreFollows' /\ StoredWhole'
      <3>1. pos < Blocks
        BY <1>2, BlocksPositive
      <3> QED
        BY <1>0, <1>1, <1>4, <2>1, <3>1 DEF StoreFollows, StoredWhole
    <2> QED
      BY <2>3, <2>4, <2>5, <2>6 DEF Inv
  <1> QED
    BY <1>3, <1>4

(* So does a part of it, when the connection was closed within it. *)
LEMMA ShortSizeInv ==
  ASSUME Inv, ShortSize
  PROVE  Inv'
  <1>1. EndSession /\ store' = store /\ cmd.op = "attr"
        /\ known' = [known EXCEPT ![cmd.file][cmd.version] = data \cup {"digits"}]
    BY DEF ShortSize
  <1>2. data \cup {"digits"} \in Known /\ known \in [Files -> [Versions -> Known]]
    BY KnownFields DEF Inv, Typed
  <1>3. known' \in [Files -> [Versions -> Known]]
    BY <1>1, <1>2, Updated
  <1>4. StoredWhole'
    BY <1>1 DEF Inv, StoredWhole, EndSession
  <1> QED
    BY <1>1, <1>3, <1>4, Ended DEF Inv, Typed

(* What has been written of a version is no more than has arrived. *)
LEMMA WrittenTyped ==
  ASSUME store \in [Files -> [Versions -> 0 .. NoFile]], pos \in Nat, pos < Blocks,
         NEW stored \in Written(store[cmd.file][cmd.version])
  PROVE  [store EXCEPT ![cmd.file][cmd.version] = stored] \in [Files -> [Versions -> 0 .. NoFile]]
  <1>1. CASE cmd.file \in Files /\ cmd.version \in Versions
    <2>1. store[cmd.file][cmd.version] \in 0 .. NoFile
      BY <1>1
    <2>2. stored \in 0 .. NoFile
      BY <2>1, NoFileInNat, BlocksPositive DEF Written
    <2> QED
      BY <2>2, Updated
  <1>2. CASE cmd.file \notin Files
    BY <1>2
  <1>3. CASE cmd.file \in Files /\ cmd.version \notin Versions
    <2>1. [store[cmd.file] EXCEPT ![cmd.version] = stored] = store[cmd.file]
      BY <1>3
    <2> QED
      BY <1>3, <2>1
  <1> QED
    BY <1>1, <1>2, <1>3

LEMMA DataBlockInv ==
  ASSUME Inv, DataBlock
  PROVE  Inv'
  <1>0. Typed /\ SendOrder /\ AskedOnce /\ Greeted /\ LoginFirst
        /\ AnswerOrder /\ StoreFollows /\ StoredWhole
    BY DEF Inv
  <1>1. /\ step = "data" /\ down # <<>> /\ Head(down).kind = "data" /\ down' = Tail(down)
        /\ pos' = pos + 1 /\ step' = IF pos + 1 < Blocks THEN "data" ELSE "reply"
        /\ cmd' = cmd /\ todo' = todo /\ known' = known /\ data' = data /\ deaths' = deaths
        /\ authed' = authed /\ up' = up /\ link' = link
    BY DEF DataBlock, Take, server
  <1> PICK stored \in Written(store[cmd.file][cmd.version]) :
        /\ store' = [store EXCEPT ![cmd.file][cmd.version] = stored]
        /\ diskFull' = (diskFull \/ stored # pos + 1)
    BY DEF DataBlock
  <1>2. pos \in Nat /\ pos < Blocks /\ up = <<>> /\ cmd.op = "file"
    BY <1>0, <1>1 DEF StoreFollows, Typed, AskedOnce, Answering
  <1>3. Typed'
    <2>1. store' \in [Files -> [Versions -> 0 .. NoFile]]
      BY <1>0, <1>2, WrittenTyped DEF Typed
    <2>2. pos' \in 0 .. Blocks
      BY <1>1, <1>2, BlocksPositive
    <2> QED
      BY <1>0, <1>1, <1>2, <2>1, <2>2 DEF Typed, Answering
  <1>4. SendOrder' /\ AskedOnce' /\ Greeted' /\ LoginFirst'
    BY <1>0, <1>1, <1>2 DEF SendOrder, AskedOnce, Greeted, LoginFirst, Sending, Answering
  <1>5. AnswerOrder'
    <2> SUFFICES ASSUME cmd.op \in {"attr", "file"}
                 PROVE  AnswerOrder'
      BY <1>1 DEF AnswerOrder
    <2>1. /\ down' \in Seq(Items)
          /\ \A i \in 1 .. Len(down') : down'[i].kind = Part(Taken + 1 + i)
      BY <1>1, RestOfAnswer DEF Answering
    <2>2. "size" \in data /\ "mode" \in data /\ "time" \in data
      BY <1>0, <1>1 DEF AnswerOrder, Answering
    <2>3. Taken = 3 + pos /\ Taken' = 3 + (pos + 1)
      BY <1>1, <2>2 DEF Taken
    <2>4. \A i \in 1 .. Len(down') : down'[i].kind = Part(Taken' + i)
      BY <2>1, <2>3, <1>2
    <2> QED
      BY <1>1, <1>2, <2>1, <2>2, <2>4, BlocksPositive DEF AnswerOrder
  <1>7. StoreFollows'
    <2>1. pos + 1 < Blocks \/ step' = "reply"
      BY <1>1
    <2>2. ~diskFull' => stored = pos + 1
      OBVIOUS
    <2>3. cmd.op = "file" /\ cmd.file \in Files /\ cmd.version \in Versions /\ ~diskFull' =>
            store'[cmd.file][cmd.version] = pos'
      BY <1>0, <1>1, <2>2 DEF Typed
    <2> QED
      BY <1>0, <1>1, <2>1, <2>3 DEF StoreFollows
  <1>8. StoredWhole'
    <2> SUFFICES ASSUME deaths = 0, ~diskFull', NEW f \in Files, NEW v \in Versions,
                        ~(cmd.op = "file" /\ cmd.file = f /\ cmd.version = v)
                 PROVE  store'[f][v] \in {Blocks, NoFile}
      BY <1>1 DEF StoredWhole
    <2>1. ~diskFull
      OBVIOUS
    <2> QED
      BY <1>0, <1>1, <1>2, <2>1 DEF StoredWhole, Typed
  <1> QED
    BY <1>3, <1>4, <1>5, <1>7, <1>8 DEF Inv
(* The server answers what it was asked, and has read it by then. *)
LEMMA ServerGreetsInv ==
  ASSUME Inv, ServerGreets
  PROVE  Inv'
  <1>0. Typed /\ SendOrder /\ AskedOnce /\ Greeted /\ LoginFirst
        /\ AnswerOrder /\ StoreFollows /\ StoredWhole
    BY DEF Inv
  <1>1. /\ step' = step /\ cmd' = cmd /\ todo' = todo /\ data' = data /\ pos' = pos
        /\ known' = known /\ store' = store /\ deaths' = deaths
        /\ diskFull' = diskFull /\ link' = link
        /\ up # <<>> /\ up' = <<>> /\ up[Len(up)] \in {"endauth", "endverify"}
        /\ authed' \in BOOLEAN /\ down' = down \o <<Line(IF authed' THEN "love" ELSE "hate")>>
    BY DEF ServerGreets, Asked, Answers, Last, reading, kept
  <1>2. Len(up) \in Nat /\ Len(up) > 0
    BY <1>0, <1>1 DEF Typed
  <1>3. step = "greeting" /\ down = <<>>
    <2>1. up[Len(up)] \in Finals /\ up[Len(up)] # Request
      BY <1>1 DEF Finals, Request
    <2> QED
      BY <1>0, <1>1, <1>2, <2>1 DEF AskedOnce, Typed, Answering, Sending
  <1>4. down' = <<Line(IF authed' THEN "love" ELSE "hate")>>
    BY <1>1, <1>3
  <1>5. Typed'
    <2>1. up' \in Seq(Words)
      BY <1>1
    <2> QED
      BY <1>0, <1>1, <2>1 DEF Typed
  <1>6. Greeted'
    <2>1. Line("love") # Line("hate")
      BY DEF Line
    <2> QED
      BY <1>4, <2>1 DEF Greeted
  <1>7. SendOrder' /\ AskedOnce' /\ LoginFirst' /\ AnswerOrder'
    BY <1>0, <1>1, <1>3 DEF SendOrder, AskedOnce, LoginFirst, AnswerOrder, Answering,
       Sending
  <1>8. StoreFollows' /\ StoredWhole'
    BY <1>0, <1>1 DEF StoreFollows, StoredWhole
  <1> QED
    BY <1>5, <1>6, <1>7, <1>8 DEF Inv

LEMMA ServerDiffsInv ==
  ASSUME Inv, ServerDiffs
  PROVE  Inv'
  <1>0. Typed /\ SendOrder /\ AskedOnce /\ Greeted /\ LoginFirst
        /\ AnswerOrder /\ StoreFollows /\ StoredWhole
    BY DEF Inv
  <1>1. /\ step' = step /\ cmd' = cmd /\ todo' = todo /\ data' = data /\ pos' = pos
        /\ known' = known /\ store' = store /\ deaths' = deaths
        /\ diskFull' = diskFull /\ link' = link
        /\ up # <<>> /\ up' = <<>> /\ up[Len(up)] = "rdiff" /\ authed' = authed
    BY DEF ServerDiffs, Asked, Answers, Last, reading, kept
  <1>2. Len(up) \in Nat /\ Len(up) > 0
    BY <1>0, <1>1 DEF Typed
  <1>3. step = "reply" /\ cmd.op = "tree"
    <2>1. up[Len(up)] \in Finals
      BY <1>1 DEF Finals
    <2> QED
      BY <1>0, <1>1, <1>2, <2>1 DEF AskedOnce, Typed, Answering, Sending, Request
  <1>4. Typed'
    <2>1. up' \in Seq(Words)
      BY <1>1
    <2> QED
      BY <1>0, <1>1, <2>1 DEF Typed
  <1>5. SendOrder' /\ AskedOnce' /\ Greeted' /\ LoginFirst' /\ AnswerOrder'
    BY <1>0, <1>1, <1>3
    DEF SendOrder, AskedOnce, Greeted, LoginFirst, AnswerOrder, Answering, Sending
  <1>6. StoreFollows' /\ StoredWhole'
    BY <1>0, <1>1 DEF StoreFollows, StoredWhole
  <1> QED
    BY <1>4, <1>5, <1>6 DEF Inv

LEMMA ServerSendsInv ==
  ASSUME Inv, ServerSends
  PROVE  Inv'
  <1>0. Typed /\ SendOrder /\ AskedOnce /\ Greeted /\ LoginFirst
        /\ AnswerOrder /\ StoreFollows /\ StoredWhole
    BY DEF Inv
  <1> DEFINE Whole == <<Line("time"), Line("mode"), Line("size")>>
                        \o [i \in 1 .. Blocks |-> Line("data")] \o <<Line("ok")>>
  <1>1. /\ step' = step /\ cmd' = cmd /\ todo' = todo /\ data' = data /\ pos' = pos
        /\ known' = known /\ store' = store /\ deaths' = deaths
        /\ diskFull' = diskFull /\ link' = link
        /\ up # <<>> /\ up' = <<>> /\ up[Len(up)] = "co" /\ authed' = authed
        /\ down' = down \o Whole \/ down' = down \o <<Line("error")>>
    BY DEF ServerSends, Asked, Answers, Last, reading, kept
  <1>2. Len(up) \in Nat /\ Len(up) > 0
    BY <1>0, <1>1 DEF Typed
  <1>3. step = "reply" /\ cmd.op \in {"attr", "file"} /\ down = <<>> /\ data = {} /\ pos = 0
    <2>1. up[Len(up)] \in Finals
      BY <1>1 DEF Finals
    <2> QED
      BY <1>0, <1>1, <1>2, <2>1 DEF AskedOnce, Typed, Answering, Sending, Request,
         SendOrder
  <1>4. ASSUME NEW k \in Kinds
        PROVE  Line(k) \in Items /\ Line(k).kind = k
    BY DEF Line, Items
  <1>5. /\ Whole \in Seq(Items) /\ \A i \in 1 .. Len(Whole) : Whole[i].kind = Part(i)
    <2> DEFINE first == <<Line("time"), Line("mode"), Line("size")>>
               middle == [i \in 1 .. Blocks |-> Line("data")]
    <2>1. /\ Line("time") \in Items /\ Line("mode") \in Items /\ Line("size") \in Items
          /\ Line("data") \in Items /\ Line("ok") \in Items
      BY <1>4 DEF Kinds
    <2>2. first \in Seq(Items) /\ Len(first) = 3
      BY <2>1
    <2>3. middle \in Seq(Items) /\ Len(middle) = Blocks
      BY <2>1, BlocksPositive
    <2>4. /\ first[1].kind = "time" /\ first[2].kind = "mode" /\ first[3].kind = "size"
          /\ \A i \in 1 .. Blocks : middle[i].kind = "data"
          /\ Line("ok").kind = "ok"
      BY DEF Line
    <2> HIDE DEF first, middle
    <2> DEFINE parts == first \o middle
    <2>5. /\ parts \in Seq(Items) /\ Len(parts) = 3 + Blocks
          /\ \A i \in 1 .. 3 : parts[i] = first[i]
          /\ \A i \in 4 .. 3 + Blocks : parts[i] = middle[i - 3]
      <3>1. /\ parts \in Seq(Items) /\ Len(parts) = Len(first) + Len(middle)
            /\ \A i \in 1 .. Len(first) + Len(middle) :
                 parts[i] = IF i <= Len(first) THEN first[i] ELSE middle[i - Len(first)]
        BY <2>2, <2>3, ConcatProperties
      <3> QED
        BY <3>1, <2>2, <2>3, BlocksPositive
    <2>6. ASSUME NEW i \in 1 .. 3 + Blocks
          PROVE  parts[i].kind = Part(i)
      <3> HIDE DEF parts
      <3>1. CASE i \in 1 .. 3
        BY <2>4, <2>5, <3>1 DEF Part
      <3>2. CASE i \in 4 .. 3 + Blocks
        <4>1. i - 3 \in 1 .. Blocks
          BY <3>2, BlocksPositive
        <4> QED
          BY <2>4, <2>5, <3>2, <4>1, BlocksPositive DEF Part
      <3> QED
        BY <3>1, <3>2, BlocksPositive
    <2> HIDE DEF parts
    <2>7. /\ parts \o <<Line("ok")>> \in Seq(Items) /\ Len(parts \o <<Line("ok")>>) = 4 + Blocks
          /\ \A i \in 1 .. 4 + Blocks :
               (parts \o <<Line("ok")>>)[i] = IF i <= 3 + Blocks THEN parts[i] ELSE Line("ok")
      BY <2>1, <2>5, BlocksPositive
    <2>8. Whole = parts \o <<Line("ok")>>
      BY DEF parts, first, middle
    <2> HIDE DEF Whole
    <2> QED
      BY <2>4, <2>6, <2>7, <2>8, BlocksPositive DEF Part
  <1>6. Typed'
    <2>1. up' \in Seq(Words)
      BY <1>1
    <2> QED
      BY <1>0, <1>1, <2>1 DEF Typed
  <1> HIDE DEF Whole
  <1>7. AnswerOrder'
    <2>1. CASE down' = down \o Whole
      <3>1. down' = Whole
        BY <1>3, <1>5, <2>1
      <3> QED
        BY <1>1, <1>3, <1>5, <3>1 DEF AnswerOrder, Taken
    <2>2. CASE down' = down \o <<Line("error")>>
      <3>1. down' = <<Line("error")>> /\ Line("error") \in Items /\ Line("error").kind = "error"
        BY <1>3, <1>4, <2>2 DEF Kinds
      <3> QED
        BY <1>1, <1>3, <3>1 DEF AnswerOrder, Taken
    <2> QED
      BY <1>1, <2>1, <2>2
  <1>8. SendOrder' /\ AskedOnce' /\ Greeted' /\ LoginFirst'
    BY <1>0, <1>1, <1>3 DEF SendOrder, AskedOnce, Greeted, LoginFirst, Answering, Sending
  <1>9. StoreFollows' /\ StoredWhole'
    BY <1>0, <1>1 DEF StoreFollows, StoredWhole
  <1> QED
    BY <1>6, <1>7, <1>8, <1>9 DEF Inv
LEMMA ServerStopsInv ==
  ASSUME Inv, ServerStops
  PROVE  Inv'
  <1>0. Typed /\ SendOrder /\ AskedOnce /\ Greeted /\ LoginFirst
        /\ AnswerOrder /\ StoreFollows /\ StoredWhole
    BY DEF Inv
  <1>1. /\ step' = step /\ cmd' = cmd /\ todo' = todo /\ data' = data /\ pos' = pos
        /\ known' = known /\ store' = store /\ deaths' = deaths
        /\ diskFull' = diskFull /\ up' = <<>> /\ authed' = authed
    BY DEF ServerStops, reading, kept, server
  <1>2. PICK n \in 0 .. Len(down) : down' = SubSeq(down, 1, n)
    BY DEF ServerStops
  <1>3. Typed'
    <2>1. up' \in Seq(Words)
      BY <1>1
    <2> QED
      BY <1>0, <1>1, <2>1 DEF Typed
  <1>4. down = <<>> => down' = <<>>
    BY <1>2
  <1>5. AnswerOrder'
    <2> SUFFICES ASSUME cmd.op \in {"attr", "file"}, step \in Answering
                 PROVE  AnswerOrder'
      BY <1>1 DEF AnswerOrder
    <2>1. down \in Seq(Items)
      BY <1>0 DEF AnswerOrder
    <2>2. down' \in Seq(Items) /\ Len(down') = n /\ n <= Len(down)
          /\ \A i \in 1 .. n : down'[i] = down[i]
      BY <1>2, <2>1
    <2>3. Taken' = Taken
      BY <1>1 DEF Taken
    <2>4. CASE Len(down) = 1 /\ down[1].kind = "error" /\ data = {}
      <3>1. n = 0 \/ n = 1
        BY <1>2, <2>4
      <3>2. n = 1 => down'[1].kind = "error"
        BY <2>2, <2>4
      <3> QED
        BY <1>0, <1>1, <2>2, <2>4, <3>1, <3>2 DEF AnswerOrder
    <2>5. CASE \A i \in 1 .. Len(down) : down[i].kind = Part(Taken + i)
      <3>1. \A i \in 1 .. Len(down') : down'[i].kind = Part(Taken' + i)
        BY <2>1, <2>2, <2>3, <2>5
      <3> QED
        BY <1>0, <1>1, <2>2, <3>1 DEF AnswerOrder
    <2> QED
      BY <1>0, <2>4, <2>5 DEF AnswerOrder
  <1>6. Greeted'
    <2> SUFFICES ASSUME step = "greeting"
                 PROVE  Greeted'
      BY <1>1 DEF Greeted
    <2>1. ASSUME NEW x, down = <<x>>
          PROVE  down' \in {<<>>, <<x>>}
      <3>1. n = 0 \/ n = 1
        BY <1>2, <2>1
      <3>2. <<x>> \in Seq({x}) /\ Len(<<x>>) = 1
        OBVIOUS
      <3>3. SubSeq(<<x>>, 1, 1) = <<x>>
        BY <3>2, SubSeqFull
      <3> QED
        BY <1>2, <2>1, <3>1, <3>3
    <2>2. <<Line("love")>> # <<>>
      OBVIOUS
    <2> QED
      BY <1>0, <1>1, <1>4, <2>1, <2>2 DEF Greeted
  <1>7. SendOrder' /\ AskedOnce' /\ LoginFirst'
    <2>1. SendOrder' /\ LoginFirst'
      BY <1>0, <1>1 DEF SendOrder, LoginFirst, Request
    <2>2. AskedOnce'
      BY <1>0, <1>1, <1>4 DEF AskedOnce
    <2> QED
      BY <2>1, <2>2
  <1>8. StoreFollows' /\ StoredWhole'
    BY <1>0, <1>1 DEF StoreFollows, StoredWhole
  <1> QED
    BY <1>3, <1>5, <1>6, <1>7, <1>8 DEF Inv

(* Steps that are none of the session's. *)
LEMMA OtherInv ==
  ASSUME Inv, ConnectFails \/ (\E f \in Files : Commit(f)) \/ UNCHANGED vars
  PROVE  Inv'
  <1>1. UNCHANGED <<cmd, step, todo, up, down, link, authed, data, pos, known, store, deaths,
                  diskFull>>
    <2>1. CASE ConnectFails
      BY <2>1 DEF ConnectFails, server, wire, reading, kept
    <2>2. CASE \E f \in Files : Commit(f)
      BY <2>2 DEF Commit, wire, reading, kept
    <2>3. CASE UNCHANGED vars
      BY <2>3 DEF vars, server, wire, reading, kept
    <2> QED
      BY <2>1, <2>2, <2>3
  <1> QED
    BY <1>1
    DEF Inv, Typed, SendOrder, AskedOnce, Greeted, LoginFirst, AnswerOrder,
        StoreFollows, StoredWhole, Request, Taken, Part
----------------------------------------------------------------------------
LEMMA StepInv ==
  ASSUME Inv, [Next]_vars
  PROVE  Inv'
  <1>1. ASSUME DaemonStep
        PROVE  Inv'
    <2>1. SendFails \/ Timeout \/ Unwelcome \/ Refused => Inv'
      BY FailInv DEF SendFails, Timeout, Unwelcome, Refused
    <2> QED
      BY <1>1, <2>1, SendInv, SendKillsInv, WelcomeInv, FinishedInv, TreeLineInv,
         AttributeLineInv, SizeLineInv, ShortSizeInv, DataBlockInv
      DEF DaemonStep
  <1>2. ASSUME ServerStep
        PROVE  Inv'
    BY <1>2, ServerGreetsInv, ServerDiffsInv, ServerSendsInv,
       ServerStopsInv DEF ServerStep
  <1>3. ASSUME Test \/ LoadCvsTree
        PROVE  Inv'
    BY <1>3, BeginInv, FilesNamed DEF Test, LoadCvsTree
  <1>4. ASSUME NEW f \in Files, NEW v, LoadAttribute(f, v) \/ LoadFile(f, v)
        PROVE  Inv'
    BY <1>4, BeginInv DEF LoadAttribute, LoadFile
  <1> QED
    BY <1>1, <1>2, <1>3, <1>4, OtherInv DEF Next

(* The invariant the theorems rest on is kept by every step. *)
THEOREM SessionInductive == Spec => []Inv
  <1>1. Inv /\ [Next]_vars => Inv'
    BY StepInv
  <1> QED
    BY <1>1, InitInv, PTL DEF Spec

(* The daemon sends commands only to a server that has accepted its login, *)
(* for every module and whatever breaks.                                   *)
THEOREM LoginBeforeCommands == Spec => []LoginFirst
  <1>1. Inv => LoginFirst
    BY DEF Inv
  <1> QED
    BY <1>1, SessionInductive, PTL

(* As long as no daemon died and every block could be written, a version   *)
(* in the cache is whole or arriving, for every number of blocks.          *)
THEOREM StoredWholeOrArriving == Spec => []StoredWhole
  <1>1. Inv => StoredWhole
    BY DEF Inv
  <1> QED
    BY <1>1, SessionInductive, PTL
----------------------------------------------------------------------------
(* When the connection was closed within the size, what is left to take is *)
(* the lines before it.                                                    *)
CutShort ==
  /\ breaks \in Nat /\ (link = "cut" => breaks > 0)
  /\ link = "cut" /\ cmd.op = "attr" =>
       /\ step = "reply" /\ Taken + Len(down) = 2
       /\ \A i \in 1 .. Len(down) : down[i].kind = Part(Taken + i)

Short == CutShort /\ AttributesWhole

LEMMA TakenInNat == ASSUME Typed PROVE Taken \in Nat
  BY BlocksPositive DEF Taken, Typed

LEMMA InitShort == Init => Short
  BY DEF Init, Short, CutShort, AttributesWhole

(* Of most steps it is enough that they leave the attributes alone. *)
LEMMA AttributesKept ==
  ASSUME AttributesWhole, breaks \in Nat, known' = known, breaks' = breaks \/ breaks' = breaks + 1
  PROVE  AttributesWhole'
  <1>1. breaks > 0 => breaks' > 0
    OBVIOUS
  <1> QED
    BY <1>1 DEF AttributesWhole

LEMMA EndedShort ==
  ASSUME CutShort, EndSession
  PROVE  CutShort' /\ breaks' = breaks
  BY DEF CutShort, EndSession

(* The attributes of one version become known. *)
LEMMA OneKnown ==
  ASSUME Typed, AttributesWhole, breaks' = breaks,
         NEW d, d = Fields \/ (breaks > 0 /\ d = ShortFields),
         known' = [known EXCEPT ![cmd.file][cmd.version] = d]
  PROVE  AttributesWhole'
  <1> SUFFICES ASSUME NEW f \in Files, NEW v \in Versions
               PROVE  known'[f][v] = known[f][v] \/ known'[f][v] = d
    BY DEF AttributesWhole
  <1>1. CASE f = cmd.file /\ v = cmd.version
    BY <1>1 DEF Typed
  <1>2. CASE ~(f = cmd.file /\ v = cmd.version)
    BY <1>2 DEF Typed
  <1> QED
    BY <1>1, <1>2

LEMMA EndsShort ==
  ASSUME Inv, Short, Finished \/ Fail \/ (cmd.op = "test" /\ Succeed)
  PROVE  Short'
  <1>1. CutShort' /\ breaks' = breaks
    BY EndedShort DEF Short, Finished, Fail, Succeed
  <1>2. known' = known \/ known' = [known EXCEPT ![cmd.file][cmd.version] = Fields]
    <2>1. CASE Finished
      BY <2>1, AllTaken DEF Finished, Succeed
    <2> QED
      BY <2>1 DEF Fail, Succeed
  <1>3. AttributesWhole'
    BY <1>1, <1>2, OneKnown, AttributesKept DEF Short, CutShort, Inv
  <1> QED
    BY <1>1, <1>3 DEF Short

LEMMA SizeShort ==
  ASSUME Inv, Short, SizeLine
  PROVE  Short'
  <1>1. CASE cmd.op = "attr"
    <2>1. EndSession /\ known' = [known EXCEPT ![cmd.file][cmd.version] = Fields]
      BY <1>1, AtTheSize DEF SizeLine
    <2>2. CutShort' /\ breaks' = breaks
      BY <2>1, EndedShort DEF Short
    <2> QED
      BY <2>1, <2>2, OneKnown DEF Short, Inv
  <1>2. CASE cmd.op # "attr"
    <2>1. known' = known /\ breaks' = breaks /\ link' = link /\ cmd' = cmd
      BY <1>2 DEF SizeLine, Take
    <2>2. AttributesWhole'
      BY <2>1, AttributesKept DEF Short, CutShort
    <2> QED
      BY <1>2, <2>1, <2>2 DEF Short, CutShort
  <1> QED
    BY <1>1, <1>2

LEMMA ShortSizeShort ==
  ASSUME Inv, Short, ShortSize
  PROVE  Short'
  <1>1. EndSession /\ cmd.op = "attr" /\ link = "cut" /\ down = <<>>
        /\ known' = [known EXCEPT ![cmd.file][cmd.version] = data \cup {"digits"}]
    BY DEF ShortSize
  <1>2. CutShort' /\ breaks' = breaks
    BY <1>1, EndedShort DEF Short
  <1>3. Taken = 2 /\ breaks > 0
    <2>1. Len(down) = 0
      BY <1>1
    <2>2. Taken + Len(down) = 2 /\ breaks > 0
      BY <1>1 DEF Short, CutShort
    <2>3. Taken \in Nat
      BY TakenInNat DEF Inv
    <2> QED
      BY <2>1, <2>2, <2>3
  <1>4. data = Fields \ {"size"}
    <2>1. data \subseteq Fields /\ pos \in Nat
      BY BlocksPositive DEF Inv, Typed
    <2>2. "time" \in data /\ "mode" \in data /\ "size" \notin data
      BY <1>3, <2>1 DEF Taken
    <2> QED
      BY <2>1, <2>2 DEF Fields
  <1>5. data \cup {"digits"} = ShortFields
    BY <1>4 DEF ShortFields
  <1> QED
    BY <1>1, <1>2, <1>3, <1>5, OneKnown DEF Short, Inv

LEMMA AttributeShort ==
  ASSUME Inv, Short, AttributeLine
  PROVE  Short'
  <1>0. Inv'
    BY AttributeLineInv
  <1>1. /\ step = "reply" /\ step' = "reply" /\ cmd' = cmd /\ known' = known /\ breaks' = breaks
        /\ pos' = pos /\ link' = link /\ down # <<>> /\ down' = Tail(down)
        /\ cmd.op \in {"attr", "file"}
    BY DEF AttributeLine, Take, Go, kept
  <1>2. PICK field \in {"time", "mode"} : Head(down).kind = field /\ data' = data \cup {field}
    BY DEF AttributeLine, Take
  <1>3. AttributesWhole'
    BY <1>1, AttributesKept DEF Short, CutShort
  <1>4. CutShort'
    <2> SUFFICES ASSUME link = "cut", cmd.op = "attr"
                 PROVE  /\ Taken' + Len(down') = 2
                        /\ \A i \in 1 .. Len(down') : down'[i].kind = Part(Taken' + i)
      BY <1>1 DEF CutShort, Short, Part
    <2>1. /\ down \in Seq(Items) /\ Tail(down) \in Seq(Items) /\ Head(down).kind = Part(Taken + 1)
          /\ \A i \in 1 .. Len(Tail(down)) : Tail(down)[i].kind = Part(Taken + 1 + i)
      BY <1>1, <1>2, RestOfAnswer DEF Answering
    <2>2. "mode" \in data => "time" \in data
      BY <1>1 DEF Inv, AnswerOrder, Answering
    <2>3. \/ field = "time" /\ Taken = 0 /\ "time" \notin data
          \/ field = "mode" /\ Taken = 1 /\ "time" \in data /\ "mode" \notin data
      BY <1>2, <2>1, BlocksPositive DEF Part, Taken, Inv, Typed
    <2>4. "size" \notin data
      BY <1>1, <2>3 DEF Inv, AnswerOrder, Answering
    <2>5. Taken' = Taken + 1
      BY <1>2, <2>2, <2>3, <2>4 DEF Taken
    <2>6. Taken + Len(down) = 2 /\ Len(down') = Len(down) - 1 /\ Len(down) \in Nat
      BY <1>1, <2>1 DEF Short, CutShort
    <2>7. Taken' + Len(down') = 2
      BY <2>3, <2>5, <2>6
    <2> QED
      BY <1>1, <2>1, <2>5, <2>7
  <1> QED
    BY <1>3, <1>4 DEF Short

(* Where the connection is closed, the size has not been taken. *)
LEMMA StopsShort ==
  ASSUME Inv, Short, ServerStops
  PROVE  Short'
  <1>0. Typed /\ AskedOnce /\ Greeted /\ AnswerOrder /\ StoreFollows
    BY DEF Inv
  <1>1. /\ step' = step /\ cmd' = cmd /\ data' = data /\ pos' = pos /\ known' = known
        /\ breaks' = breaks + 1 /\ breaks \in Nat
    BY DEF ServerStops, reading, kept, Short, CutShort
  <1>2. PICK n \in 0 .. Len(down) :
          /\ down' = SubSeq(down, 1, n)
          /\ \/ link' \in {"silent", "closed"}
             \/ n < Len(down) /\ down[n + 1].kind = "size" /\ link' = "cut"
    BY DEF ServerStops
  <1>3. AttributesWhole'
    BY <1>1, AttributesKept DEF Short
  <1>4. CutShort'
    <2> SUFFICES ASSUME link' = "cut", cmd.op = "attr"
                 PROVE  /\ step = "reply" /\ Taken' + Len(down') = 2
                        /\ \A i \in 1 .. Len(down') : down'[i].kind = Part(Taken' + i)
      BY <1>1 DEF CutShort, Part
    <2>1. n < Len(down) /\ down[n + 1].kind = "size" /\ down # <<>>
      BY <1>2
    <2>2. step \in Answering
      <3>1. step # "greeting"
        <4> SUFFICES ASSUME step = "greeting" PROVE FALSE
          OBVIOUS
        <4>1. PICK k \in {"love", "hate"} : down = <<Line(k)>>
          BY <1>0, <2>1 DEF Greeted
        <4>2. n = 0
          BY <2>1, <4>1
        <4> QED
          BY <2>1, <4>1, <4>2 DEF Line
      <3> QED
        BY <1>0, <2>1, <3>1 DEF AskedOnce, Answering
    <2>3. step = "reply" /\ down \in Seq(Items)
      BY <1>0, <2>2 DEF StoreFollows, Answering, AnswerOrder
    <2>4. \A i \in 1 .. Len(down) : down[i].kind = Part(Taken + i)
      <3>1. ~(Len(down) = 1 /\ down[1].kind = "error")
        BY <1>2, <2>1, <2>3
      <3> QED
        BY <1>0, <2>2, <3>1 DEF AnswerOrder
    <2>5. Taken \in Nat /\ Taken' = Taken
      BY <1>0, <1>1, TakenInNat DEF Taken
    <2>6. Part(Taken + (n + 1)) = "size" /\ n \in Nat
      BY <1>2, <2>1, <2>3, <2>4
    <2>7. Taken + n = 2
      BY <2>5, <2>6 DEF Part
    <2>8. Len(down') = n /\ \A i \in 1 .. n : down'[i] = down[i]
      BY <1>2, <2>1, <2>3
    <2> QED
      BY <2>1, <2>3, <2>4, <2>5, <2>7, <2>8
  <1> QED
    BY <1>3, <1>4 DEF Short

LEMMA BeginShort ==
  ASSUME Short, NEW op, NEW f, NEW v, Begin(op, f, v)
  PROVE  Short'
  <1>1. link' = "up" /\ breaks' = breaks /\ known' = known
    BY DEF Begin, Connect
  <1>2. AttributesWhole'
    BY <1>1, AttributesKept DEF Short, CutShort
  <1> QED
    BY <1>1, <1>2 DEF Short, CutShort

(* The other steps are taken when the connection is up, or by another      *)
(* command, or end the command.                                            *)
LEMMA SendKillsShort ==
  ASSUME Short, SendKills
  PROVE  Short'
  <1>1. link' = "none" /\ breaks' = breaks /\ known' = [f \in Files |-> [v \in Versions |-> NotKnown]]
    BY DEF SendKills
  <1>2. AttributesWhole'
    BY <1>1 DEF AttributesWhole
  <1> QED
    BY <1>1, <1>2 DEF Short, CutShort

LEMMA LinkUpShort ==
  ASSUME Inv, Short,
         Send \/ TreeLine \/ DataBlock \/ ServerGreets \/ ServerDiffs \/ ServerSends
         \/ (Welcome /\ cmd.op # "test")
  PROVE  Short'
  <1>1. cmd' = cmd /\ link' = link /\ breaks' = breaks /\ known' = known
    <2>1. CASE Send
      BY <2>1 DEF Send, kept
    <2>2. CASE TreeLine
      BY <2>2 DEF TreeLine, Take, Go, kept
    <2>3. CASE DataBlock
      BY <2>3 DEF DataBlock, Take
    <2>4. CASE ServerGreets \/ ServerDiffs \/ ServerSends
      BY <2>4 DEF ServerGreets, ServerDiffs, ServerSends, Answers, Asked, kept
    <2>5. CASE Welcome /\ cmd.op # "test"
      BY <2>5 DEF Welcome, Take, Go, kept
    <2> QED
      BY <2>1, <2>2, <2>3, <2>4, <2>5
  <1>2. ~(link = "cut" /\ cmd.op = "attr")
    <2> SUFFICES ASSUME link = "cut", cmd.op = "attr" PROVE FALSE
      OBVIOUS
    <2>1. step = "reply" /\ todo = <<>>
      BY DEF Short, CutShort, Inv, SendOrder, Sending
    <2> QED
      BY <2>1 DEF Send, TreeLine, DataBlock, ServerGreets, ServerDiffs, ServerSends,
         Asked,
         Welcome
  <1>3. AttributesWhole'
    BY <1>1, AttributesKept DEF Short, CutShort
  <1> QED
    BY <1>1, <1>2, <1>3 DEF Short, CutShort

LEMMA OtherShort ==
  ASSUME Short, ConnectFails \/ (\E f \in Files : Commit(f)) \/ UNCHANGED vars
  PROVE  Short'
  <1>1. UNCHANGED <<cmd, step, down, link, data, pos, known, breaks>>
    <2>1. CASE ConnectFails
      BY <2>1 DEF ConnectFails, server, wire, reading, kept
    <2>2. CASE \E f \in Files : Commit(f)
      BY <2>2 DEF Commit, wire, reading, kept
    <2>3. CASE UNCHANGED vars
      BY <2>3 DEF vars, server, wire, reading, kept
    <2> QED
      BY <2>1, <2>2, <2>3
  <1> QED
    BY <1>1 DEF Short, CutShort, AttributesWhole, Taken, Part

LEMMA StepShort ==
  ASSUME Inv, Short, [Next]_vars
  PROVE  Short'
  <1>1. ASSUME DaemonStep
        PROVE  Short'
    <2>1. SendFails \/ Timeout \/ Unwelcome \/ Refused \/ Finished => Short'
      BY EndsShort DEF SendFails, Timeout, Unwelcome, Refused
    <2>2. Welcome => Short'
      <3>1. Welcome => (cmd.op = "test" /\ Succeed) \/ (Welcome /\ cmd.op # "test")
        BY DEF Welcome
      <3> QED
        BY <3>1, EndsShort, LinkUpShort
    <2> QED
      BY <1>1, <2>1, <2>2, SendKillsShort, LinkUpShort, AttributeShort, SizeShort,
         ShortSizeShort
      DEF DaemonStep
  <1>2. ASSUME ServerStep
        PROVE  Short'
    BY <1>2, LinkUpShort, StopsShort DEF ServerStep
  <1>3. ASSUME NEW f, NEW v, Test \/ LoadCvsTree \/ LoadAttribute(f, v) \/ LoadFile(f, v)
        PROVE  Short'
    BY <1>3, BeginShort DEF Test, LoadCvsTree, LoadAttribute, LoadFile
  <1> QED
    BY <1>1, <1>2, <1>3, OtherShort DEF Next

(* The attributes of a version are known all or not at all, wherever an    *)
(* answer breaks off; a size may be short only once a connection broke.    *)
THEOREM AttributesAllOrNone == Spec => []AttributesWhole
  <1>1. Inv /\ Short /\ [Next]_vars => Short'
    BY StepShort
  <1>2. Short => AttributesWhole
    BY DEF Short
  <1> QED
    BY <1>1, <1>2, InitShort, SessionInductive, PTL DEF Spec
----------------------------------------------------------------------------
(* How many descriptors the sessions so far account for. *)
Descriptors ==
  /\ fds \in Nat /\ sessions \in Nat /\ fds <= sessions + 1
  /\ spare = "unset" => fds = 0

(* A daemon that tries again during an outage uses the socket it has, for  *)
(* every limit on descriptors.                                             *)
THEOREM OutageIsFree == Spec => []OutageCostsNothing
  <1>1. Init => Descriptors
    BY DEF Init, Descriptors
  <1>2. ASSUME Descriptors, [Next]_vars
        PROVE  Descriptors'
    <2>1. ASSUME NEW op, NEW f, NEW v, Begin(op, f, v)
          PROVE  Descriptors'
      BY <1>2, <2>1 DEF Begin, Connect, Available, Descriptors
    <2>2. ASSUME ConnectFails
          PROVE  Descriptors'
      BY <1>2, <2>2 DEF ConnectFails, Descriptors
    <2>3. ASSUME SendKills
          PROVE  Descriptors'
      BY <1>2, <2>3 DEF SendKills, Descriptors
    <2>4. ASSUME UNCHANGED <<spare, fds, sessions>>
          PROVE  Descriptors'
      BY <1>2, <2>4 DEF Descriptors
    <2>5. DaemonStep => SendKills \/ UNCHANGED <<spare, fds, sessions>>
      BY DEF DaemonStep, Send, SendFails, Timeout, Welcome, Unwelcome, Finished,
         Refused, TreeLine,
         AttributeLine, SizeLine, ShortSize, DataBlock, Fail, Succeed, EndSession, Go,
         sockets
    <2>6. ServerStep \/ (\E f \in Files : Commit(f)) => UNCHANGED <<spare, fds, sessions>>
      BY DEF ServerStep, ServerGreets, ServerDiffs, ServerSends, ServerStops, Answers,
         Commit, sockets
    <2>7. UNCHANGED vars => UNCHANGED <<spare, fds, sessions>>
      BY DEF vars, sockets
    <2> QED
      BY <1>2, <2>1, <2>2, <2>3, <2>4, <2>5, <2>6, <2>7
      DEF Next, Test, LoadCvsTree, LoadAttribute, LoadFile
  <1>3. Descriptors => OutageCostsNothing
    BY DEF Descriptors, OutageCostsNothing
  <1> QED
    BY <1>1, <1>2, <1>3, PTL DEF Spec
----------------------------------------------------------------------------
(* A set of numbers that is not empty has a smallest one. *)
LEMMA Smallest ==
  ASSUME NEW T, T \subseteq Nat, T # {}
  PROVE  \E i \in T : \A j \in T : i <= j
  <1> DEFINE R == {ss \in Nat \X Nat : ss[1] < ss[2]}
  <1>1. IsWellFoundedOn(R, Nat)
    BY NatLessThanWellFounded DEF OpToRel
  <1>2. PICK i \in T : \A j \in T : ~(<<j, i>> \in R)
    <2> HIDE DEF R
    <2> QED
      BY <1>1, WFMin
  <1>3. ASSUME NEW j \in T
        PROVE  i <= j
    <2>1. j < i => <<j, i>> \in R
      OBVIOUS
    <2> QED
      BY <1>2, <2>1
  <1> QED
    BY <1>3

(* The beginnings of a sequence of sequences, each flattened.              *)
Flattens(f, s, n) == f = [i \in 1 .. n |-> IF i = 1 THEN s[i] ELSE f[i - 1] \o s[i]]

(* There are such beginnings: a smallest n without would have an n - 1     *)
(* with them, and they can be continued.                                   *)
LEMMA FlattenExists ==
  ASSUME NEW s, NEW n \in Nat
  PROVE  \E f : Flattens(f, s, n)
  <1> DEFINE Without == {m \in Nat : ~\E f : Flattens(f, s, m)}
  <1> SUFFICES ASSUME Without # {}
               PROVE  FALSE
    OBVIOUS
  <1>1. PICK m \in Without : \A j \in Without : m <= j
    <2>1. Without \subseteq Nat
      OBVIOUS
    <2> HIDE DEF Without
    <2> QED
      BY <2>1, Smallest
  <1>2. m # 0
    <2> DEFINE e == [i \in 1 .. 0 |-> 0]
    <2>1. 1 .. 0 = {}
      OBVIOUS
    <2>2. e = [i \in 1 .. 0 |-> IF i = 1 THEN s[i] ELSE e[i - 1] \o s[i]]
      BY <2>1
    <2>3. Flattens(e, s, 0)
      BY <2>2 DEF Flattens
    <2> QED
      BY <2>3
  <1>3. m \in Nat /\ m - 1 \in Nat /\ m - 1 \notin Without
    BY <1>1, <1>2
  <1>4. PICK f : f = [i \in 1 .. m - 1 |-> IF i = 1 THEN s[i] ELSE f[i - 1] \o s[i]]
    BY <1>3 DEF Flattens
  <1> DEFINE g == [i \in 1 .. m |-> IF i = m THEN (IF i = 1 THEN s[i] ELSE f[i - 1] \o s[i]) ELSE f[i]]
  <1>5. ASSUME NEW i \in 1 .. m
        PROVE  g[i] = IF i = 1 THEN s[i] ELSE g[i - 1] \o s[i]
    <2>1. CASE i = 1
      BY <1>3, <1>4, <1>5, <2>1
    <2>2. CASE i # 1 /\ i = m
      <3>1. i - 1 \in 1 .. m /\ i - 1 # m
        BY <1>3, <1>5, <2>2
      <3>2. g[i - 1] = f[i - 1]
        BY <3>1
      <3> QED
        BY <1>5, <2>2, <3>2
    <2>3. CASE i # 1 /\ i # m
      <3>1. i \in 1 .. m - 1 /\ i - 1 \in 1 .. m /\ i - 1 # m
        BY <1>3, <1>5, <2>3
      <3>2. g[i] = f[i] /\ g[i - 1] = f[i - 1]
        BY <1>5, <2>3, <3>1
      <3>3. f[i] = f[i - 1] \o s[i]
        BY <1>4, <2>3, <3>1
      <3> QED
        BY <2>3, <3>2, <3>3
    <2> QED
      BY <2>1, <2>2, <2>3
  <1>6. Flattens(g, s, m)
    <2>1. g = [i \in 1 .. m |-> g[i]]
      OBVIOUS
    <2> HIDE DEF g
    <2> QED
      BY <1>5, <2>1 DEF Flattens
  <1> QED
    BY <1>1, <1>6

LEMMA FlattenIs ==
  ASSUME NEW s, Len(s) \in Nat, Len(s) # 0
  PROVE  \E f : Flattens(f, s, Len(s)) /\ FlattenSeq(s) = f[Len(s)]
  <1> DEFINE n == Len(s)
             F == CHOOSE f : f = [i \in 1 .. n |-> IF i = 1 THEN s[i] ELSE f[i - 1] \o s[i]]
  <1>1. \E f : f = [i \in 1 .. n |-> IF i = 1 THEN s[i] ELSE f[i - 1] \o s[i]]
    BY FlattenExists DEF Flattens
  <1>2. F = [i \in 1 .. n |-> IF i = 1 THEN s[i] ELSE F[i - 1] \o s[i]]
    BY <1>1
  <1>3. FlattenSeq(s) = F[n]
    BY DEF FlattenSeq
  <1> HIDE DEF F
  <1> QED
    BY <1>2, <1>3 DEF Flattens

(* SetToSeq lists every element of a finite set. *)
LEMMA SetToSeqLists ==
  ASSUME NEW S, IsFiniteSet(S)
  PROVE  /\ SetToSeq(S) \in Seq(S)
         /\ \A x \in S : \E i \in 1 .. Len(SetToSeq(S)) : SetToSeq(S)[i] = x
  <1> DEFINE n == Cardinality(S)
             q == SetToSeq(S)
  <1>1. n \in Nat /\ ExistsBijection(1 .. n, S)
    BY FS_CardinalityType
  <1>2. \E f \in [1 .. n -> S] : IsInjective(f)
    BY <1>1 DEF ExistsBijection, Bijection, Injection
  <1>3. q \in [1 .. n -> S] /\ IsInjective(q)
    BY <1>2 DEF SetToSeq
  <1>4. q \in Injection(1 .. n, S)
    BY <1>3 DEF Injection
  <1>5. Cardinality(1 .. n) = n
    BY <1>1, FS_Interval
  <1> HIDE DEF q
  <1>6. q \in Surjection(1 .. n, S)
    BY <1>4, <1>5, FS_Injection
  <1>7. q \in Seq(S) /\ Len(q) = n
    BY <1>1, <1>3
  <1> QED
    BY <1>6, <1>7 DEF Surjection, q
----------------------------------------------------------------------------
(* What a server may say of the repository h: every directory is named, and *)
(* the files of a directory come after its line, before the next one.      *)
Lines(h) == {DirLine(d) : d \in ToSet(Dirs)} \cup {FileLine(f, h[f]) : f \in Files}

Grouped(s) ==
  \A i \in 1 .. Len(s) : s[i].kind = "file" =>
    \E j \in 1 .. i - 1 : /\ s[j].kind = "dir" /\ s[j].path = Front(s[i].path)
                          /\ \A k \in j + 1 .. i - 1 : s[k].kind # "dir"

Names(s, h, D) ==
  \A f \in Files : h[f] # 0 /\ Front(f) \in D => \E i \in 1 .. Len(s) : s[i] = FileLine(f, h[f])

Reports(s, h, D) == s \in Seq(Lines(h)) /\ Grouped(s) /\ Names(s, h, D)

LEMMA LineKinds ==
  ASSUME NEW h, NEW x \in Lines(h)
  PROVE  \/ \E d \in ToSet(Dirs) : x = DirLine(d) /\ x.kind = "dir" /\ x.path = d
         \/ \E f \in Files : x = FileLine(f, h[f]) /\ x.kind = "file" /\ x.path = f /\ x.version = h[f]
  BY DEF Lines, DirLine, FileLine

(* What is said of one directory. *)
FilesSaid(d) == {FileLine(f, head[f]) : f \in FilesIn(d)}
Block(d) == <<DirLine(d)>> \o SetToSeq(FilesSaid(d))

LEMMA BlockIs ==
  ASSUME NEW d \in ToSet(Dirs)
  PROVE  /\ Block(d) \in Seq(Lines(head)) /\ Len(Block(d)) > 0 /\ Block(d)[1] = DirLine(d)
         /\ \A i \in 2 .. Len(Block(d)) :
              Block(d)[i].kind = "file" /\ Front(Block(d)[i].path) = d
         /\ \A f \in Files : head[f] # 0 /\ Front(f) = d =>
              \E i \in 1 .. Len(Block(d)) : Block(d)[i] = FileLine(f, head[f])
  <1> DEFINE S == FilesSaid(d)
             q == SetToSeq(S)
  <1>1. IsFiniteSet(S)
    <2>1. IsFiniteSet(FilesIn(d))
      BY SessionAssumption, FS_Subset DEF FilesIn
    <2> DEFINE g == [f \in FilesIn(d) |-> FileLine(f, head[f])]
    <2>2. g \in Surjection(FilesIn(d), S)
      BY DEF Surjection, FilesSaid
    <2> HIDE DEF g
    <2> QED
      BY <2>1, <2>2, FS_Surjection
  <1>2. q \in Seq(S) /\ \A x \in S : \E i \in 1 .. Len(q) : q[i] = x
    BY <1>1, SetToSeqLists
  <1>3. S \subseteq Lines(head)
    BY DEF FilesSaid, FilesIn, Lines
  <1>4. \A x \in S : x.kind = "file" /\ Front(x.path) = d
    BY DEF FilesSaid, FilesIn, FileLine
  <1>5. \A f \in Files : head[f] # 0 /\ Front(f) = d => FileLine(f, head[f]) \in S
    BY DEF FilesSaid, FilesIn
  <1>6. DirLine(d) \in Lines(head)
    BY DEF Lines
  <1> HIDE DEF q, S
  <1>7. Block(d) = <<DirLine(d)>> \o q
    BY DEF Block, q, S
  <1>8. /\ Block(d) \in Seq(Lines(head)) /\ Len(Block(d)) = Len(q) + 1 /\ Block(d)[1] = DirLine(d)
        /\ Len(q) \in Nat /\ \A i \in 1 .. Len(q) : Block(d)[i + 1] = q[i]
    <2>1. q \in Seq(Lines(head)) /\ <<DirLine(d)>> \in Seq(Lines(head))
      BY <1>2, <1>3, <1>6
    <2> QED
      BY <1>7, <2>1
  <1>9. ASSUME NEW i \in 2 .. Len(Block(d))
        PROVE  Block(d)[i].kind = "file" /\ Front(Block(d)[i].path) = d
    <2>1. i - 1 \in 1 .. Len(q) /\ Block(d)[(i - 1) + 1] = q[i - 1]
      BY <1>8
    <2>2. q[i - 1] \in S
      BY <1>2, <2>1
    <2>3. Block(d)[i] = q[i - 1]
      BY <2>1
    <2> QED
      BY <1>4, <2>2, <2>3
  <1>10. ASSUME NEW f \in Files, head[f] # 0, Front(f) = d
         PROVE  \E i \in 1 .. Len(Block(d)) : Block(d)[i] = FileLine(f, head[f])
    <2>1. PICK i \in 1 .. Len(q) : q[i] = FileLine(f, head[f])
      BY <1>2, <1>5, <1>10
    <2>2. i + 1 \in 1 .. Len(Block(d)) /\ Block(d)[i + 1] = q[i]
      BY <1>8, <2>1
    <2> QED
      BY <2>1, <2>2
  <1> QED
    BY <1>8, <1>9, <1>10

(* The files of one more directory. *)
LEMMA OneMore ==
  ASSUME NEW s, NEW D, Reports(s, head, D), NEW d \in ToSet(Dirs)
  PROVE  Reports(s \o Block(d), head, D \cup {d})
  <1> DEFINE t == s \o Block(d)
             n == Len(s)
  <1>1. s \in Seq(Lines(head)) /\ Grouped(s) /\ Names(s, head, D)
    BY DEF Reports
  <1>2. /\ t \in Seq(Lines(head)) /\ Len(t) = n + Len(Block(d)) /\ n \in Nat
        /\ Len(Block(d)) \in Nat
        /\ \A i \in 1 .. n : t[i] = s[i]
        /\ \A i \in 1 .. Len(Block(d)) : t[n + i] = Block(d)[i]
    BY <1>1, BlockIs
  <1> HIDE DEF t
  <1> HIDE DEF n
  <1>3. Grouped(t)
    <2> SUFFICES ASSUME NEW i \in 1 .. Len(t), t[i].kind = "file"
                 PROVE  \E j \in 1 .. i - 1 :
                          /\ t[j].kind = "dir" /\ t[j].path = Front(t[i].path)
                          /\ \A k \in j + 1 .. i - 1 : t[k].kind # "dir"
      BY DEF Grouped
    <2>1. CASE i \in 1 .. n
      <3>1. PICK j \in 1 .. i - 1 :
                   /\ s[j].kind = "dir" /\ s[j].path = Front(s[i].path)
                   /\ \A k \in j + 1 .. i - 1 : s[k].kind # "dir"
        BY <1>1, <1>2, <2>1 DEF Grouped, n
      <3>2. \A k \in 1 .. i : t[k] = s[k]
        BY <1>2, <2>1
      <3> QED
        BY <2>1, <3>1, <3>2
    <2>2. CASE i \notin 1 .. n
      <3> DEFINE m == i - n
      <3>1. m \in 1 .. Len(Block(d)) /\ t[i] = Block(d)[m]
        <4>1. m \in 1 .. Len(Block(d)) /\ n + m = i
          BY <1>2, <2>2
        <4> QED
          BY <1>2, <4>1
      <3>2. Block(d)[1] = DirLine(d) /\ t[n + 1] = Block(d)[1]
        BY <1>2, <3>1, BlockIs
      <3>3. t[n + 1].kind = "dir" /\ t[n + 1].path = d
        BY <3>2 DEF DirLine
      <3>4. m # 1
        BY <3>1, <3>2 DEF DirLine
      <3>5. m \in 2 .. Len(Block(d))
        BY <3>1, <3>4
      <3>6. Front(t[i].path) = d
        BY <3>1, <3>5, BlockIs
      <3>7. ASSUME NEW k \in n + 1 + 1 .. i - 1
            PROVE  t[k].kind # "dir"
        <4>1. k - n \in 2 .. Len(Block(d)) /\ n + (k - n) = k /\ k - n \in 1 .. Len(Block(d))
          BY <1>2, <3>1
        <4>2. t[k] = Block(d)[k - n]
          BY <1>2, <4>1
        <4>3. Block(d)[k - n].kind = "file"
          BY <4>1, BlockIs
        <4> QED
          BY <4>2, <4>3
      <3>8. n + 1 \in 1 .. i - 1
        BY <1>2, <3>5
      <3> QED
        BY <3>3, <3>6, <3>7, <3>8
    <2> QED
      BY <2>1, <2>2
  <1>4. Names(t, head, D \cup {d})
    <2> SUFFICES ASSUME NEW f \in Files, head[f] # 0, Front(f) \in D \cup {d}
                 PROVE  \E i \in 1 .. Len(t) : t[i] = FileLine(f, head[f])
      BY DEF Names
    <2>1. CASE Front(f) \in D
      <3>1. PICK i \in 1 .. n : s[i] = FileLine(f, head[f])
        BY <1>1, <2>1 DEF Names, n
      <3> QED
        BY <1>2, <3>1
    <2>2. CASE Front(f) = d
      <3>1. PICK i \in 1 .. Len(Block(d)) : Block(d)[i] = FileLine(f, head[f])
        BY <2>2, BlockIs
      <3>2. n + i \in 1 .. Len(t) /\ t[n + i] = Block(d)[i]
        BY <1>2, <3>1
      <3> QED
        BY <3>1, <3>2
    <2> QED
      BY <2>1, <2>2
  <1> QED
    BY <1>2, <1>3, <1>4 DEF Reports, t

(* Differences reports every directory, by their order in Dirs.            *)
LEMMA DifferencesReport == Reports(Differences, head, ToSet(Dirs))
  <1> DEFINE s == [i \in DOMAIN Dirs |-> Block(Dirs[i])]
             n == Len(Dirs)
  <1>1. n \in Nat /\ n # 0 /\ DOMAIN Dirs = 1 .. n /\ \A i \in 1 .. n : Dirs[i] \in ToSet(Dirs)
    <2>1. Dirs \in Seq(ToSet(Dirs)) /\ ToSet(Dirs) # {}
      BY SessionAssumption DEF IsSequence
    <2>2. n \in Nat /\ DOMAIN Dirs = 1 .. n
      BY <2>1
    <2> QED
      BY <2>1, <2>2 DEF ToSet
  <1>2. Len(s) = n
    BY <1>1
  <1>3. Differences = FlattenSeq(s)
    BY DEF Differences, Block, FilesSaid
  <1>4. \A i \in 1 .. n : s[i] = Block(Dirs[i])
    BY <1>1
  <1> HIDE DEF s
  <1>5. PICK f : Flattens(f, s, n) /\ FlattenSeq(s) = f[n]
    BY <1>1, <1>2, FlattenIs
  <1>6. \A i \in 1 .. n : f[i] = IF i = 1 THEN Block(Dirs[i]) ELSE f[i - 1] \o Block(Dirs[i])
    BY <1>4, <1>5 DEF Flattens
  <1> DEFINE First(m) == {Dirs[i] : i \in 1 .. m}
             Wrong == {m \in 1 .. n : ~Reports(f[m], head, First(m))}
  <1>7. Wrong = {}
    <2> SUFFICES ASSUME Wrong # {}
                 PROVE  FALSE
      OBVIOUS
    <2>1. PICK m \in Wrong : \A j \in Wrong : m <= j
      <3>1. Wrong \subseteq Nat
        OBVIOUS
      <3> HIDE DEF Wrong
      <3> QED
        BY <3>1, Smallest
    <2>2. m \in 1 .. n /\ Dirs[m] \in ToSet(Dirs) /\ ~Reports(f[m], head, First(m))
      BY <1>1, <2>1
    <2>3. Block(Dirs[m]) \in Seq(Lines(head))
      BY <2>2, BlockIs
    <2>4. CASE m = 1
      <3>1. Reports(<<>>, head, {})
        BY DEF Reports, Grouped, Names
      <3>2. Reports(<<>> \o Block(Dirs[m]), head, {} \cup {Dirs[m]})
        BY <2>2, <3>1, OneMore
      <3>3. <<>> \o Block(Dirs[m]) = f[m]
        BY <1>6, <2>2, <2>3, <2>4
      <3>4. {} \cup {Dirs[m]} = First(m)
        BY <2>4
      <3> QED
        BY <2>2, <3>2, <3>3, <3>4
    <2>5. CASE m # 1
      <3>1. m - 1 \in 1 .. n /\ m - 1 \notin Wrong
        <4>1. m - 1 \in 1 .. n /\ ~(m <= m - 1)
          BY <1>1, <2>2, <2>5
        <4> HIDE DEF Wrong
        <4> QED
          BY <2>1, <4>1
      <3>2. Reports(f[m - 1], head, First(m - 1))
        BY <3>1
      <3>3. Reports(f[m - 1] \o Block(Dirs[m]), head, First(m - 1) \cup {Dirs[m]})
        BY <2>2, <3>2, OneMore
      <3>4. f[m - 1] \o Block(Dirs[m]) = f[m]
        BY <1>6, <2>2, <2>5
      <3>5. First(m - 1) \cup {Dirs[m]} = First(m)
        <4>1. \A i : i \in 1 .. m <=> i \in 1 .. m - 1 \/ i = m
          BY <2>2, <1>1
        <4> QED
          BY <4>1
      <3> QED
        BY <2>2, <3>3, <3>4, <3>5
    <2> QED
      BY <2>4, <2>5
  <1>8. Reports(f[n], head, First(n))
    <2> HIDE DEF First
    <2>1. n \in 1 .. n
      BY <1>1
    <2> QED
      BY <1>7, <2>1
  <1>9. First(n) = ToSet(Dirs)
    BY <1>1 DEF ToSet
  <1> QED
    BY <1>3, <1>5, <1>8, <1>9
----------------------------------------------------------------------------
(* What the daemon knows after the first k lines of the report s.          *)
KnownAfter(s, k) ==
  /\ \A i \in 1 .. k :
       s[i].kind = "dir" /\ (\A j \in i + 1 .. k : s[j].kind # "dir") => curDir = s[i].path
  /\ \A f \in Files :
       cvs[f] = IF \E i \in 1 .. k : s[i] = FileLine(f, listing[f]) THEN listing[f] ELSE 0

(* What is on its way is what follows them, as far as it gets.             *)
Follows(s, k) ==
  /\ k + Len(down) <= Len(s) + 1
  /\ \A i \in 1 .. Len(down) : down[i] = IF k + i <= Len(s) THEN s[k + i] ELSE Line("ok")

(* A tree is read from an empty one, and as the report says so far.        *)
TreeArrives ==
  cmd.op = "tree" =>
    /\ ~loaded
    /\ step = "reply" /\ up # <<>> => cvs = Nothing
    /\ step = "reply" /\ down # <<>> =>
         /\ down \in Seq(Lines(listing) \cup {Line("ok"), Line("error")})
         /\ \/ down = <<Line("error")>>
            \/ \E s : /\ Reports(s, listing, ToSet(Dirs))
                      /\ \E k \in 0 .. Len(s) : KnownAfter(s, k) /\ Follows(s, k)

(* The tree that is served is what was listed. *)
TreeKept ==
  /\ {head, cvs, root, listing} \subseteq [Files -> 0 .. MaxVersion]
  /\ loaded \in BOOLEAN /\ (loaded => root = listing)

Tree == TreeKept /\ TreeArrives

LEMMA NothingTyped == Nothing \in [Files -> 0 .. MaxVersion]
  BY SessionAssumption DEF Nothing

LEMMA InitTree == Init => Tree
  <1> SUFFICES ASSUME Init PROVE Tree
    OBVIOUS
  <1>1. head \in [Files -> 0 .. MaxVersion]
    BY SessionAssumption DEF Init
  <1>2. TreeKept
    BY <1>1, NothingTyped DEF Init, TreeKept
  <1>3. TreeArrives
    BY DEF Init, Idle, TreeArrives
  <1> QED
    BY <1>2, <1>3 DEF Tree

(* After a session that has not brought a tree. *)
LEMMA EndedTree ==
  ASSUME Tree, EndSession, cvs' = cvs, root' = root, loaded' = loaded
  PROVE  Tree'
  <1>1. cmd'.op = "idle" /\ head' = head /\ listing' = listing
    BY DEF EndSession, Idle
  <1> QED
    BY <1>1 DEF Tree, TreeKept, TreeArrives

LEMMA FailTree ==
  ASSUME Tree, Fail
  PROVE  Tree'
  BY EndedTree DEF Fail

LEMMA SucceedTree ==
  ASSUME Tree, Succeed, cmd.op # "tree"
  PROVE  Tree'
  <1>1. loaded' = loaded
    BY DEF Succeed, Tree, TreeKept
  <1> QED
    BY <1>1, EndedTree DEF Succeed

(* A path is its directory and its name. *)
LEMMA PathIs ==
  ASSUME NEW f \in Files
  PROVE  Append(Front(f), Last(f)) = f /\ Front(f) \in ToSet(Dirs)
  <1>1. f \in Seq(ToSet(f)) /\ Len(f) > 0 /\ Front(f) \in ToSet(Dirs)
    BY SessionAssumption DEF IsSequence
  <1>2. Front(f) = SubSeq(f, 1, Len(f) - 1) /\ Last(f) = f[Len(f)]
    BY DEF Front, Last
  <1>3. Append(SubSeq(f, 1, Len(f) - 1), f[Len(f)]) = f
    BY <1>1
  <1> QED
    BY <1>1, <1>2, <1>3

(* At "ok" the whole report has been taken, so that the tree is the        *)
(* repository as it was listed.                                            *)
LEMMA FinishedTree ==
  ASSUME Inv, Tree, Finished
  PROVE  Tree'
  <1>1. CASE cmd.op # "tree"
    BY <1>1, SucceedTree DEF Finished
  <1>2. CASE cmd.op = "tree"
    <2>1. /\ step = "reply" /\ down # <<>> /\ Head(down).kind = "ok"
          /\ root' = cvs /\ cvs' = cvs /\ loaded' = TRUE /\ head' = head /\ listing' = listing
          /\ cmd'.op = "idle"
      BY <1>2 DEF Finished, EndsWith, Succeed, EndSession, Idle, Tree, TreeKept
    <2>2. down \in Seq(Lines(listing) \cup {Line("ok"), Line("error")})
      BY <1>2, <2>1 DEF Tree, TreeArrives
    <2>3. Len(down) > 0 /\ down[1].kind = "ok"
      BY <2>1, <2>2
    <2>4. down # <<Line("error")>>
      BY <2>1 DEF Line
    <2>5. PICK s : /\ Reports(s, listing, ToSet(Dirs))
                   /\ \E k \in 0 .. Len(s) : KnownAfter(s, k) /\ Follows(s, k)
      BY <1>2, <2>1, <2>4 DEF Tree, TreeArrives
    <2>6. PICK k \in 0 .. Len(s) : KnownAfter(s, k) /\ Follows(s, k)
      BY <2>5
    <2>7. s \in Seq(Lines(listing)) /\ Len(s) \in Nat
      BY <2>5 DEF Reports
    <2>8. k = Len(s)
      <3> SUFFICES ASSUME k + 1 <= Len(s)
                   PROVE  FALSE
        BY <2>6, <2>7
      <3>1. down[1] = s[k + 1] /\ s[k + 1] \in Lines(listing)
        BY <2>3, <2>6, <2>7 DEF Follows
      <3> QED
        BY <2>3, <3>1, LineKinds
    <2>9. ASSUME NEW f \in Files
          PROVE  cvs[f] = listing[f]
      <3>1. CASE listing[f] = 0
        BY <2>6, <3>1 DEF KnownAfter
      <3>2. CASE listing[f] # 0
        <4>1. \E i \in 1 .. Len(s) : s[i] = FileLine(f, listing[f])
          BY <2>5, <3>2, PathIs DEF Reports, Names
        <4> QED
          BY <2>6, <2>8, <4>1 DEF KnownAfter
      <3> QED
        BY <3>1, <3>2
    <2>10. cvs = listing
      BY <2>9 DEF Tree, TreeKept
    <2> QED
      BY <2>1, <2>10 DEF Tree, TreeKept, TreeArrives
  <1> QED
    BY <1>1, <1>2

LEMMA BeginTree ==
  ASSUME Tree, NEW op, NEW f, NEW v, Begin(op, f, v), op = "tree" => ~loaded
  PROVE  Tree'
  <1>1. /\ step' = "login" /\ cmd'.op = op /\ head' = head /\ cvs' = cvs /\ root' = root
        /\ loaded' = loaded /\ listing' = listing
    BY DEF Begin, reading
  <1> QED
    BY <1>1 DEF Tree, TreeKept, TreeArrives

LEMMA SendTree ==
  ASSUME Inv, Tree, Send
  PROVE  Tree'
  <1>0. Typed /\ SendOrder /\ AskedOnce
    BY DEF Inv
  <1>1. /\ head' = head /\ root' = root /\ loaded' = loaded /\ listing' = listing
        /\ cvs' = cvs \/ cvs' = Nothing
        /\ cmd' = cmd /\ down' = down /\ down = <<>> /\ step \in Sending /\ todo # <<>>
    BY <1>0 DEF Send, EmptyTree, kept, server, SendOrder, AskedOnce, Sending, Answering
  <1>2. TreeKept'
    <2>1. TreeKept
      BY DEF Tree
    <2>2. cvs' \in [Files -> 0 .. MaxVersion]
      BY <1>1, <2>1, NothingTyped DEF TreeKept
    <2> QED
      BY <1>1, <2>1, <2>2 DEF TreeKept
  <1>3. step' = "reply" /\ cmd.op = "tree" => cvs' = Nothing
    <2> SUFFICES ASSUME step' = "reply", cmd.op = "tree"
                 PROVE  cvs' = Nothing
      OBVIOUS
    <2>1. Len(todo) = 1 /\ step = "command"
      <3>1. Len(todo) \in Nat /\ Len(todo) > 0
        BY <1>0, <1>1 DEF Typed
      <3>2. AfterSend
        BY <1>1 DEF Send
      <3>3. ~(Len(todo) > 1)
        BY <1>1, <3>2 DEF AfterSend, Sending
      <3>4. step # "prepare"
        BY <3>2, <3>3 DEF AfterSend
      <3>5. step' = IF step = "login" THEN "greeting" ELSE "reply"
        BY <3>2, <3>3, <3>4, Zenon DEF AfterSend
      <3>6. step # "login"
        BY <3>5
      <3>7. step = "command"
        BY <1>1, <3>4, <3>6 DEF Sending
      <3>8. ASSUME NEW k \in Nat, k > 0, ~(k > 1)
            PROVE  k = 1
        BY <3>8
      <3>9. Len(todo) = 1
        BY <3>1, <3>3, <3>8
      <3> QED
        BY <3>7, <3>9
    <2> QED
      BY <2>1 DEF Send, EmptyTree
  <1> QED
    BY <1>1, <1>2, <1>3 DEF Tree, TreeArrives

LEMMA SendKillsTree ==
  ASSUME Tree, SendKills
  PROVE  Tree'
  <1>1. /\ head' = head /\ listing' = listing /\ root' = Nothing /\ cvs' = Nothing
        /\ loaded' = FALSE /\ cmd'.op = "idle"
    BY DEF SendKills, Idle
  <1> QED
    BY <1>1, NothingTyped DEF Tree, TreeKept, TreeArrives

LEMMA WelcomeTree ==
  ASSUME Tree, Welcome
  PROVE  Tree'
  <1>1. CASE cmd.op = "test" /\ Succeed
    BY <1>1, SucceedTree
  <1>2. CASE cmd.op # "test" /\ Take("love") /\ Go("prepare", PrepareLines) /\ UNCHANGED reading
    <2>1. /\ head' = head /\ listing' = listing /\ root' = root /\ cvs' = cvs
          /\ loaded' = loaded /\ cmd' = cmd /\ step' = "prepare"
      BY <1>2 DEF Go, server, kept, reading
    <2> QED
      BY <2>1 DEF Tree, TreeKept, TreeArrives
  <1> QED
    BY <1>1, <1>2 DEF Welcome

(* The commands that load a file keep the tree. *)
LEMMA OtherLinesTree ==
  ASSUME Inv, Tree, AttributeLine \/ SizeLine \/ ShortSize \/ DataBlock \/ ServerSends
  PROVE  Tree'
  <1>1. /\ head' = head /\ root' = root /\ cvs' = cvs /\ loaded' = loaded /\ listing' = listing
        /\ cmd' = cmd \/ cmd'.op = "idle"
    <2>1. CASE AttributeLine
      BY <2>1 DEF AttributeLine, Go, kept, server
    <2>2. CASE SizeLine
      BY <2>2 DEF SizeLine, EndSession, Idle, server
    <2>5. CASE ShortSize
      BY <2>5 DEF ShortSize, EndSession, Idle
    <2>3. CASE DataBlock
      BY <2>3 DEF DataBlock, server
    <2>4. CASE ServerSends
      BY <2>4 DEF ServerSends, Answers, reading, kept
    <2> QED
      BY <2>1, <2>2, <2>3, <2>4, <2>5
  <1>2. cmd.op # "tree"
    <2>1. DataBlock => cmd.op = "file"
      BY DEF DataBlock, Inv, StoreFollows
    <2>2. ASSUME ServerSends
          PROVE  cmd.op # "tree"
      <3>1. up # <<>> /\ up[Len(up)] = "co"
        BY <2>2 DEF ServerSends, Asked, Last
      <3>2. Len(up) \in Nat /\ Len(up) > 0
        BY <3>1 DEF Inv, Typed
      <3>3. up[Len(up)] \in Finals
        BY <3>1 DEF Finals
      <3> QED
        BY <3>1, <3>2, <3>3 DEF Inv, AskedOnce, Typed, Answering, Sending, Request
    <2> QED
      BY <2>1, <2>2 DEF AttributeLine, SizeLine, ShortSize
  <1> QED
    BY <1>1, <1>2 DEF Tree, TreeKept, TreeArrives

(* One line of the report more has been taken. *)
LEMMA TreeLineTree ==
  ASSUME Inv, Tree, TreeLine
  PROVE  Tree'
  <1>1. /\ head' = head /\ root' = root /\ loaded' = loaded /\ listing' = listing
        /\ cmd' = cmd /\ step' = "reply" /\ step = "reply" /\ cmd.op = "tree"
        /\ down # <<>> /\ down' = Tail(down) /\ up' = up
    BY DEF TreeLine, Take, Go, kept, server
  <1>2. up = <<>>
    BY <1>1 DEF Inv, AskedOnce, Answering
  <1>3. /\ down \in Seq(Lines(listing) \cup {Line("ok"), Line("error")})
        /\ Len(down) \in Nat /\ Len(down) > 0 /\ Head(down) = down[1]
        /\ Tail(down) \in Seq(Lines(listing) \cup {Line("ok"), Line("error")})
        /\ Len(Tail(down)) = Len(down) - 1
        /\ \A i \in 1 .. Len(down) - 1 : Tail(down)[i] = down[i + 1]
    <2>1. down \in Seq(Lines(listing) \cup {Line("ok"), Line("error")})
      BY <1>1 DEF Tree, TreeArrives
    <2> QED
      BY <1>1, <2>1
  <1>4. down[1].kind \in {"dir", "file"}
    BY <1>3 DEF TreeLine, Take
  <1>5. down # <<Line("error")>>
    BY <1>4 DEF Line
  <1>6. PICK s : /\ Reports(s, listing, ToSet(Dirs))
                 /\ \E k \in 0 .. Len(s) : KnownAfter(s, k) /\ Follows(s, k)
    BY <1>1, <1>5 DEF Tree, TreeArrives
  <1>7. PICK k \in 0 .. Len(s) : KnownAfter(s, k) /\ Follows(s, k)
    BY <1>6
  <1>8. s \in Seq(Lines(listing)) /\ Len(s) \in Nat /\ Grouped(s)
    BY <1>6 DEF Reports
  <1>9. k + 1 \in 1 .. Len(s) /\ down[1] = s[k + 1] /\ s[k + 1] \in Lines(listing)
    <2>1. down[1] = IF k + 1 <= Len(s) THEN s[k + 1] ELSE Line("ok")
      BY <1>3, <1>7 DEF Follows
    <2>2. k + 1 <= Len(s)
      BY <1>4, <2>1 DEF Line
    <2> QED
      BY <1>7, <1>8, <2>1, <2>2
  <1>10. Follows(s, k + 1)'
    <2>1. Len(down') \in Nat /\ k + 1 + Len(down') <= Len(s) + 1
      BY <1>1, <1>3, <1>7, <1>8 DEF Follows
    <2>2. ASSUME NEW i \in 1 .. Len(down')
          PROVE  down'[i] = IF k + 1 + i <= Len(s) THEN s[k + 1 + i] ELSE Line("ok")
      <3>1. i + 1 \in 1 .. Len(down) /\ down'[i] = down[i + 1] /\ k + (i + 1) = k + 1 + i
        BY <1>1, <1>3, <1>7
      <3>2. down[i + 1] = IF k + (i + 1) <= Len(s) THEN s[k + (i + 1)] ELSE Line("ok")
        BY <1>7, <3>1 DEF Follows
      <3> QED
        BY <3>1, <3>2
    <2> QED
      BY <2>1, <2>2 DEF Follows
  <1>11. TreeKept
    BY DEF Tree
  <1>12. cvs' \in [Files -> 0 .. MaxVersion] /\ KnownAfter(s, k + 1)'
    <2>1. CASE Take("dir") /\ curDir' = Head(down).path /\ UNCHANGED cvs
      <3>1. s[k + 1].kind = "dir" /\ curDir' = s[k + 1].path /\ cvs' = cvs
        BY <1>3, <1>9, <2>1 DEF Take
      <3>2. ASSUME NEW i \in 1 .. k + 1, s[i].kind = "dir", \A j \in i + 1 .. k + 1 : s[j].kind # "dir"
            PROVE  curDir' = s[i].path
        <4>1. i = k + 1
          <5>1. i # k + 1 => k + 1 \in i + 1 .. k + 1
            BY <1>7
          <5> QED
            BY <3>1, <3>2, <5>1
        <4> QED
          BY <3>1, <4>1
      <3>3. ASSUME NEW f \in Files
            PROVE  cvs'[f] = IF \E i \in 1 .. k + 1 : s[i] = FileLine(f, listing[f])
                             THEN listing[f] ELSE 0
        <4>1. s[k + 1] # FileLine(f, listing[f])
          BY <3>1 DEF FileLine
        <4>2. \A i : i \in 1 .. k + 1 <=> i \in 1 .. k \/ i = k + 1
          BY <1>7
        <4>3. cvs[f] = IF \E i \in 1 .. k : s[i] = FileLine(f, listing[f]) THEN listing[f] ELSE 0
          BY <1>7 DEF KnownAfter
        <4> QED
          BY <3>1, <4>1, <4>2, <4>3
      <3> QED
        BY <1>1, <1>11, <3>1, <3>2, <3>3 DEF KnownAfter, TreeKept
    <2>2. CASE /\ Take("file") /\ UNCHANGED curDir
               /\ cvs' = IF curDir = NoDir THEN cvs
                         ELSE [cvs EXCEPT ![Append(curDir, Last(Head(down).path))] = Head(down).version]
      <3>1. s[k + 1].kind = "file" /\ Head(down) = s[k + 1] /\ curDir' = curDir
        BY <1>3, <1>9, <2>2 DEF Take
      <3>2. PICK g \in Files : /\ s[k + 1] = FileLine(g, listing[g]) /\ s[k + 1].path = g
                               /\ s[k + 1].version = listing[g]
        BY <1>9, <3>1, LineKinds
      <3>3. PICK j \in 1 .. k : /\ s[j].kind = "dir" /\ s[j].path = Front(g)
                                /\ \A i \in j + 1 .. k : s[i].kind # "dir"
        <4>1. k + 1 - 1 = k
          BY <1>7
        <4> QED
          BY <1>8, <1>9, <3>1, <3>2, <4>1 DEF Grouped
      <3>4. curDir = Front(g)
        BY <1>7, <3>3 DEF KnownAfter
      <3>5. curDir # NoDir /\ Append(curDir, Last(g)) = g
        BY <3>4, PathIs, SessionAssumption
      <3>6. cvs' = [cvs EXCEPT ![g] = listing[g]]
        BY <2>2, <3>1, <3>2, <3>5
      <3>7. cvs \in [Files -> 0 .. MaxVersion] /\ listing[g] \in 0 .. MaxVersion
        BY <1>11 DEF TreeKept
      <3>8. ASSUME NEW i \in 1 .. k + 1, s[i].kind = "dir", \A l \in i + 1 .. k + 1 : s[l].kind # "dir"
            PROVE  curDir' = s[i].path
        <4>1. i # k + 1
          BY <3>1, <3>8
        <4>2. i \in 1 .. k /\ \A l \in i + 1 .. k : l \in i + 1 .. k + 1
          BY <1>7, <4>1
        <4> QED
          BY <1>7, <3>1, <3>8, <4>2 DEF KnownAfter
      <3>9. ASSUME NEW f \in Files
            PROVE  cvs'[f] = IF \E i \in 1 .. k + 1 : s[i] = FileLine(f, listing[f])
                             THEN listing[f] ELSE 0
        <4>1. s[k + 1] = FileLine(f, listing[f]) <=> f = g
          BY <3>2 DEF FileLine
        <4>2. \A i : i \in 1 .. k + 1 <=> i \in 1 .. k \/ i = k + 1
          BY <1>7
        <4>3. cvs[f] = IF \E i \in 1 .. k : s[i] = FileLine(f, listing[f]) THEN listing[f] ELSE 0
          BY <1>7 DEF KnownAfter
        <4>4. cvs'[f] = IF f = g THEN listing[f] ELSE cvs[f]
          BY <3>6, <3>7
        <4> QED
          BY <4>1, <4>2, <4>3, <4>4
      <3>10. cvs' \in [Files -> 0 .. MaxVersion]
        BY <3>6, <3>7
      <3> QED
        BY <1>1, <3>8, <3>9, <3>10 DEF KnownAfter
    <2> QED
      BY <2>1, <2>2 DEF TreeLine
  <1>13. k + 1 \in 0 .. Len(s)
    BY <1>8, <1>9
  <1>14. TreeArrives'
    <2>1. Reports(s, listing', ToSet(Dirs)) /\ \E n \in 0 .. Len(s) : KnownAfter(s, n)' /\ Follows(s, n)'
      BY <1>1, <1>6, <1>10, <1>12, <1>13
    <2>2. ~loaded
      BY <1>1 DEF Tree, TreeArrives
    <2> QED
      BY <1>1, <1>2, <1>3, <2>1, <2>2 DEF TreeArrives
  <1>15. TreeKept'
    BY <1>1, <1>11, <1>12 DEF TreeKept
  <1> QED
    BY <1>14, <1>15 DEF Tree

(* rdiff lists the repository as it is then. *)
LEMMA ServerDiffsTree ==
  ASSUME Inv, Tree, ServerDiffs
  PROVE  Tree'
  <1>1. /\ step' = step /\ cmd' = cmd /\ up # <<>> /\ up' = <<>> /\ up[Len(up)] = "rdiff"
        /\ head' = head /\ listing' = head /\ cvs' = cvs /\ curDir' = curDir
        /\ root' = root /\ loaded' = loaded
        /\ down' = down \o Append(Differences, Line("ok")) \/ down' = down \o <<Line("error")>>
    BY DEF ServerDiffs, Asked, Answers, Last, reading, kept
  <1>2. step = "reply" /\ cmd.op = "tree" /\ down = <<>>
    <2>1. Len(up) \in Nat /\ Len(up) > 0
      BY <1>1 DEF Inv, Typed
    <2>2. up[Len(up)] \in Finals
      BY <1>1 DEF Finals
    <2> QED
      BY <1>1, <2>1, <2>2 DEF Inv, AskedOnce, Typed, Answering, Sending, Request
  <1>3. ~loaded /\ cvs = Nothing
    BY <1>1, <1>2 DEF Tree, TreeArrives
  <1>4. TreeKept'
    BY <1>1, <1>3 DEF Tree, TreeKept
  <1>5. Line("ok") \in Lines(head) \cup {Line("ok"), Line("error")}
        /\ Line("error") \in Lines(head) \cup {Line("ok"), Line("error")}
    OBVIOUS
  <1>6. CASE down' = down \o Append(Differences, Line("ok"))
    <2>0. PICK s : s = Differences
      OBVIOUS
    <2>1. Reports(s, head, ToSet(Dirs)) /\ s \in Seq(Lines(head)) /\ Len(s) \in Nat
      BY <2>0, DifferencesReport DEF Reports
    <2>2. /\ down' = Append(s, Line("ok"))
          /\ down' \in Seq(Lines(head) \cup {Line("ok"), Line("error")})
          /\ Len(down') = Len(s) + 1
          /\ \A i \in 1 .. Len(s) + 1 : down'[i] = IF i <= Len(s) THEN s[i] ELSE Line("ok")
      <3>1. s \in Seq(Lines(head) \cup {Line("ok"), Line("error")})
        BY <2>1
      <3>2. down' = Append(s, Line("ok"))
        BY <1>2, <1>5, <1>6, <2>0, <3>1
      <3> QED
        BY <1>5, <2>1, <3>1, <3>2
    <2>3. KnownAfter(s, 0)'
      <3>1. 1 .. 0 = {} /\ \A f \in Files : cvs'[f] = 0
        BY <1>1, <1>3 DEF Nothing
      <3> QED
        BY <3>1 DEF KnownAfter
    <2>4. Follows(s, 0)'
      BY <2>1, <2>2 DEF Follows
    <2>5. 0 \in 0 .. Len(s)
      BY <2>1
    <2>6. \E n \in 0 .. Len(s) : KnownAfter(s, n)' /\ Follows(s, n)'
      BY <2>3, <2>4, <2>5
    <2>7. TreeArrives'
      BY <1>1, <1>3, <2>1, <2>2, <2>6 DEF TreeArrives
    <2> QED
      BY <1>4, <2>7 DEF Tree
  <1>7. CASE down' = down \o <<Line("error")>>
    <2>1. down' = <<Line("error")>> /\ down' \in Seq(Lines(head) \cup {Line("ok"), Line("error")})
      BY <1>2, <1>5, <1>7
    <2>2. TreeArrives'
      BY <1>1, <1>3, <2>1 DEF TreeArrives
    <2> QED
      BY <1>4, <2>2 DEF Tree
  <1> QED
    BY <1>1, <1>6, <1>7

(* What a broken connection still brings is a beginning of the answer. *)
LEMMA ServerStopsTree ==
  ASSUME Tree, ServerStops
  PROVE  Tree'
  <1>1. /\ step' = step /\ cmd' = cmd /\ up' = <<>> /\ head' = head /\ listing' = listing
        /\ cvs' = cvs /\ curDir' = curDir /\ root' = root /\ loaded' = loaded
    BY DEF ServerStops, reading, kept, server
  <1>2. PICK n \in 0 .. Len(down) : down' = SubSeq(down, 1, n)
    BY DEF ServerStops
  <1>3. TreeKept'
    BY <1>1 DEF Tree, TreeKept
  <1>4. ASSUME cmd.op = "tree", step = "reply", down' # <<>>
        PROVE  /\ down' \in Seq(Lines(listing) \cup {Line("ok"), Line("error")})
               /\ \/ down' = <<Line("error")>>
                  \/ \E s : /\ Reports(s, listing, ToSet(Dirs))
                            /\ \E k \in 0 .. Len(s) : KnownAfter(s, k)' /\ Follows(s, k)'
    <2>1. down # <<>>
      BY <1>2, <1>4
    <2>2. down \in Seq(Lines(listing) \cup {Line("ok"), Line("error")})
      BY <1>4, <2>1 DEF Tree, TreeArrives
    <2>3. /\ down' \in Seq(Lines(listing) \cup {Line("ok"), Line("error")})
          /\ Len(down) \in Nat /\ Len(down') = n /\ n <= Len(down) /\ \A i \in 1 .. n : down'[i] = down[i]
      BY <1>2, <2>2
    <2>4. CASE down = <<Line("error")>>
      <3>1. Len(down) = 1 /\ n # 0
        BY <1>2, <1>4, <2>3, <2>4
      <3>2. n = 1
        BY <1>2, <3>1
      <3> QED
        BY <1>2, <2>2, <2>3, <2>4, <3>1, <3>2, SubSeqFull
    <2>5. CASE \E s : /\ Reports(s, listing, ToSet(Dirs))
                      /\ \E k \in 0 .. Len(s) : KnownAfter(s, k) /\ Follows(s, k)
      <3>1. PICK s : /\ Reports(s, listing, ToSet(Dirs))
                     /\ \E k \in 0 .. Len(s) : KnownAfter(s, k) /\ Follows(s, k)
        BY <2>5
      <3>2. PICK k \in 0 .. Len(s) : KnownAfter(s, k) /\ Follows(s, k)
        BY <3>1
      <3>3. KnownAfter(s, k)'
        BY <1>1, <3>2 DEF KnownAfter
      <3>4. Len(s) \in Nat
        BY <3>1 DEF Reports
      <3>5. Follows(s, k)'
        BY <2>3, <3>2, <3>4 DEF Follows
      <3> QED
        BY <2>3, <3>1, <3>2, <3>3, <3>5
    <2> QED
      BY <1>4, <2>1, <2>4, <2>5 DEF Tree, TreeArrives
  <1>5. TreeArrives'
    BY <1>1, <1>4 DEF Tree, TreeArrives
  <1> QED
    BY <1>3, <1>5 DEF Tree

(* Steps of the others. *)
LEMMA OthersTree ==
  ASSUME Inv, Tree, ServerGreets \/ ConnectFails \/ (\E f \in Files : Commit(f)) \/ UNCHANGED vars
  PROVE  Tree'
  <1>1. CASE ServerGreets
    <2>1. /\ step' = step /\ cmd' = cmd /\ head' = head /\ listing' = listing /\ cvs' = cvs
          /\ root' = root /\ loaded' = loaded
          /\ up # <<>> /\ up[Len(up)] \in {"endauth", "endverify"}
      BY <1>1 DEF ServerGreets, Asked, Answers, Last, reading, kept
    <2>2. step # "reply"
      <3>1. up[Len(up)] # Request
        BY <2>1 DEF Request
      <3> QED
        BY <2>1, <3>1 DEF Inv, AskedOnce, Answering
    <2> QED
      BY <2>1, <2>2 DEF Tree, TreeKept, TreeArrives
  <1>2. CASE ConnectFails \/ (\E f \in Files : Commit(f)) \/ UNCHANGED vars
    <2>1. /\ step' = step /\ cmd' = cmd /\ listing' = listing /\ cvs' = cvs /\ curDir' = curDir
          /\ root' = root /\ loaded' = loaded /\ up' = up /\ down' = down
      BY <1>2 DEF ConnectFails, Commit, vars, wire, reading, kept
    <2>2. TreeKept
      BY DEF Tree
    <2>3. head' \in [Files -> 0 .. MaxVersion]
      <3>1. head' = head \/ \E f \in Files, v \in Nat : v <= MaxVersion /\ head' = [head EXCEPT ![f] = v]
        BY <1>2, <2>2 DEF ConnectFails, Commit, vars, server, TreeKept
      <3>2. head \in [Files -> 0 .. MaxVersion]
        BY <2>2 DEF TreeKept
      <3> QED
        BY <3>1, <3>2
    <2>4. TreeKept'
      BY <2>1, <2>2, <2>3 DEF TreeKept
    <2>5. TreeArrives'
      BY <2>1 DEF Tree, TreeArrives, KnownAfter, Follows
    <2> QED
      BY <2>4, <2>5 DEF Tree
  <1> QED
    BY <1>1, <1>2

LEMMA StepTree ==
  ASSUME Inv, Tree, [Next]_vars
  PROVE  Tree'
  <1>1. ASSUME DaemonStep
        PROVE  Tree'
    <2>1. SendFails \/ Timeout \/ Unwelcome \/ Refused => Tree'
      BY FailTree DEF SendFails, Timeout, Unwelcome, Refused
    <2> QED
      BY <1>1, <2>1, SendTree, SendKillsTree, WelcomeTree, FinishedTree, TreeLineTree,
         OtherLinesTree
      DEF DaemonStep
  <1>2. ASSUME ServerStep
        PROVE  Tree'
    BY <1>2, OthersTree, ServerDiffsTree, OtherLinesTree, ServerStopsTree DEF ServerStep
  <1>3. ASSUME Test \/ LoadCvsTree
        PROVE  Tree'
    BY <1>3, BeginTree DEF Test, LoadCvsTree
  <1>4. ASSUME NEW f \in Files, NEW v, LoadAttribute(f, v) \/ LoadFile(f, v)
        PROVE  Tree'
    BY <1>4, BeginTree DEF LoadAttribute, LoadFile
  <1> QED
    BY <1>1, <1>2, <1>3, <1>4, OthersTree DEF Next

(* The tree a daemon serves is the repository as one rdiff has listed it,  *)
(* for every repository, every order of its directories and whatever       *)
(* breaks: an answer that stops half way is not taken for a tree.          *)
THEOREM TreeIsWhatWasListed == Spec => []TreeIsListing
  <1>1. Inv /\ Inv' /\ Tree /\ [Next]_vars => Tree'
    BY StepTree
  <1>2. Tree => TreeIsListing
    BY DEF Tree, TreeKept, TreeIsListing
  <1> QED
    BY <1>1, <1>2, InitTree, SessionInductive, PTL DEF Spec
----------------------------------------------------------------------------
(* A session and its connection begin and end together.                    *)
Joined ==
  /\ link \in {"none", "up", "silent"} \cup Closed
  /\ (cmd = Idle <=> step = "idle") /\ (cmd = Idle <=> link = "none")

Sockets == spare \in {"unset", "socket", "bad"} /\ fds \in 0 .. MaxOpen /\ (spare = "socket" => fds > 0)

LEMMA StepJoined ==
  ASSUME Inv, Joined, [Next]_vars
  PROVE  Joined'
  <1>1. ASSUME EndSession
        PROVE  Joined'
    BY <1>1 DEF EndSession, Joined, Closed
  <1>2. ASSUME NEW op, NEW f, NEW v, Begin(op, f, v), op # "idle"
        PROVE  Joined'
    <2>1. cmd' # Idle /\ step' = "login" /\ link' = "up"
      BY <1>2 DEF Begin, Connect, Idle
    <2> QED
      BY <2>1 DEF Joined
  <1>3. ASSUME cmd' = cmd, link' = link, step' = step \/ (step # "idle" /\ step' # "idle")
        PROVE  Joined'
    BY <1>3 DEF Joined
  <1>4. ASSUME Send
        PROVE  Joined'
    <2>1. step # "idle"
      BY <1>4 DEF Send, Inv, SendOrder, Sending
    <2> QED
      BY <1>3, <1>4, <2>1 DEF Send, AfterSend
  <1>5. ASSUME SendKills
        PROVE  Joined'
    BY <1>5 DEF SendKills, Joined, Closed
  <1>6. ASSUME DaemonStep
        PROVE  Joined'
    <2>1. SendFails \/ Timeout \/ Unwelcome \/ Refused \/ Finished \/ ShortSize => EndSession
      BY DEF SendFails, Timeout, Unwelcome, Refused, Finished, ShortSize, Fail, Succeed
    <2>2. Welcome => EndSession \/ (cmd' = cmd /\ link' = link /\ step # "idle" /\ step' # "idle")
      BY DEF Welcome, Succeed, Take, Go
    <2>3. TreeLine \/ AttributeLine => cmd' = cmd /\ link' = link /\ step # "idle" /\ step' # "idle"
      BY DEF TreeLine, AttributeLine, Take, Go
    <2>4. SizeLine => EndSession \/ (cmd' = cmd /\ link' = link /\ step # "idle" /\ step' # "idle")
      BY DEF SizeLine, EndsWith, Take
    <2>5. DataBlock => cmd' = cmd /\ link' = link /\ step # "idle" /\ step' # "idle"
      BY DEF DataBlock, Take
    <2> QED
      BY <1>1, <1>3, <1>4, <1>5, <1>6, <2>1, <2>2, <2>3, <2>4, <2>5 DEF DaemonStep
  <1>7. ASSUME ServerStep
        PROVE  Joined'
    <2>1. CASE ServerStops
      BY <2>1 DEF ServerStops, Joined, Closed
    <2>2. CASE ServerGreets \/ ServerDiffs \/ ServerSends
      BY <1>3, <2>2 DEF ServerGreets, ServerDiffs, ServerSends, Answers
    <2> QED
      BY <1>7, <2>1, <2>2 DEF ServerStep
  <1>8. ASSUME ConnectFails \/ (\E f \in Files : Commit(f)) \/ UNCHANGED vars
        PROVE  Joined'
    BY <1>3, <1>8 DEF ConnectFails, Commit, vars, wire
  <1> QED
    BY <1>2, <1>6, <1>7, <1>8 DEF Next, Test, LoadCvsTree, LoadAttribute, LoadFile

LEMMA StepSockets ==
  ASSUME Sockets, [Next]_vars
  PROVE  Sockets'
  <1> USE SessionAssumption
  <1>1. ASSUME NEW op, NEW f, NEW v, Begin(op, f, v)
        PROVE  Sockets'
    BY <1>1 DEF Begin, Connect, Available, Sockets
  <1>2. ASSUME ConnectFails
        PROVE  Sockets'
    BY <1>2 DEF ConnectFails, Sockets
  <1>3. ASSUME SendKills
        PROVE  Sockets'
    BY <1>3 DEF SendKills, Sockets
  <1>4. ASSUME UNCHANGED <<spare, fds>>
        PROVE  Sockets'
    BY <1>4 DEF Sockets
  <1>5. DaemonStep => SendKills \/ UNCHANGED <<spare, fds>>
    BY DEF DaemonStep, Send, SendFails, Timeout, Welcome, Unwelcome, Finished, Refused,
       TreeLine,
       AttributeLine, SizeLine, ShortSize, DataBlock, Fail, Succeed, EndSession, Go,
       sockets
  <1>6. ServerStep \/ (\E f \in Files : Commit(f)) => UNCHANGED <<spare, fds>>
    BY DEF ServerStep, ServerGreets, ServerDiffs, ServerSends, ServerStops, Answers,
       Commit, sockets
  <1>7. UNCHANGED vars => UNCHANGED <<spare, fds>>
    BY DEF vars, sockets
  <1> QED
    BY <1>1, <1>2, <1>3, <1>4, <1>5, <1>6, <1>7
    DEF Next, Test, LoadCvsTree, LoadAttribute, LoadFile

(* Every variable of a session, of the caches and of the sockets keeps its *)
(* type, and a connection lasts exactly as long as its command.            *)
THEOREM SessionTypeCorrect == Spec => []TypeOK
  <1>1. Init => Joined /\ Sockets
    <2>1. 0 \in 0 .. MaxOpen
      BY SessionAssumption
    <2> QED
      BY <2>1 DEF Init, Joined, Sockets
  <1>2. Inv /\ Joined /\ Sockets /\ [Next]_vars => Joined' /\ Sockets'
    BY StepJoined, StepSockets
  <1>3. Inv /\ Tree /\ [Next]_vars => Tree'
    BY StepTree
  <1>4. Inv /\ Tree /\ Joined /\ Sockets => TypeOK
    <2> SUFFICES ASSUME Inv, Tree, Joined, Sockets
                 PROVE  TypeOK
      OBVIOUS
    <2>1. link = "none" => up = <<>> /\ down = <<>>
      BY DEF Joined, Inv, AskedOnce, Answering
    <2>2. step \in {"idle", "login", "greeting", "prepare", "command", "reply", "data"}
      BY DEF Inv, Typed, Sending, Answering
    <2>3. TreeKept /\ Typed
      BY DEF Tree, Inv
    <2> QED
      BY <2>1, <2>2, <2>3 DEF TypeOK, Joined, Sockets, TreeKept, Typed, Known
  <1> QED
    BY <1>1, <1>2, <1>3, <1>4, InitTree, SessionInductive, PTL DEF Spec
=============================================================================
