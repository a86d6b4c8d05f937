------------------------ MODULE SuperblockListProofs ------------------------
(***************************************************************************)
(* Invariants of SuperblockList for every set of mounts, mount points and  *)
(* cvsfsd processes and every max_mounts.                                  *)
(***************************************************************************)
EXTENDS SuperblockList, WellFoundedInduction, FiniteSetTheorems, TLAPS

(* The parts of TypeOK. *)
ListTyped ==
  /\ root \in Mounts \cup {Nil}
  /\ next \in [Mounts -> Mounts \cup {Nil}] /\ prev \in [Mounts -> Mounts \cup {Nil}]
NamesTyped ==
  /\ at \in [Mounts -> Listed \cup {"new", "checked", "stuck", "gone"}]
  /\ point \in [Mounts -> Points \cup {Nil}]
  /\ id \in [Mounts -> AllIds] /\ text \in [Mounts -> AllIds]
DeviceTyped ==
  /\ ready \in [Mounts -> BOOLEAN] /\ inUse \in [Mounts -> {0, 1}]
  /\ notified \in [Mounts -> BOOLEAN] /\ unmounting \in [Mounts -> BOOLEAN]
  /\ quit \in [Mounts -> BOOLEAN]
ControlTyped ==
  /\ control \in {"off", "scan", "queue", "asleep", "rescan", "read", "start"}
  /\ arg \in AllIds /\ restarts \in 0 .. MaxRestarts /\ forsaken \subseteq Mounts
ProcsTyped ==
  /\ proc \in [Procs -> {"none", "started", "found", "open", "stuck", "exit"}]
  /\ minor \in [Procs -> AllIds] /\ file \in [Procs -> Mounts \cup {Nil}]

Typed == ListTyped /\ NamesTyped /\ DeviceTyped /\ ControlTyped /\ ProcsTyped

Serves(p) == proc[p] \in {"open", "exit"}

(* A cvsfsd that looked its device up has a superblock. *)
HasFile == \A p \in Procs : proc[p] \in {"found", "open", "stuck", "exit"} => file[p] \in Mounts

(* in_use counts the cvsfsd that has the device of a mount open. *)
CountedInUse ==
  \A p \in Procs :
    Serves(p) => \/ at[file[p]] = "gone"
                 \/ inUse[file[p]] = 1 /\ ready[file[p]]

(* The device of a mount is initialised by user_init, not before. *)
NotReadyYet ==
  \A m \in Mounts :
    at[m] \in {"new", "checked", "added", "named", "device"} => ~ready[m]

Inv == Typed /\ HasFile /\ CountedInUse /\ NotReadyYet /\ OneDaemon
----------------------------------------------------------------------------
(* A set of numbers that is not empty has a smallest one. *)
LEMMA Smallest ==
  ASSUME NEW T, T \subseteq Nat, T # {}
  PROVE  \E i \in T : \A j \in T : i <= j
  <1> DEFINE R == {ss \in Nat \X Nat : ss[1] < ss[2]}
  <1>1. IsWellFoundedOn(R, Nat)
    BY NatLessThanWellFounded DEF OpToRel
  <1>2. PICK i \in T : \A j \in T : ~(<<j, i>> \in R)
    <2> HIDE DEF R
    <2> QED
      BY <1>1, WFMin
  <1>3. ASSUME NEW j \in T
        PROVE  i <= j
    <2>1. j < i => <<j, i>> \in R
      OBVIOUS
    <2> QED
      BY <1>2, <2>1
  <1> QED
    BY <1>3

(* add_superblock gives out the smallest id that no listed mount has.      *)
LEMMA IdChosen ==
  ASSUME NEW m \in Mounts, Typed, AddSuperblock(m)
  PROVE  /\ id' = [id EXCEPT ![m] = id'[m]]
         /\ id'[m] = 0 \/ id'[m] \in FreeIds
         /\ id' \in [Mounts -> AllIds]
  <1> DEFINE I == IF FreeIds = {} THEN 0
                  ELSE CHOOSE i \in FreeIds : \A j \in FreeIds : i <= j
  <1>1. id' = [id EXCEPT ![m] = I] /\ id \in [Mounts -> AllIds]
    BY DEF AddSuperblock, Typed, NamesTyped
  <1>2. FreeIds \subseteq AllIds /\ AllIds \subseteq Nat /\ 0 \in AllIds
    BY ListAssumption DEF FreeIds, AllIds
  <1>3. I = 0 \/ I \in FreeIds
    BY <1>2, Smallest
  <1> HIDE DEF I
  <1> QED
    BY <1>1, <1>2, <1>3

LEMMA InitInv == Init => Inv
  <1> USE DEF Init, Inv
  <1>1. Init => Typed
    BY ListAssumption
    DEF Typed, ListTyped, NamesTyped, DeviceTyped, ControlTyped, ProcsTyped,
        AllIds, Listed
  <1>2. Init => HasFile /\ CountedInUse /\ NotReadyYet /\ OneDaemon
    BY DEF HasFile, CountedInUse, Serves, NotReadyYet, OneDaemon
  <1> QED
    BY <1>1, <1>2
----------------------------------------------------------------------------
LEMMA StepTyped == Typed /\ [Next]_vars => Typed'
  <1> SUFFICES ASSUME Typed, [Next]_vars
               PROVE  Typed'
    OBVIOUS
  <1>0. ASSUME NEW m \in Mounts, AddSuperblock(m)
        PROVE  Typed'
    <2>1. id' \in [Mounts -> AllIds]
      BY <1>0, IdChosen
    <2> QED
      BY <1>0, <2>1
      DEF AddSuperblock, At, Typed, ListTyped, NamesTyped, DeviceTyped,
          ControlTyped, ProcsTyped, Listed, deviceVars, ctlVars, procVars
  <1> USE ListAssumption
      DEF Typed, ListTyped, NamesTyped, DeviceTyped, ControlTyped, ProcsTyped,
          AllIds, Listed, At, Ends, Freed, WakeControl,
          listVars, nameVars, deviceVars, ctlVars, procVars
  <1>1. ASSUME NEW m \in Mounts, NEW p \in Points, ReadSuper(m, p)
        PROVE  Typed'
    BY <1>1 DEF ReadSuper
  <1>2. ASSUME NEW m \in Mounts, SetIdString(m)
        PROVE  Typed'
    BY <1>2 DEF SetIdString
  <1>3. ASSUME NEW m \in Mounts, ProcfsUserInit(m)
        PROVE  Typed'
    BY <1>3 DEF ProcfsUserInit
  <1>4. ASSUME NEW m \in Mounts, DevfsUserInit(m)
        PROVE  Typed'
    BY <1>4 DEF DevfsUserInit
  <1>5. ASSUME NEW m \in Mounts, DevfsUserCleanup(m)
        PROVE  Typed'
    BY <1>5 DEF DevfsUserCleanup
  <1>6. ASSUME NEW m \in Mounts, CleanupEnds(m)
        PROVE  Typed'
    BY <1>6 DEF CleanupEnds
  <1>7. ASSUME NEW m \in Mounts, RemoveSuperblock(m)
        PROVE  Typed'
    BY <1>7 DEF RemoveSuperblock
  <1>8. ASSUME ControlStart
        PROVE  Typed'
    BY <1>8 DEF ControlStart
  <1>9. ASSUME ControlPoll \/ PollWait
        PROVE  Typed'
    BY <1>9 DEF ControlPoll, PollWait
  <1>10. ASSUME ControlRead
         PROVE  Typed'
    <2>1. ASSUME NEW m \in Mounts, notified' = [notified EXCEPT ![m] = TRUE],
                 arg' = text[m]
          PROVE  notified' \in [Mounts -> BOOLEAN] /\ arg' \in AllIds
      BY <2>1
    <2>2. notified' \in [Mounts -> BOOLEAN] /\ arg' \in AllIds
      BY <1>10, <2>1 DEF ControlRead
    <2> QED
      BY <1>10, <2>2 DEF ControlRead
  <1>11. ASSUME NEW p \in Procs, StartDaemon(p)
         PROVE  Typed'
    BY <1>11 DEF StartDaemon
  <1>12. ASSUME ControlRelease
         PROVE  Typed'
    <2>1. notified' \in [Mounts -> BOOLEAN]
      <3> HIDE DEF WakeControl
      <3> QED
        BY <1>12, Zenon DEF ControlRelease
    <2>2. /\ control' = "off" /\ arg' = 0
          /\ UNCHANGED <<listVars, at, nameVars, ready, inUse, unmounting, quit,
                         restarts, forsaken, procVars>>
      BY <1>12, Zenon DEF ControlRelease
    <2> QED
      BY <2>1, <2>2
  <1>13. ASSUME NEW p \in Procs, DevfsFind(p)
         PROVE  Typed'
    BY <1>13 DEF DevfsFind
  <1>14. ASSUME NEW p \in Procs, DevfsOpen(p)
         PROVE  Typed'
    BY <1>14 DEF DevfsOpen
  <1>15. ASSUME NEW p \in Procs, TakeQuit(p) \/ Kill(p)
         PROVE  Typed'
    BY <1>15 DEF TakeQuit, Kill
  <1>18. ASSUME NEW p \in Procs, EndsUnopened(p)
         PROVE  Typed'
    <2>1. forsaken' \subseteq Mounts
      BY <1>18 DEF EndsUnopened
    <2> QED
      BY <1>18, <2>1 DEF EndsUnopened
  <1>16. ASSUME NEW p \in Procs, DevfsRelease(p)
         PROVE  Typed'
    <2>1. notified' \in [Mounts -> BOOLEAN]
      <3>1. PICK b \in BOOLEAN : notified' = [notified EXCEPT ![file[p]] = b]
        BY <1>16, Zenon DEF DevfsRelease
      <3> QED
        BY <3>1
    <2> QED
      BY <1>16, <2>1 DEF DevfsRelease
  <1>17. ASSUME UNCHANGED vars
         PROVE  Typed'
    BY <1>17 DEF vars
  <1> QED
    BY <1>0, <1>1, <1>2, <1>3, <1>4, <1>5, <1>6, <1>7, <1>8, <1>9, <1>10,
       <1>11, <1>12, <1>13, <1>14, <1>15, <1>16, <1>17, <1>18
    DEF Next, Mounting, Unmounting, ControlStep, ProcStep
----------------------------------------------------------------------------
Served == HasFile /\ CountedInUse /\ NotReadyYet /\ OneDaemon

LEMMA StepServed == Inv /\ [Next]_vars => Served'
  <1> SUFFICES ASSUME Inv, [Next]_vars
               PROVE  Served'
    OBVIOUS
  <1> USE DEF Inv, Typed, NamesTyped, DeviceTyped, ProcsTyped, Served,
      HasFile, CountedInUse, Serves, NotReadyYet, OneDaemon, At, Ends, Freed,
      listVars, nameVars, deviceVars, ctlVars, procVars
  <1>1. ASSUME NEW m \in Mounts, NEW p \in Points, ReadSuper(m, p)
        PROVE  Served'
    BY <1>1 DEF ReadSuper
  <1>2. ASSUME NEW m \in Mounts, AddSuperblock(m)
        PROVE  Served'
    BY <1>2 DEF AddSuperblock
  <1>3. ASSUME NEW m \in Mounts, SetIdString(m)
        PROVE  Served'
    BY <1>3 DEF SetIdString
  <1>4. ASSUME NEW m \in Mounts, ProcfsUserInit(m)
        PROVE  Served'
    BY <1>4 DEF ProcfsUserInit
  <1>5. ASSUME NEW m \in Mounts, DevfsUserInit(m)
        PROVE  Served'
    BY <1>5 DEF DevfsUserInit
  <1>6. ASSUME NEW m \in Mounts, DevfsUserCleanup(m)
        PROVE  Served'
    BY <1>6 DEF DevfsUserCleanup
  <1>7. ASSUME NEW m \in Mounts, CleanupEnds(m)
        PROVE  Served'
    BY <1>7 DEF CleanupEnds
  <1>8. ASSUME NEW m \in Mounts, RemoveSuperblock(m)
        PROVE  Served'
    BY <1>8 DEF RemoveSuperblock
  <1>9. ASSUME ControlStart \/ ControlPoll \/ PollWait \/ ControlRead \/ ControlRelease
        PROVE  Served'
    <2>1. UNCHANGED <<at, ready, inUse, proc, file>>
      BY <1>9, Zenon
      DEF ControlStart, ControlPoll, PollWait, ControlRead, ControlRelease
    <2> QED
      BY <2>1
  <1>10. ASSUME NEW p \in Procs, StartDaemon(p)
        PROVE  Served'
    BY <1>10 DEF StartDaemon
  <1>11. ASSUME NEW p \in Procs, DevfsFind(p)
        PROVE  Served'
    BY <1>11 DEF DevfsFind
  <1>12. ASSUME NEW p \in Procs, DevfsOpen(p)
        PROVE  Served'
    BY <1>12 DEF DevfsOpen
  <1>13. ASSUME NEW p \in Procs, TakeQuit(p) \/ Kill(p) \/ EndsUnopened(p)
        PROVE  Served'
    BY <1>13 DEF TakeQuit, Kill, EndsUnopened, Ends
  <1>14. ASSUME NEW p \in Procs, DevfsRelease(p)
        PROVE  Served'
    BY <1>14 DEF DevfsRelease
  <1>15. ASSUME UNCHANGED vars
        PROVE  Served'
    BY <1>15 DEF vars
  <1> QED
    BY <1>1, <1>2, <1>3, <1>4, <1>5, <1>6, <1>7, <1>8, <1>9, <1>10, <1>11, <1>12,
       <1>13, <1>14, <1>15
    DEF Next, Mounting, Unmounting, ControlStep, ProcStep

(* The invariant the theorems rest on is kept by every step. *)
THEOREM ListInductive == Spec => []Inv
  <1>1. Inv /\ [Next]_vars => Inv'
    BY StepTyped, StepServed DEF Inv, Served
  <1> QED
    BY <1>1, InitInv, PTL DEF Spec

(* Every variable keeps its type for every set of mounts and processes;    *)
(* the ids add_superblock gives out are at most max_mounts + 1.            *)
THEOREM ListTypeCorrect == Spec => []TypeOK
  <1>1. Inv => TypeOK
    BY DEF Inv, Typed, ListTyped, NamesTyped, DeviceTyped, ControlTyped,
       ProcsTyped, TypeOK
  <1> QED
    BY <1>1, ListInductive, PTL

(* No mount is served by two daemons, however many the control daemon      *)
(* starts: open refuses a device in use, and user_init, which resets       *)
(* in_use, runs before any daemon can have it open.                        *)
THEOREM OneDaemonEach == Spec => []OneDaemon
  <1>1. Inv => OneDaemon
    BY DEF Inv
  <1> QED
    BY <1>1, ListInductive, PTL
----------------------------------------------------------------------------
(* The superblocks that were added and not yet removed are in the list     *)
(* once each: s has them in their order, and next and prev follow it.      *)
OnList == {m \in Mounts : at[m] \in Listed \cup {"stuck"}}

Ordered(s, k) ==
  /\ s \in [1 .. k -> Mounts]
  /\ \A i, j \in 1 .. k : s[i] = s[j] => i = j
  /\ \A m \in Mounts : m \in OnList <=> \E i \in 1 .. k : s[i] = m
  /\ root = IF k = 0 THEN Nil ELSE s[1]
  /\ \A i \in 1 .. k : /\ next[s[i]] = IF i = k THEN Nil ELSE s[i + 1]
                       /\ prev[s[i]] = IF i = 1 THEN Nil ELSE s[i - 1]

Chained == \E k \in Nat : \E s : Ordered(s, k)

(* Two functions on 1 .. n are the same if a place where they first differ *)
(* cannot be found.                                                        *)
LEMMA FirstDifference ==
  ASSUME NEW n \in Nat, NEW f, NEW g,
         \A i \in 1 .. n : (\A j \in 1 .. i - 1 : f[j] = g[j]) => f[i] = g[i]
  PROVE  \A i \in 1 .. n : f[i] = g[i]
  <1> DEFINE D == {i \in 1 .. n : f[i] # g[i]}
  <1>1. D # {} => \E i \in D : \A j \in D : i <= j
    <2>1. D \subseteq Nat
      OBVIOUS
    <2> HIDE DEF D
    <2> QED
      BY <2>1, Smallest
  <1> SUFFICES ASSUME D # {} PROVE FALSE
    OBVIOUS
  <1>2. PICK i \in D : \A j \in D : i <= j
    BY <1>1
  <1>3. ASSUME NEW j \in 1 .. i - 1 PROVE f[j] = g[j]
    <2>1. j \in 1 .. n /\ ~(i <= j)
      OBVIOUS
    <2> QED
      BY <1>2, <2>1
  <1> QED
    BY <1>2, <1>3

(* A walk over the list meets them in their order, and then the end.       *)
LEMMA WalkIs ==
  ASSUME Typed, NEW k \in Nat, NEW s, Ordered(s, k)
  PROVE  /\ k <= Length /\ Length \in Nat
         /\ \A n \in 1 .. Length : Walk[n] = IF n <= k THEN s[n] ELSE Nil
  <1>1. k <= Length /\ Length \in Nat
    <2>1. s \in Injection(1 .. k, Mounts)
      BY DEF Ordered, Injection, IsInjective
    <2>2. IsFiniteSet(Mounts) /\ Cardinality(1 .. k) = k
      BY ListAssumption, FS_Interval
    <2> QED
      BY <2>1, <2>2, FS_Injection, FS_CardinalityType DEF Length
  <1> DEFINE G == [n \in 1 .. Length |-> IF n <= k THEN s[n] ELSE Nil]
             F(W) == [n \in 1 .. Length |->
                        IF n = 1 THEN root
                        ELSE IF W[n - 1] = Nil THEN Nil ELSE next[W[n - 1]]]
  <1>2. G = F(G)
    <2>1. ASSUME NEW n \in 1 .. Length
          PROVE  G[n] = IF n = 1 THEN root
                        ELSE IF G[n - 1] = Nil THEN Nil ELSE next[G[n - 1]]
      <3>1. CASE n = 1
        BY <1>1, <3>1 DEF Ordered
      <3>2. CASE n # 1
        <4>1. n - 1 \in 1 .. Length /\ n - 1 + 1 = n
          BY <1>1, <3>2
        <4>2. CASE n - 1 <= k
          <5>1. G[n - 1] = s[n - 1] /\ n - 1 \in 1 .. k /\ s[n - 1] \in Mounts
            BY <1>1, <4>1, <4>2 DEF Ordered
          <5>2. next[s[n - 1]] = IF n - 1 = k THEN Nil ELSE s[n]
            BY <4>1, <5>1 DEF Ordered
          <5> QED
            BY <1>1, <3>2, <4>1, <4>2, <5>1, <5>2, ListAssumption
        <4>3. CASE ~(n - 1 <= k)
          BY <1>1, <3>2, <4>1, <4>3
        <4> QED
          BY <4>2, <4>3
      <3> QED
        BY <3>1, <3>2
    <2> QED
      BY <2>1
  <1>3. Walk = F(Walk)
    <2>1. Walk = CHOOSE W : W = F(W)
      BY DEF Walk
    <2> QED
      BY <1>2, <2>1
  <1>4. ASSUME NEW n \in 1 .. Length, \A j \in 1 .. n - 1 : Walk[j] = G[j]
        PROVE  Walk[n] = G[n]
    <2>1. n # 1 => Walk[n - 1] = G[n - 1]
      BY <1>1, <1>4
    <2> HIDE DEF G
    <2>2. /\ Walk[n] = IF n = 1 THEN root
                       ELSE IF Walk[n - 1] = Nil THEN Nil ELSE next[Walk[n - 1]]
          /\ G[n] = IF n = 1 THEN root
                    ELSE IF G[n - 1] = Nil THEN Nil ELSE next[G[n - 1]]
      BY <1>2, <1>3
    <2> QED
      BY <2>1, <2>2
  <1>5. \A n \in 1 .. Length : Walk[n] = G[n]
    <2> HIDE DEF G
    <2> QED
      BY <1>1, <1>4, FirstDifference
  <1> QED
    BY <1>1, <1>5

LEMMA ChainedComplete ==
  ASSUME Typed, Chained
  PROVE  InList = OnList
  <1>1. PICK k \in Nat : \E s : Ordered(s, k)
    BY DEF Chained
  <1>2. PICK s : Ordered(s, k)
    BY <1>1
  <1>3. /\ k <= Length /\ Length \in Nat
        /\ \A n \in 1 .. Length : Walk[n] = IF n <= k THEN s[n] ELSE Nil
    BY <1>2, WalkIs
  <1>4. ASSUME NEW m \in InList PROVE m \in OnList
    <2>1. PICK n \in 1 .. Length : m = Walk[n] /\ m # Nil
      BY DEF InList
    <2>2. n \in 1 .. k /\ m = s[n]
      BY <1>3, <2>1
    <2> QED
      BY <1>2, <2>2 DEF Ordered
  <1>5. ASSUME NEW m \in OnList PROVE m \in InList
    <2>1. PICK i \in 1 .. k : s[i] = m
      BY <1>2 DEF Ordered, OnList
    <2>2. i \in 1 .. Length /\ Walk[i] = m /\ m # Nil
      BY <1>3, <2>1, ListAssumption DEF OnList
    <2> QED
      BY <2>2 DEF InList
  <1> QED
    BY <1>4, <1>5
----------------------------------------------------------------------------
(* cvsfs_add_superblock puts the new superblock in front. *)
LEMMA AddChained ==
  ASSUME Typed, Chained, NEW m \in Mounts, AddSuperblock(m)
  PROVE  Chained'
  <1>1. PICK k \in Nat : \E s : Ordered(s, k)
    BY DEF Chained
  <1>2. PICK s : Ordered(s, k)
    BY <1>1
  <1>3. /\ s \in [1 .. k -> Mounts]
        /\ \A i, j \in 1 .. k : s[i] = s[j] => i = j
        /\ \A x \in Mounts : x \in OnList <=> \E i \in 1 .. k : s[i] = x
        /\ root = IF k = 0 THEN Nil ELSE s[1]
        /\ \A i \in 1 .. k : /\ next[s[i]] = IF i = k THEN Nil ELSE s[i + 1]
                             /\ prev[s[i]] = IF i = 1 THEN Nil ELSE s[i - 1]
    BY <1>2 DEF Ordered
  <1>4. /\ root' = m /\ m # Nil
        /\ \A x \in Mounts : next'[x] = IF x = m THEN root ELSE next[x]
        /\ \A x \in Mounts : prev'[x] = IF x = m THEN Nil ELSE IF x = root THEN m ELSE prev[x]
        /\ m \notin OnList /\ \A x \in Mounts : x \in OnList' <=> x = m \/ x \in OnList
    BY ListAssumption DEF AddSuperblock, At, Typed, ListTyped, NamesTyped, OnList, Listed
  <1> DEFINE t == [i \in 1 .. k + 1 |-> IF i = 1 THEN m ELSE s[i - 1]]
  <1>5. /\ t \in [1 .. k + 1 -> Mounts] /\ t[1] = m
        /\ \A i \in 1 .. k + 1 : i # 1 => i - 1 \in 1 .. k /\ t[i] = s[i - 1] /\ t[i] # m
        /\ \A i \in 1 .. k : i + 1 \in 1 .. k + 1 /\ t[i + 1] = s[i]
    BY <1>3, <1>4
  <1> HIDE DEF t
  <1>6. \A i, j \in 1 .. k + 1 : t[i] = t[j] => i = j
    <2> SUFFICES ASSUME NEW i \in 1 .. k + 1, NEW j \in 1 .. k + 1, t[i] = t[j]
                 PROVE  i = j
      OBVIOUS
    <2>1. CASE i = 1 \/ j = 1
      BY <1>5, <2>1
    <2>2. CASE i # 1 /\ j # 1
      <3>1. i - 1 = j - 1
        BY <1>3, <1>5, <2>2
      <3> QED
        BY <3>1
    <2> QED
      BY <2>1, <2>2
  <1>7. \A x \in Mounts : x \in OnList' <=> \E i \in 1 .. k + 1 : t[i] = x
    <2>1. ASSUME NEW x \in Mounts, x \in OnList' PROVE \E i \in 1 .. k + 1 : t[i] = x
      <3>1. CASE x = m
        BY <1>5, <3>1
      <3>2. CASE x \in OnList
        BY <1>3, <1>5, <3>2
      <3> QED
        BY <1>4, <2>1, <3>1, <3>2
    <2>2. ASSUME NEW x \in Mounts, NEW i \in 1 .. k + 1, t[i] = x PROVE x \in OnList'
      BY <1>3, <1>4, <1>5, <2>2
    <2> QED
      BY <2>1, <2>2
  <1>8. ASSUME NEW i \in 1 .. k + 1
        PROVE  /\ next'[t[i]] = IF i = k + 1 THEN Nil ELSE t[i + 1]
               /\ prev'[t[i]] = IF i = 1 THEN Nil ELSE t[i - 1]
    <2>1. CASE i = 1
      <3>1. next'[m] = root /\ prev'[m] = Nil
        BY <1>4
      <3>2. root = IF k = 0 THEN Nil ELSE t[2]
        BY <1>3, <1>5
      <3> QED
        BY <1>5, <2>1, <3>1, <3>2
    <2>2. CASE i # 1
      <3>1. i - 1 \in 1 .. k /\ t[i] = s[i - 1] /\ t[i] # m /\ s[i - 1] \in Mounts
        BY <1>3, <1>5, <2>2
      <3>2. next'[t[i]] = IF i - 1 = k THEN Nil ELSE s[i - 1 + 1]
        BY <1>3, <1>4, <3>1
      <3>3. prev'[t[i]] = IF t[i] = root THEN m ELSE IF i - 1 = 1 THEN Nil ELSE s[i - 1 - 1]
        BY <1>3, <1>4, <3>1
      <3>4. t[i] = root <=> i = 2
        BY <1>3, <3>1
      <3>5. i # k + 1 => t[i + 1] = s[i]
        <4>1. i # k + 1 => i \in 1 .. k
          BY <2>2
        <4> QED
          BY <1>5, <4>1
      <3>6. i # 2 => t[i - 1] = s[i - 2]
        <4>1. i # 2 => i - 1 \in 1 .. k + 1 /\ i - 1 # 1
          BY <2>2
        <4> QED
          BY <1>5, <4>1
      <3> QED
        BY <1>5, <2>2, <3>1, <3>2, <3>3, <3>4, <3>5, <3>6
    <2> QED
      BY <2>1, <2>2
  <1>9. Ordered(t, k + 1)'
    <2>1. root' = IF k + 1 = 0 THEN Nil ELSE t[1]
      BY <1>4, <1>5
    <2> QED
      BY <1>5, <1>6, <1>7, <1>8, <2>1 DEF Ordered
  <1>10. k + 1 \in Nat
    OBVIOUS
  <1> QED
    BY <1>9, <1>10 DEF Chained

(* cvsfs_remove_superblock takes it out and joins its neighbours. *)
LEMMA RemoveChained ==
  ASSUME Typed, Chained, NEW m \in Mounts, RemoveSuperblock(m)
  PROVE  Chained'
  <1>1. PICK k \in Nat : \E s : Ordered(s, k)
    BY DEF Chained
  <1>2. PICK s : Ordered(s, k)
    BY <1>1
  <1>3. /\ s \in [1 .. k -> Mounts]
        /\ \A i, j \in 1 .. k : s[i] = s[j] => i = j
        /\ \A x \in Mounts : x \in OnList <=> \E i \in 1 .. k : s[i] = x
        /\ root = IF k = 0 THEN Nil ELSE s[1]
        /\ \A i \in 1 .. k : /\ next[s[i]] = IF i = k THEN Nil ELSE s[i + 1]
                             /\ prev[s[i]] = IF i = 1 THEN Nil ELSE s[i - 1]
    BY <1>2 DEF Ordered
  <1>4. /\ root' = IF prev[m] = Nil THEN next[m] ELSE root
        /\ \A x \in Mounts : next'[x] = IF x = m THEN Nil
                                        ELSE IF x = prev[m] THEN next[m] ELSE next[x]
        /\ \A x \in Mounts : prev'[x] = IF x = m THEN Nil
                                        ELSE IF x = next[m] THEN prev[m] ELSE prev[x]
        /\ m \in OnList /\ \A x \in Mounts : x \in OnList' <=> x # m /\ x \in OnList
        /\ \A x \in Mounts : x # Nil
    BY ListAssumption DEF RemoveSuperblock, At, Typed, ListTyped, NamesTyped, OnList,
       Listed
  <1>5. PICK j \in 1 .. k : s[j] = m
    BY <1>3, <1>4
  <1>6. /\ next[m] = IF j = k THEN Nil ELSE s[j + 1]
        /\ prev[m] = IF j = 1 THEN Nil ELSE s[j - 1]
    BY <1>3, <1>5
  <1> DEFINE o(i) == IF i < j THEN i ELSE i + 1
             t == [i \in 1 .. k - 1 |-> s[o(i)]]
  <1>7. /\ \A i \in 1 .. k - 1 : o(i) \in 1 .. k /\ o(i) # j
        /\ \A i, l \in 1 .. k - 1 : o(i) = o(l) => i = l
        /\ \A i \in 1 .. k : i # j => \E l \in 1 .. k - 1 : o(l) = i
    <2>1. \A i \in 1 .. k : i # j => IF i < j THEN i \in 1 .. k - 1 /\ o(i) = i
                                     ELSE i - 1 \in 1 .. k - 1 /\ o(i - 1) = i
      OBVIOUS
    <2> QED
      BY <2>1
  <1>8. t \in [1 .. k - 1 -> Mounts] /\ \A i \in 1 .. k - 1 : t[i] = s[o(i)] /\ t[i] # m
    <2> HIDE DEF o
    <2> QED
      BY <1>3, <1>5, <1>7
  <1>9. \A i, l \in 1 .. k - 1 : t[i] = t[l] => i = l
    <2> HIDE DEF o, t
    <2> SUFFICES ASSUME NEW i \in 1 .. k - 1, NEW l \in 1 .. k - 1, t[i] = t[l]
                 PROVE  i = l
      OBVIOUS
    <2>1. s[o(i)] = s[o(l)] /\ o(i) \in 1 .. k /\ o(l) \in 1 .. k
      BY <1>7, <1>8
    <2>2. o(i) = o(l)
      BY <1>3, <2>1
    <2> QED
      BY <1>7, <2>2
  <1>10. \A x \in Mounts : x \in OnList' <=> \E i \in 1 .. k - 1 : t[i] = x
    <2> HIDE DEF o, t
    <2>1. ASSUME NEW x \in Mounts, x \in OnList' PROVE \E i \in 1 .. k - 1 : t[i] = x
      <3>1. PICK i \in 1 .. k : s[i] = x /\ i # j
        BY <1>3, <1>4, <1>5, <2>1
      <3> QED
        BY <1>7, <1>8, <3>1
    <2>2. ASSUME NEW x \in Mounts, NEW i \in 1 .. k - 1, t[i] = x PROVE x \in OnList'
      BY <1>3, <1>4, <1>7, <1>8, <2>2
    <2> QED
      BY <2>1, <2>2
  <1>11. root' = IF k - 1 = 0 THEN Nil ELSE t[1]
    <2>1. CASE j = 1
      <3>1. root' = IF k = 1 THEN Nil ELSE s[2]
        BY <1>4, <1>6, <2>1
      <3>2. k # 1 => t[1] = s[2]
        BY <1>8, <2>1
      <3> QED
        BY <3>1, <3>2
    <2>2. CASE j # 1
      <3>1. root' = s[1] /\ k - 1 # 0
        BY <1>3, <1>4, <1>6, <2>2
      <3>2. t[1] = s[1]
        BY <1>8, <2>2
      <3> QED
        BY <3>1, <3>2
    <2> QED
      BY <2>1, <2>2
  <1>12. ASSUME NEW i \in 1 .. k - 1
         PROVE  next'[t[i]] = IF i = k - 1 THEN Nil ELSE t[i + 1]
    <2>1. t[i] = s[o(i)] /\ t[i] # m /\ t[i] \in Mounts /\ o(i) \in 1 .. k
      BY <1>3, <1>7, <1>8
    <2>2. i # k - 1 => i + 1 \in 1 .. k - 1 /\ t[i + 1] = s[o(i + 1)]
      BY <1>8
    <2>3. CASE o(i) = j - 1
      <3>1. t[i] = prev[m] /\ next'[t[i]] = next[m]
        BY <1>4, <1>6, <2>1, <2>3
      <3>2. i = j - 1 /\ (i # k - 1 => o(i + 1) = j + 1)
        BY <2>3
      <3> QED
        BY <1>6, <2>2, <3>1, <3>2
    <2>4. CASE o(i) # j - 1
      <3>1. t[i] # prev[m]
        BY <1>3, <1>4, <1>6, <2>1, <2>4
      <3>2. next'[t[i]] = IF o(i) = k THEN Nil ELSE s[o(i) + 1]
        BY <1>3, <1>4, <2>1, <3>1
      <3>3. (o(i) = k <=> i = k - 1) /\ (i # k - 1 => o(i) + 1 = o(i + 1))
        BY <2>4
      <3> QED
        BY <2>2, <3>2, <3>3
    <2> QED
      BY <2>3, <2>4
  <1>13. ASSUME NEW i \in 1 .. k - 1
         PROVE  prev'[t[i]] = IF i = 1 THEN Nil ELSE t[i - 1]
    <2>1. t[i] = s[o(i)] /\ t[i] # m /\ t[i] \in Mounts /\ o(i) \in 1 .. k
      BY <1>3, <1>7, <1>8
    <2>2. i # 1 => i - 1 \in 1 .. k - 1 /\ t[i - 1] = s[o(i - 1)]
      BY <1>8
    <2>3. CASE o(i) = j + 1
      <3>1. t[i] = next[m] /\ prev'[t[i]] = prev[m]
        BY <1>4, <1>6, <2>1, <2>3
      <3>2. i = j /\ (i # 1 => o(i - 1) = j - 1)
        BY <2>3
      <3> QED
        BY <1>6, <2>2, <3>1, <3>2
    <2>4. CASE o(i) # j + 1
      <3>1. t[i] # next[m]
        BY <1>3, <1>4, <1>6, <2>1, <2>4
      <3>2. prev'[t[i]] = IF o(i) = 1 THEN Nil ELSE s[o(i) - 1]
        BY <1>3, <1>4, <2>1, <3>1
      <3>3. (o(i) = 1 <=> i = 1) /\ (i # 1 => o(i) - 1 = o(i - 1))
        BY <2>4
      <3> QED
        BY <2>2, <3>2, <3>3
    <2> QED
      BY <2>3, <2>4
  <1> HIDE DEF t
  <1>14. Ordered(t, k - 1)'
    BY <1>8, <1>9, <1>10, <1>11, <1>12, <1>13 DEF Ordered
  <1>15. k - 1 \in Nat
    BY <1>5
  <1> QED
    BY <1>14, <1>15 DEF Chained
----------------------------------------------------------------------------
(* Two superblocks in the list have different ids, if they have any. *)
Distinct == \A m, k \in OnList : m # k /\ id[m] = id[k] => id[m] = 0

(* The names and the device of a superblock, as read_super makes them.     *)
Devices ==
  \A m \in Mounts :
    /\ at[m] \in {"named", "device", "mounted"} => text[m] = id[m]
    /\ at[m] \in {"device", "mounted"} => id[m] # 0
    /\ at[m] = "mounted" /\ ready[m] => id[m] <= MaxMinor /\ ~unmounting[m]

(* A daemon is on the way to a mount: it will be started with its id, or   *)
(* was and has not looked the device up, or has looked it up and found it. *)
Expected(m) ==
  \/ control = "start" /\ arg = id[m]
  \/ \E p \in Procs : /\ minor[p] = id[m]
                      /\ proc[p] = "started" \/ (proc[p] = "found" /\ file[p] = m)

Remembered ==
  \A m \in Mounts : at[m] = "mounted" /\ ready[m] /\ inUse[m] = 0 =>
    ~notified[m] \/ Expected(m) \/ m \in forsaken

Linked == Chained /\ Distinct /\ Devices /\ Remembered

LEMMA InitLinked == Init => Linked
  <1> SUFFICES ASSUME Init PROVE Linked
    OBVIOUS
  <1>1. OnList = {}
    BY DEF Init, OnList, Listed
  <1>2. Ordered([i \in 1 .. 0 |-> root], 0)
    <2>1. 1 .. 0 = {}
      OBVIOUS
    <2> QED
      BY <1>1, <2>1 DEF Init, Ordered
  <1>3. Chained
    BY <1>2 DEF Chained
  <1> QED
    BY <1>1, <1>3 DEF Init, Linked, Distinct, Devices, Remembered

(* The list stays as it is, and so do the names of those in it.            *)
LEMMA SameList ==
  ASSUME Chained, UNCHANGED listVars, \A m \in Mounts : m \in OnList' <=> m \in OnList
  PROVE  Chained'
  <1>1. \A k : \A s : Ordered(s, k) => Ordered(s, k)'
    BY DEF Ordered, listVars
  <1> QED
    BY <1>1 DEF Chained

LEMMA StepChained == Typed /\ Chained /\ [Next]_vars => Chained'
  <1> SUFFICES ASSUME Typed, Chained, [Next]_vars PROVE Chained'
    OBVIOUS
  <1>1. ASSUME NEW m \in Mounts, AddSuperblock(m) \/ RemoveSuperblock(m) PROVE Chained'
    BY <1>1, AddChained, RemoveChained
  <1>2. ASSUME NEW m \in Mounts,
               \/ \E p \in Points : ReadSuper(m, p)
               \/ SetIdString(m) \/ ProcfsUserInit(m) \/ DevfsUserInit(m)
               \/ DevfsUserCleanup(m) \/ CleanupEnds(m)
        PROVE  Chained'
    <2>1. UNCHANGED listVars
      BY <1>2 DEF ReadSuper, SetIdString, ProcfsUserInit, DevfsUserInit,
         DevfsUserCleanup, CleanupEnds
    <2>2. \E a, b : At(m, a, b) /\ (a \in Listed \cup {"stuck"} <=> b \in Listed \cup {"stuck"})
      <3>1. CASE \E p \in Points : ReadSuper(m, p)
        BY <3>1 DEF ReadSuper, Listed
      <3>2. CASE SetIdString(m) \/ ProcfsUserInit(m) \/ DevfsUserInit(m)
        BY <3>2 DEF SetIdString, ProcfsUserInit, DevfsUserInit, Listed
      <3>3. CASE DevfsUserCleanup(m) \/ CleanupEnds(m)
        BY <3>3 DEF DevfsUserCleanup, CleanupEnds, Listed
      <3> QED
        BY <1>2, <3>1, <3>2, <3>3
    <2>3. \A k \in Mounts : k \in OnList' <=> k \in OnList
      BY <2>2 DEF At, OnList, Typed, NamesTyped
    <2> QED
      BY <2>1, <2>3, SameList
  <1>3. ASSUME UNCHANGED <<listVars, at>> PROVE Chained'
    BY <1>3, SameList DEF OnList
  <1>4. CASE ControlStart \/ ControlPoll \/ PollWait \/ ControlRead \/ ControlRelease
    BY <1>3, <1>4 DEF ControlStart, ControlPoll, PollWait, ControlRead, ControlRelease
  <1>5. CASE \E p \in Procs : StartDaemon(p) \/ ProcStep(p) \/ Kill(p) \/ EndsUnopened(p)
    BY <1>3, <1>5 DEF StartDaemon, ProcStep, DevfsFind, DevfsOpen, TakeQuit,
       DevfsRelease, Kill, EndsUnopened, Ends
  <1>6. CASE UNCHANGED vars
    BY <1>3, <1>6 DEF vars
  <1> QED
    BY <1>1, <1>2, <1>4, <1>5, <1>6 DEF Next, Mounting, Unmounting, ControlStep

(* add_superblock looks at every id in the list. *)
LEMMA StepDistinct ==
  ASSUME Inv, Linked, [Next]_vars
  PROVE  Distinct'
  <1>1. InList = OnList
    BY ChainedComplete DEF Inv, Linked
  <1>2. ASSUME NEW m \in Mounts, AddSuperblock(m) PROVE Distinct'
    <2>1. /\ \A k \in OnList' : k = m \/ k \in OnList
          /\ \A k \in Mounts : k # m => id'[k] = id[k]
          /\ id'[m] = 0 \/ \A k \in OnList : id[k] # id'[m]
          /\ OnList \subseteq Mounts /\ m \notin OnList
      BY <1>1, <1>2, IdChosen
         DEF AddSuperblock, At, OnList, Listed, Inv, Typed, NamesTyped, FreeIds
    <2>2. ASSUME NEW x \in OnList', NEW y \in OnList', x # y, id'[x] = id'[y]
          PROVE  id'[x] = 0
      <3>1. CASE x = m
        BY <2>1, <2>2, <3>1
      <3>2. CASE y = m
        BY <2>1, <2>2, <3>2
      <3>3. CASE x # m /\ y # m
        BY <2>1, <2>2, <3>3 DEF Linked, Distinct
      <3> QED
        BY <3>1, <3>2, <3>3
    <2> QED
      BY <2>2 DEF Distinct
  <1>3. ASSUME \A k \in OnList' : k \in OnList /\ id'[k] = id[k] PROVE Distinct'
    BY <1>3 DEF Linked, Distinct
  <1>4. ASSUME NEW m \in Mounts,
               \/ \E p \in Points : ReadSuper(m, p)
               \/ SetIdString(m) \/ ProcfsUserInit(m) \/ DevfsUserInit(m)
               \/ DevfsUserCleanup(m) \/ CleanupEnds(m)
        PROVE  Distinct'
    <2>1. id' = id
      BY <1>4 DEF ReadSuper, SetIdString, ProcfsUserInit, DevfsUserInit, DevfsUserCleanup,
         CleanupEnds, nameVars
    <2>2. \E a, b : At(m, a, b) /\ (b \in Listed \cup {"stuck"} => a \in Listed \cup {"stuck"})
      <3>1. CASE \E p \in Points : ReadSuper(m, p)
        BY <3>1 DEF ReadSuper, Listed
      <3>2. CASE SetIdString(m) \/ ProcfsUserInit(m) \/ DevfsUserInit(m)
        BY <3>2 DEF SetIdString, ProcfsUserInit, DevfsUserInit, Listed
      <3>3. CASE DevfsUserCleanup(m) \/ CleanupEnds(m)
        BY <3>3 DEF DevfsUserCleanup, CleanupEnds, Listed
      <3> QED
        BY <1>4, <3>1, <3>2, <3>3
    <2>3. \A k \in OnList' : k \in OnList
      BY <2>2 DEF At, OnList, Inv, Typed, NamesTyped
    <2> QED
      BY <1>3, <2>1, <2>3
  <1>5. ASSUME NEW m \in Mounts, RemoveSuperblock(m) PROVE Distinct'
    BY <1>3, <1>5 DEF RemoveSuperblock, Freed, At, OnList, Listed, Inv, Typed, NamesTyped
  <1>6. ASSUME UNCHANGED <<id, at>> PROVE Distinct'
    BY <1>3, <1>6 DEF OnList
  <1>7. CASE ControlStart \/ ControlPoll \/ PollWait \/ ControlRead \/ ControlRelease
    BY <1>6, <1>7 DEF ControlStart, ControlPoll, PollWait, ControlRead, ControlRelease,
       nameVars
  <1>8. CASE \E p \in Procs : StartDaemon(p) \/ ProcStep(p) \/ Kill(p) \/ EndsUnopened(p)
    BY <1>6, <1>8 DEF StartDaemon, ProcStep, DevfsFind, DevfsOpen, TakeQuit,
       DevfsRelease, Kill, EndsUnopened, Ends, nameVars
  <1>9. CASE UNCHANGED vars
    BY <1>6, <1>9 DEF vars, nameVars
  <1> QED
    BY <1>2, <1>4, <1>5, <1>7, <1>8, <1>9 DEF Next, Mounting, Unmounting, ControlStep

LEMMA StepDevices ==
  ASSUME Inv, Linked, [Next]_vars
  PROVE  Devices'
  <1> USE DEF Inv, Typed, NamesTyped, DeviceTyped, Linked, Devices, At, nameVars,
  deviceVars
  <1>1. ASSUME NEW m \in Mounts, NEW p \in Points, ReadSuper(m, p) PROVE Devices'
    BY <1>1 DEF ReadSuper
  <1>2. ASSUME NEW m \in Mounts, AddSuperblock(m) PROVE Devices'
    <2>1. id' = [id EXCEPT ![m] = id'[m]]
      BY <1>2, IdChosen
    <2>2. at' = [at EXCEPT ![m] = "added"] /\ UNCHANGED <<text, ready, unmounting>>
      BY <1>2 DEF AddSuperblock
    <2> QED
      BY <2>1, <2>2
  <1>3. ASSUME NEW m \in Mounts, SetIdString(m) PROVE Devices'
    BY <1>3 DEF SetIdString
  <1>4. ASSUME NEW m \in Mounts, ProcfsUserInit(m) PROVE Devices'
    BY <1>4 DEF ProcfsUserInit
  <1>5. ASSUME NEW m \in Mounts, DevfsUserInit(m) PROVE Devices'
    <2>1. ~ready[m]
      BY <1>5 DEF DevfsUserInit, NotReadyYet
    <2>2. id[m] > MaxMinor <=> ~(id[m] <= MaxMinor)
      BY ListAssumption DEF AllIds
    <2> QED
      BY <1>5, <2>1, <2>2 DEF DevfsUserInit
  <1>6. ASSUME NEW m \in Mounts, DevfsUserCleanup(m) PROVE Devices'
    BY <1>6 DEF DevfsUserCleanup
  <1>7. ASSUME NEW m \in Mounts, CleanupEnds(m) PROVE Devices'
    BY <1>7 DEF CleanupEnds
  <1>8. ASSUME NEW m \in Mounts, RemoveSuperblock(m) PROVE Devices'
    BY <1>8 DEF RemoveSuperblock, Freed
  <1>9. ASSUME UNCHANGED <<at, id, text, ready, unmounting>> PROVE Devices'
    BY <1>9
  <1>10. CASE ControlStart \/ ControlPoll \/ PollWait \/ ControlRead \/ ControlRelease
    BY <1>9, <1>10 DEF ControlStart, ControlPoll, PollWait, ControlRead, ControlRelease
  <1>11. CASE \E p \in Procs : StartDaemon(p) \/ ProcStep(p) \/ Kill(p) \/ EndsUnopened(p)
    BY <1>9, <1>11 DEF StartDaemon, ProcStep, DevfsFind, DevfsOpen, TakeQuit,
       DevfsRelease, Kill, EndsUnopened, Ends
  <1>12. CASE UNCHANGED vars
    BY <1>9, <1>12 DEF vars
  <1> QED
    BY <1>1, <1>2, <1>3, <1>4, <1>5, <1>6, <1>7, <1>8, <1>10, <1>11, <1>12
       DEF Next, Mounting, Unmounting, ControlStep
----------------------------------------------------------------------------
(* The mounts that wait for a daemon. *)
Waits(m) == at[m] = "mounted" /\ ready[m] /\ inUse[m] = 0

(* A cvsfsd that is expected finds the mount, and no other, and opens it.  *)
LEMMA FindExpected ==
  ASSUME Inv, Linked, NEW p \in Procs, DevfsFind(p), NEW m \in Mounts, Waits(m), Expected(m)
  PROVE  Expected(m)'
  <1> USE DEF Inv, Typed, ProcsTyped
  <1>1. id' = id /\ control' = control /\ arg' = arg
    BY DEF DevfsFind, nameVars, ctlVars
  <1>2. InList = OnList /\ m \in OnList
    BY ChainedComplete DEF Linked, Waits, OnList, Listed
  <1>3. id[m] # 0 /\ id[m] <= MaxMinor
    BY DEF Waits, Linked, Devices
  <1>4. CASE control = "start" /\ arg = id[m]
    BY <1>1, <1>4 DEF Expected
  <1>5. ASSUME NEW q \in Procs, minor[q] = id[m],
               proc[q] = "started" \/ (proc[q] = "found" /\ file[q] = m)
        PROVE  Expected(m)'
    <2>1. CASE q = p
      <3>1. proc[p] = "started"
        BY <1>5, <2>1 DEF DevfsFind
      <3>2. ~(minor[p] > MaxMinor)
        BY <1>3, <1>5, <2>1, ListAssumption DEF NamesTyped, AllIds
      <3>3. PICK k \in Mounts : /\ k \in InList /\ id[k] = minor[p]
                                /\ proc' = [proc EXCEPT ![p] = "found"]
                                /\ file' = [file EXCEPT ![p] = k] /\ minor' = minor
        BY <1>2, <1>5, <2>1, <3>2 DEF DevfsFind
      <3>4. k = m
        BY <1>2, <1>3, <1>5, <2>1, <3>3 DEF Linked, Distinct
      <3>5. minor'[p] = id'[m] /\ proc'[p] = "found" /\ file'[p] = m
        BY <1>1, <1>5, <2>1, <3>3, <3>4
      <3> QED
        BY <3>5 DEF Expected
    <2>2. CASE q # p
      <3>1. minor'[q] = minor[q] /\ proc'[q] = proc[q] /\ file'[q] = file[q]
        BY <2>2 DEF DevfsFind, Ends
      <3> QED
        BY <1>1, <1>5, <3>1 DEF Expected
    <2> QED
      BY <2>1, <2>2
  <1> QED
    BY <1>4, <1>5 DEF Expected

LEMMA OpenExpected ==
  ASSUME Inv, Linked, NEW p \in Procs, DevfsOpen(p), NEW m \in Mounts, Waits(m), Expected(m),
         inUse'[m] = 0
  PROVE  Expected(m)'
  <1> USE DEF Inv, Typed, ProcsTyped
  <1>1. id' = id /\ control' = control /\ arg' = arg
    BY DEF DevfsOpen, nameVars, ctlVars
  <1>2. CASE control = "start" /\ arg = id[m]
    BY <1>1, <1>2 DEF Expected
  <1>3. ASSUME NEW q \in Procs, minor[q] = id[m],
               proc[q] = "started" \/ (proc[q] = "found" /\ file[q] = m)
        PROVE  Expected(m)'
    <2>1. q # p
      <3> SUFFICES ASSUME q = p PROVE FALSE
        OBVIOUS
      <3>1. proc[p] = "found" /\ file[p] = m /\ at[m] # "gone" /\ inUse[m] = 0
        BY <1>3 DEF DevfsOpen, Waits
      <3>2. inUse' = [inUse EXCEPT ![m] = 1]
        BY <3>1 DEF DevfsOpen
      <3> QED
        BY <3>2 DEF DeviceTyped
    <2>2. minor'[q] = minor[q] /\ proc'[q] = proc[q] /\ file'[q] = file[q]
      BY <2>1 DEF DevfsOpen, Ends
    <2> QED
      BY <1>1, <1>3, <2>2 DEF Expected
  <1> QED
    BY <1>2, <1>3 DEF Expected

(* What the control daemon has read it starts a cvsfsd with. *)
LEMMA StartExpected ==
  ASSUME Inv, Linked, NEW p \in Procs, StartDaemon(p), NEW m \in Mounts, Waits(m), Expected(m)
  PROVE  Expected(m)'
  <1> USE DEF Inv, Typed, ProcsTyped
  <1>1. id' = id /\ file' = file /\ proc[p] = "none"
    BY DEF StartDaemon, nameVars
  <1>2. CASE control = "start" /\ arg = id[m]
    <2>1. minor'[p] = id'[m] /\ proc'[p] = "started"
      BY <1>1, <1>2 DEF StartDaemon
    <2> QED
      BY <2>1 DEF Expected
  <1>3. ASSUME NEW q \in Procs, minor[q] = id[m],
               proc[q] = "started" \/ (proc[q] = "found" /\ file[q] = m)
        PROVE  Expected(m)'
    <2>1. minor'[q] = minor[q] /\ proc'[q] = proc[q] /\ file'[q] = file[q]
      BY <1>1, <1>3 DEF StartDaemon
    <2> QED
      BY <1>1, <1>3, <2>1 DEF Expected
  <1> QED
    BY <1>2, <1>3 DEF Expected

(* The steps that leave the names, what is read and the cvsfsd as they are. *)
LEMMA ExpectedKept ==
  ASSUME NEW m \in Mounts, Expected(m), id'[m] = id[m],
         control # "start" \/ (control' = control /\ arg' = arg),
         \A q \in Procs : proc[q] \in {"started", "found"} =>
           minor'[q] = minor[q] /\ proc'[q] = proc[q] /\ file'[q] = file[q]
  PROVE  Expected(m)'
  BY DEF Expected

LEMMA StepRemembered ==
  ASSUME Inv, Linked, [Next]_vars
  PROVE  Remembered'
  <1> USE DEF Inv, Typed, NamesTyped, DeviceTyped, ControlTyped, ProcsTyped
  <1>0. \A m \in Mounts : Waits(m) => ~notified[m] \/ Expected(m) \/ m \in forsaken
    BY DEF Linked, Remembered, Waits
  <1> SUFFICES ASSUME NEW m \in Mounts, Waits(m)', notified'[m], m \notin forsaken'
               PROVE  Expected(m)'
    BY DEF Remembered, Waits
  (* A step of a mount. *)
  <1>1. ASSUME NEW k \in Mounts,
               \/ \E p \in Points : ReadSuper(k, p)
               \/ Mounting(k) \/ DevfsUserCleanup(k) \/ Unmounting(k)
        PROVE  Expected(m)'
    <2>1. /\ k # m => /\ id'[m] = id[m] /\ at'[m] = at[m] /\ ready'[m] = ready[m]
                      /\ inUse'[m] = inUse[m] /\ notified'[m] = notified[m]
          /\ k = m => at[k] = "device" /\ at'[k] = "mounted"
      <3>1. CASE \E p \in Points : ReadSuper(k, p)
        BY <3>1 DEF ReadSuper, At, Waits, deviceVars
      <3>2. CASE AddSuperblock(k)
        BY <3>2, IdChosen DEF AddSuperblock, At, Waits, deviceVars
      <3>3. CASE SetIdString(k) \/ ProcfsUserInit(k) \/ CleanupEnds(k)
        BY <3>3 DEF SetIdString, ProcfsUserInit, CleanupEnds, At, Waits, deviceVars,
           nameVars
      <3>4. CASE DevfsUserInit(k)
        BY <3>4 DEF DevfsUserInit, At, deviceVars, nameVars
      <3>5. CASE DevfsUserCleanup(k)
        BY <3>5 DEF DevfsUserCleanup, At, Waits, nameVars
      <3>6. CASE RemoveSuperblock(k)
        BY <3>6 DEF RemoveSuperblock, Freed, At, Waits
      <3> QED
        BY <1>1, <3>1, <3>2, <3>3, <3>4, <3>5, <3>6 DEF Mounting, Unmounting
    <2>2. CASE k = m
      <3>1. DevfsUserInit(k)
        <4>1. at[k] = "device" /\ at'[k] = "mounted"
          BY <2>1, <2>2
        <4> QED
          BY <1>1, <4>1 DEF Mounting, Unmounting, ReadSuper, AddSuperblock, SetIdString,
             ProcfsUserInit, DevfsUserCleanup, CleanupEnds, RemoveSuperblock, At
      <3>2. ~ready[k] /\ (ready'[k] = ready[k] \/ notified'[k] = FALSE)
        BY <3>1 DEF DevfsUserInit, NotReadyYet, At, deviceVars
      <3> QED
        BY <2>2, <3>2 DEF Waits
    <2>3. CASE k # m
      <3>0. m \notin forsaken
        BY <1>1, <2>3 DEF Mounting, Unmounting, ReadSuper, AddSuperblock, SetIdString,
           ProcfsUserInit,
           DevfsUserInit, DevfsUserCleanup, CleanupEnds, RemoveSuperblock, Freed, ctlVars
      <3>1. Expected(m)
        BY <1>0, <2>1, <2>3, <3>0 DEF Waits
      <3>2. /\ control # "start" \/ (control' = control /\ arg' = arg)
            /\ UNCHANGED procVars
        BY <1>1 DEF Mounting, Unmounting, ReadSuper, AddSuperblock, SetIdString,
           ProcfsUserInit,
           DevfsUserInit, DevfsUserCleanup, CleanupEnds, RemoveSuperblock, WakeControl,
           ctlVars
      <3> QED
        BY <2>1, <2>3, <3>1, <3>2, ExpectedKept DEF procVars
    <2> QED
      BY <2>2, <2>3
  <1>2. CASE ControlStart \/ ControlPoll \/ PollWait
    <2>1. /\ Waits(m) /\ notified[m] /\ id'[m] = id[m] /\ control # "start" /\ UNCHANGED procVars
          /\ m \notin forsaken
      BY <1>2 DEF ControlStart, ControlPoll, PollWait, Waits, nameVars, deviceVars
    <2> QED
      BY <1>0, <2>1, ExpectedKept DEF procVars
  <1>3. CASE ControlRead
    <2>1. /\ Waits(m) /\ id' = id /\ control # "start" /\ UNCHANGED procVars
      BY <1>3 DEF ControlRead, Waits, nameVars
    <2>2. CASE notified[m]
      <3>1. m \notin forsaken
        BY <1>3, <2>2 DEF ControlRead, IsFirst, NeedsDaemon
      <3> QED
        BY <1>0, <2>1, <2>2, <3>1, ExpectedKept DEF procVars
    <2>3. CASE ~notified[m]
      <3>1. PICK k \in Mounts : /\ IsFirst(k) /\ notified' = [notified EXCEPT ![k] = TRUE]
                                /\ arg' = text[k]
                                /\ control' = IF text[k] = 0 THEN "scan" ELSE "start"
        BY <1>3, <2>3 DEF ControlRead
      <3>2. k = m
        BY <2>3, <3>1
      <3>3. text[m] = id[m] /\ id[m] # 0
        BY <2>1 DEF Waits, Linked, Devices
      <3> QED
        BY <2>1, <3>1, <3>2, <3>3 DEF Expected
    <2> QED
      BY <2>2, <2>3
  <1>4. CASE ControlRelease
    <2>1. Waits(m) /\ m \in InList
      <3>1. Waits(m)
        BY <1>4 DEF ControlRelease, Waits
      <3>2. InList = OnList
        BY ChainedComplete DEF Linked
      <3> QED
        BY <3>1, <3>2 DEF Waits, OnList, Listed
    <2>2. notified' = [k \in Mounts |-> IF k \in InList THEN FALSE ELSE notified[k]]
      BY <1>4, Zenon DEF ControlRelease
    <2> QED
      BY <2>1, <2>2
  <1>5. ASSUME NEW p \in Procs, StartDaemon(p) PROVE Expected(m)'
    <2>1. Waits(m) /\ notified[m] /\ m \notin forsaken
      BY <1>5 DEF StartDaemon, Waits, deviceVars
    <2> QED
      BY <1>0, <1>5, <2>1, StartExpected
  <1>6. ASSUME NEW p \in Procs, DevfsFind(p) PROVE Expected(m)'
    <2>1. Waits(m) /\ notified[m] /\ m \notin forsaken
      BY <1>6 DEF DevfsFind, Waits, deviceVars, ctlVars
    <2> QED
      BY <1>0, <1>6, <2>1, FindExpected
  <1>7. ASSUME NEW p \in Procs, DevfsOpen(p) PROVE Expected(m)'
    <2>1. /\ at' = at /\ ready' = ready /\ notified' = notified /\ inUse'[m] = 0
          /\ m \notin forsaken
      BY <1>7 DEF DevfsOpen, Waits, ctlVars
    <2>2. inUse[m] = 0
      <3>1. inUse' = inUse \/ inUse' = [inUse EXCEPT ![file[p]] = 1]
        BY <1>7 DEF DevfsOpen
      <3> QED
        BY <2>1, <3>1
    <2>3. Waits(m) /\ notified[m]
      BY <2>1, <2>2 DEF Waits
    <2> QED
      BY <1>0, <1>7, <2>1, <2>3, OpenExpected
  <1>8. ASSUME NEW p \in Procs, TakeQuit(p) \/ Kill(p) PROVE Expected(m)'
    <2>1. /\ Waits(m) /\ notified[m] /\ id' = id /\ control' = control /\ arg' = arg
          /\ proc[p] = "open" /\ minor' = minor /\ file' = file
          /\ \A q \in Procs : q # p => proc'[q] = proc[q]
      BY <1>8 DEF TakeQuit, Kill, Waits, nameVars, deviceVars, ctlVars
    <2> QED
      BY <1>0, <1>8, <2>1, ExpectedKept DEF TakeQuit, Kill, ctlVars
  <1>11. ASSUME NEW p \in Procs, EndsUnopened(p) PROVE Expected(m)'
    <2>1. /\ Waits(m) /\ notified[m] /\ id' = id /\ control' = control /\ arg' = arg
          /\ m \notin forsaken /\ proc[p] = "started"
          /\ \A q \in Procs : q # p => minor'[q] = minor[q] /\ proc'[q] = proc[q] /\ file'[q] = file[q]
      BY <1>11 DEF EndsUnopened, Ends, Waits, nameVars, deviceVars
    <2>2. m \in InList
      <3>1. InList = OnList
        BY ChainedComplete DEF Linked
      <3> QED
        BY <2>1, <3>1 DEF Waits, OnList, Listed
    <2>3. minor[p] # id[m]
      BY <1>11, <2>2 DEF EndsUnopened
    <2> QED
      BY <1>0, <2>1, <2>3 DEF Expected
  <1>9. ASSUME NEW p \in Procs, DevfsRelease(p) PROVE Expected(m)'
    <2> DEFINE f == file[p]
    <2>1. /\ at' = at /\ ready' = ready /\ id' = id /\ unmounting' = unmounting
          /\ inUse' = [inUse EXCEPT ![f] = 0] /\ proc[p] = "exit" /\ f \in Mounts
          /\ control # "start" \/ (control' = control /\ arg' = arg)
          /\ \A q \in Procs : q # p => minor'[q] = minor[q] /\ proc'[q] = proc[q] /\ file'[q] = file[q]
      BY <1>9 DEF DevfsRelease, Ends, WakeControl, HasFile, nameVars
    <2>2. /\ notified'[f] = (notified[f] /\ unmounting[f])
          /\ \A k \in Mounts : k # f => notified'[k] = notified[k]
      <3>1. notified' = [notified EXCEPT ![f] = notified[f] /\ unmounting[f]]
        BY <1>9, Zenon DEF DevfsRelease
      <3> QED
        BY <2>1, <3>1
    <2>3. f # m
      <3> SUFFICES ASSUME f = m PROVE FALSE
        OBVIOUS
      <3>1. ~unmounting[m]
        BY <2>1 DEF Waits, Linked, Devices
      <3> QED
        BY <2>2, <3>1
    <2>4. Waits(m) /\ notified[m] /\ m \notin forsaken
      BY <1>9, <2>1, <2>2, <2>3 DEF Waits, DevfsRelease
    <2> QED
      BY <1>0, <2>1, <2>4, ExpectedKept
  <1>10. CASE UNCHANGED vars
    <2>1. Waits(m) /\ notified[m] /\ m \notin forsaken
      BY <1>10 DEF vars, Waits, deviceVars, ctlVars
    <2> QED
      BY <1>0, <1>10, <2>1, ExpectedKept DEF vars, nameVars, ctlVars, procVars
  <1> QED
    BY <1>1, <1>2, <1>3, <1>4, <1>5, <1>6, <1>7, <1>8, <1>9, <1>10, <1>11
    DEF Next, ControlStep, ProcStep

(* The list as it is linked, and what is expected of whom.                 *)
THEOREM ListLinked == Spec => [](Inv /\ Linked)
  <1>1. Inv /\ Linked /\ [Next]_vars => Linked'
    BY StepChained, StepDistinct, StepDevices, StepRemembered DEF Linked, Inv
  <1>2. Inv /\ [Next]_vars => Inv'
    BY StepTyped, StepServed DEF Inv, Served
  <1> QED
    BY <1>1, <1>2, InitInv, InitLinked, PTL DEF Spec

(* A walk over the list of superblocks, as every reader of superblock.c    *)
(* and the control device make it, meets exactly those that add_superblock *)
(* has put in and remove_superblock not yet taken out, in whatever order   *)
(* mounts and unmounts come and fail.                                      *)
THEOREM ListIsComplete == Spec => []ListComplete
  <1>1. Inv /\ Linked => ListComplete
    BY ChainedComplete DEF Inv, Linked, OnList, ListComplete
  <1> QED
    BY <1>1, ListLinked, PTL

(* No two superblocks in the list have the same id, unless max_mounts is   *)
(* exceeded and they have none: add_superblock gives an id out again only  *)
(* when nobody in the list has it.                                         *)
THEOREM IdsDiffer == Spec => []UniqueIds
  <1>1. Inv /\ Linked => UniqueIds
    BY ChainedComplete DEF Inv, Linked, Distinct, UniqueIds
  <1> QED
    BY <1>1, ListLinked, PTL

(* daemon_notified is never left set for a mounted file system that has no *)
(* daemon and will get none: not by a read of the control device before    *)
(* the device is initialised, not by a daemon that finds the device taken  *)
(* or gone, not by a control daemon that is killed.  What the kernel does  *)
(* not see is a cvsfsd that ends before it opens the device.               *)
THEOREM NobodyForgotten == Spec => []NotForgotten
  <1>1. Inv /\ Linked => NotForgotten
    BY DEF Linked, Remembered, Expected, Coming, NotForgotten
  <1> QED
    BY <1>1, ListLinked, PTL
=============================================================================
