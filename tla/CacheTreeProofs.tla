-------------------------- MODULE CacheTreeProofs ---------------------------
(***************************************************************************)
(* Invariants of CacheTree for every repository, every set of names of any *)
(* depth, every number of versions and of crashes.                         *)
(***************************************************************************)
EXTENDS CacheTree, SequenceTheorems, TLAPS

CheckoutSteps == {"load", "fetch", "create", "copy"}

(* The parts of the type invariant: the sets the variables are in, and     *)
(* that every entry and every local name lies in a directory.              *)
Trees    == [Paths -> [kind : Kinds, version : Versions \cup {0}]]
Layers   == [Paths -> {"none", "dir", "file"}]
Known    == [CvsFiles -> SUBSET Versions]
Copied   == [CvsFiles -> [Versions -> Stored]]
Jobs     == [op : {"idle", "get", "load", "fetch", "create", "copy"},
             path : CvsFiles \cup {<<>>}, version : Versions \cup {0},
             found : BOOLEAN, known : BOOLEAN]

Rooted(t)     == \A p \in Paths : t[p] # None => \A q \in Above(p) : IsDir(t[q])
DiskRooted(d) == \A p \in Paths : d[p] # "none" => \A q \in Above(p) : d[q] = "dir"

Types ==
  /\ loaded \in BOOLEAN /\ tree \in Trees /\ treeKnown \in Known /\ cvsKnown \in Known
  /\ remote \in Copied /\ out \in Copied /\ local \in Layers /\ job \in Jobs
  /\ crashes \in 0 .. MaxCrashes /\ faulty \in BOOLEAN

(* The kinds of entries a path may have: a directory of the repository is  *)
(* always listed as one, only a file of the repository has a version.      *)
Entries ==
  \A p \in Paths :
    /\ tree[p].kind \in {"cvs", "out"} => p \in CvsFiles
    /\ tree[p].kind = "out" => tree[p].version \in Versions
    /\ tree[p].kind # "out" => tree[p].version = 0
    /\ loaded => (tree[p].kind = "remoteDir" <=> p \in CvsDirs)
    /\ ~loaded => tree[p] = None

(* What is on the disk where the tree has an entry. *)
Places ==
  \A p \in Paths :
    /\ tree[p].kind = "local" => local[p] = "file"
    /\ tree[p].kind = "out" => out[p][tree[p].version] # "none"
    /\ tree[p].kind \in {"cvs", "out"} => local[p] # "dir"
    /\ p \in CvsDirs => local[p] # "file"

(* The file that a request is loading or checking out. *)
JobFile ==
  /\ job.op # "idle" => job.path \in CvsFiles /\ job.version \in Versions /\ loaded
  /\ job.op \in CheckoutSteps =>
       /\ tree[job.path].kind \in {"none", "cvs"} /\ local[job.path] # "dir"
       /\ \A q \in Below(job.path) : tree[q] = None

Inv == Types /\ Rooted(tree) /\ DiskRooted(local) /\ Entries /\ Places /\ JobFile

(* Unless a creation failed, a file of the repository is in one layer: a   *)
(* version that is checked out is the only one, and the one that is listed *)
(* or just being written.                                                  *)
OneLayer(p) ==
  /\ tree[p].kind = "cvs" => local[p] = "none"
  /\ \A v \in Versions : out[p][v] # "none" =>
       /\ local[p] = "none" /\ \A w \in Versions : out[p][w] # "none" => w = v
       /\ loaded => \/ tree[p].kind = "out" /\ tree[p].version = v
                    \/ job.op = "copy" /\ job.path = p /\ job.version = v

Unmixed ==
  ~faulty =>
    /\ \A p \in CvsFiles : OneLayer(p)
    /\ job.op \in CheckoutSteps => local[job.path] = "none"
    /\ job.op \in {"get", "fetch", "create", "copy"} => remote[job.path][job.version] # "none"

(* While no write failed, the only part of a version that is not whole is  *)
(* the one being written.                                                  *)
PartsInWork ==
  crashes = 0 /\ ~diskFull => \A p \in CvsFiles, v \in Versions :
    /\ remote[p][v] = "partial" =>
         job.op \in {"get", "fetch"} /\ job.path = p /\ job.version = v
    /\ ~faulty /\ out[p][v] = "partial" =>
         job.op = "copy" /\ job.path = p /\ job.version = v
----------------------------------------------------------------------------
(* Paths.  Prefixes are compared name by name. *)
Names == UNION {Range(p) : p \in Paths}

LEMMA PathsTyped == \A p \in Paths : p \in Seq(Names) /\ Len(p) \in Nat \ {0}
  <1> SUFFICES ASSUME NEW p \in Paths PROVE p \in Seq(Names) /\ Len(p) \in Nat \ {0}
    OBVIOUS
  <1>1. p \in Seq(Range(p)) /\ Len(p) > 0
    BY TreeAssumption
  <1>2. Range(p) \subseteq Names
    BY DEF Names
  <1>3. p \in Seq(Names)
    BY <1>1, <1>2
  <1> QED
    BY <1>1, <1>3

LEMMA StrictPrefix ==
  ASSUME NEW s \in Seq(Names), NEW t \in Seq(Names)
  PROVE  IsStrictPrefix(s, t) <=> Len(s) < Len(t) /\ \A i \in 1 .. Len(s) : s[i] = t[i]
  <1>1. CASE Len(s) <= Len(t)
    <2> DEFINE u == SubSeq(s, 1, Len(s))
               w == SubSeq(t, 1, Len(s))
    <2>1. /\ u \in Seq(Names) /\ Len(u) = Len(s) /\ \A i \in 1 .. Len(s) : u[i] = s[i]
          /\ w \in Seq(Names) /\ Len(w) = Len(s) /\ \A i \in 1 .. Len(s) : w[i] = t[i]
      BY <1>1, SubSeqProperties
    <2>2. u = w <=> \A i \in 1 .. Len(s) : u[i] = w[i]
      BY <2>1, SeqEqual
    <2> HIDE DEF u, w
    <2>3. u = w <=> \A i \in 1 .. Len(s) : s[i] = t[i]
      BY <2>1, <2>2
    <2>4. Len(s) = Len(t) => (s = t <=> \A i \in 1 .. Len(s) : s[i] = t[i])
      BY SeqEqual
    <2>5. IsStrictPrefix(s, t) <=> u = w /\ s # t
      BY <1>1 DEF IsStrictPrefix, IsPrefix, u, w
    <2> QED
      BY <1>1, <2>3, <2>4, <2>5
  <1>2. CASE ~(Len(s) <= Len(t))
    BY <1>2 DEF IsStrictPrefix, IsPrefix
  <1> QED
    BY <1>1, <1>2

LEMMA PathOrder ==
  /\ \A p \in Paths : ~IsStrictPrefix(p, p)
  /\ \A p, q, r \in Paths : IsStrictPrefix(p, q) /\ IsStrictPrefix(q, r) => IsStrictPrefix(p, r)
  /\ \A p, q, r \in Paths : IsStrictPrefix(p, r) /\ IsStrictPrefix(q, r) =>
       p = q \/ IsStrictPrefix(p, q) \/ IsStrictPrefix(q, p)
  /\ \A p, q \in Paths : IsStrictPrefix(p, q) => Len(p) < Len(q)
  <1>1. \A p \in Paths : p \in Seq(Names) /\ Len(p) \in Nat
    BY PathsTyped
  <1>2. \A p, q \in Paths :
          IsStrictPrefix(p, q) <=> Len(p) < Len(q) /\ \A i \in 1 .. Len(p) : p[i] = q[i]
    BY <1>1, StrictPrefix
  <1>3. ASSUME NEW p \in Paths, NEW q \in Paths, NEW r \in Paths,
               IsStrictPrefix(p, r), IsStrictPrefix(q, r)
        PROVE  p = q \/ IsStrictPrefix(p, q) \/ IsStrictPrefix(q, p)
    <2>1. /\ Len(p) \in Nat /\ Len(q) \in Nat
          /\ \A i \in 1 .. Len(p) : p[i] = r[i]
          /\ \A i \in 1 .. Len(q) : q[i] = r[i]
      BY <1>1, <1>2, <1>3
    <2>2. CASE Len(p) < Len(q)
      <3>1. \A i \in 1 .. Len(p) : p[i] = q[i]
        BY <2>1, <2>2
      <3> QED
        BY <3>1, <2>2, <1>2
    <2>3. CASE Len(q) < Len(p)
      <3>1. \A i \in 1 .. Len(q) : q[i] = p[i]
        BY <2>1, <2>3
      <3> QED
        BY <3>1, <2>3, <1>2
    <2>4. CASE Len(p) = Len(q)
      <3>1. \A i \in 1 .. Len(q) : p[i] = q[i]
        BY <2>1, <2>4
      <3>2. p = q
        BY <3>1, <2>4, <1>1, SeqEqual
      <3> QED
        BY <3>2
    <2> QED
      BY <2>1, <2>2, <2>3, <2>4
  <1>4. ASSUME NEW p \in Paths, NEW q \in Paths, NEW r \in Paths,
               IsStrictPrefix(p, q), IsStrictPrefix(q, r)
        PROVE  IsStrictPrefix(p, r)
    <2>1. /\ Len(p) \in Nat /\ Len(q) \in Nat /\ Len(r) \in Nat
          /\ Len(p) < Len(q) /\ Len(q) < Len(r)
          /\ \A i \in 1 .. Len(p) : p[i] = q[i]
          /\ \A i \in 1 .. Len(q) : q[i] = r[i]
      BY <1>1, <1>2, <1>4
    <2>2. \A i \in 1 .. Len(p) : p[i] = r[i]
      BY <2>1
    <2>3. Len(p) < Len(r)
      BY <2>1
    <2> QED
      BY <2>2, <2>3, <1>2
  <1>5. \A p \in Paths : ~IsStrictPrefix(p, p)
    BY <1>1, <1>2
  <1>6. \A p, q \in Paths : IsStrictPrefix(p, q) => Len(p) < Len(q)
    BY <1>2
  <1> QED
    BY <1>3, <1>4, <1>5, <1>6

(* Renaming keeps the order of what is renamed, and so what lies between.  *)
LEMMA RenamedNames ==
  ASSUME NEW p \in Paths, NEW r \in Paths, NEW q \in AtOrBelow(p)
  PROVE  /\ Renamed(q, p, r) \in Seq(Names)
         /\ Len(Renamed(q, p, r)) = Len(r) + Len(q) - Len(p)
         /\ \A i \in 1 .. Len(r) + Len(q) - Len(p) :
              Renamed(q, p, r)[i] = IF i <= Len(r) THEN r[i] ELSE q[i - Len(r) + Len(p)]
  <1> DEFINE s == SubSeq(q, Len(p) + 1, Len(q))
  <1>1. /\ p \in Seq(Names) /\ q \in Seq(Names) /\ r \in Seq(Names)
        /\ Len(p) \in Nat /\ Len(q) \in Nat /\ Len(r) \in Nat
    BY PathsTyped DEF AtOrBelow, Below
  <1>2. Len(p) <= Len(q)
    BY <1>1, PathOrder DEF AtOrBelow, Below
  <1>3. /\ Len(s) = IF Len(p) + 1 <= Len(q) THEN Len(q) - (Len(p) + 1) + 1 ELSE 0
        /\ \A i \in 1 .. Len(q) - (Len(p) + 1) + 1 : s[i] = q[(Len(p) + 1) + i - 1]
        /\ s \in Seq(Names)
    <2>1. /\ Len(p) + 1 \in 1 .. Len(q) + 1
          /\ Len(q) \in Len(p) + 1 - 1 .. Len(q)
      BY <1>1, <1>2
    <2>2. \A i \in Len(p) + 1 .. Len(q) : q[i] \in Names
      BY <1>1
    <2> QED
      BY <2>1, <2>2, <1>1, SubSeqProperties
  <1> HIDE DEF s
  <1>4. Len(s) = Len(q) - Len(p)
    BY <1>3, <1>2, <1>1
  <1>5. \A i \in 1 .. Len(q) - Len(p) : s[i] = q[Len(p) + i]
    BY <1>3, <1>1
  <1>6. /\ r \o s \in Seq(Names) /\ Len(r \o s) = Len(r) + Len(s)
        /\ \A i \in 1 .. Len(r) + Len(s) :
             (r \o s)[i] = IF i <= Len(r) THEN r[i] ELSE s[i - Len(r)]
    BY <1>1, <1>3, ConcatProperties
  <1>7. Renamed(q, p, r) = r \o s
    BY DEF Renamed, s
  <1> HIDE DEF s
  <1> DEFINE t == r \o s
  <1>8. ASSUME NEW i \in 1 .. Len(r) + Len(q) - Len(p)
        PROVE  t[i] = IF i <= Len(r) THEN r[i] ELSE q[i - Len(r) + Len(p)]
    <2>1. i \in 1 .. Len(r) + Len(s)
      BY <1>4, <1>1
    <2>2. CASE i <= Len(r)
      BY <2>1, <2>2, <1>6
    <2>3. CASE ~(i <= Len(r))
      <3>1. i - Len(r) \in 1 .. Len(q) - Len(p)
        BY <2>3, <1>1
      <3>2. s[i - Len(r)] = q[Len(p) + (i - Len(r))]
        BY <3>1, <1>5
      <3>3. Len(p) + (i - Len(r)) = i - Len(r) + Len(p)
        BY <1>1
      <3> QED
        BY <2>1, <2>3, <3>2, <3>3, <1>6
    <2> QED
      BY <2>2, <2>3
  <1>9. /\ t \in Seq(Names) /\ Len(t) = Len(r) + Len(q) - Len(p)
    BY <1>6, <1>4, <1>1
  <1> QED
    BY <1>7, <1>8, <1>9

LEMMA Renaming ==
  ASSUME NEW p \in Paths, NEW r \in Paths, NEW q \in AtOrBelow(p)
  PROVE  /\ q = p => Renamed(q, p, r) = r
         /\ Renamed(q, p, r) \in Paths => Renamed(q, p, r) \in AtOrBelow(r)
         /\ q # p /\ Renamed(q, p, r) \in Paths => Renamed(q, p, r) \in Below(r)
         /\ \A x \in AtOrBelow(p) : IsStrictPrefix(x, q) /\ Renamed(q, p, r) \in Paths =>
              Renamed(x, p, r) \in Paths /\ IsStrictPrefix(Renamed(x, p, r), Renamed(q, p, r))
  <1> DEFINE R(x) == Renamed(x, p, r)
  <1>1. /\ p \in Seq(Names) /\ q \in Seq(Names) /\ r \in Seq(Names) /\ q \in Paths
        /\ Len(p) \in Nat \ {0} /\ Len(q) \in Nat /\ Len(r) \in Nat \ {0}
    BY PathsTyped DEF AtOrBelow, Below
  <1>2. \A x \in AtOrBelow(p) :
          /\ R(x) \in Seq(Names) /\ Len(R(x)) = Len(r) + Len(x) - Len(p)
          /\ \A i \in 1 .. Len(r) + Len(x) - Len(p) :
               R(x)[i] = IF i <= Len(r) THEN r[i] ELSE x[i - Len(r) + Len(p)]
    BY RenamedNames
  <1> HIDE DEF R
  <1>3. Len(q) >= Len(p) /\ (q # p => Len(q) > Len(p))
    BY <1>1, PathOrder DEF AtOrBelow, Below
  <1>4. ASSUME q = p PROVE R(q) = r
    <2>1. R(q) \in Seq(Names) /\ Len(R(q)) = Len(r) /\ \A i \in 1 .. Len(r) : R(q)[i] = r[i]
      BY <1>1, <1>2, <1>4
    <2> QED
      BY <2>1, <1>1, SeqEqual
  <1>5. ASSUME q # p, R(q) \in Paths PROVE R(q) \in Below(r)
    <2>1. /\ Len(p) < Len(q) /\ R(q) \in Seq(Names) /\ Len(R(q)) = Len(r) + Len(q) - Len(p)
          /\ \A i \in 1 .. Len(r) + Len(q) - Len(p) :
               R(q)[i] = IF i <= Len(r) THEN r[i] ELSE q[i - Len(r) + Len(p)]
      BY <1>2, <1>3, <1>5
    <2>2. Len(r) < Len(R(q))
      BY <2>1, <1>1
    <2>3. \A i \in 1 .. Len(r) : r[i] = R(q)[i]
      <3> SUFFICES ASSUME NEW i \in 1 .. Len(r) PROVE r[i] = R(q)[i]
        OBVIOUS
      <3>1. i \in 1 .. Len(r) + Len(q) - Len(p) /\ i <= Len(r)
        BY <2>1, <1>1
      <3> QED
        BY <3>1, <2>1
    <2>4. IsStrictPrefix(r, R(q))
      BY <2>1, <2>2, <2>3, <1>1, StrictPrefix
    <2> QED
      BY <2>4, <1>5 DEF Below
  <1>6. ASSUME NEW x \in AtOrBelow(p), IsStrictPrefix(x, q), R(q) \in Paths
        PROVE  R(x) \in Paths /\ IsStrictPrefix(R(x), R(q))
    <2>1. /\ x \in Paths /\ x \in Seq(Names) /\ Len(x) \in Nat /\ Len(x) >= Len(p)
      BY <1>1, PathsTyped, PathOrder DEF AtOrBelow, Below
    <2>2. Len(x) < Len(q) /\ \A i \in 1 .. Len(x) : x[i] = q[i]
      BY <1>1, <2>1, <1>6, StrictPrefix
    <2> DEFINE n == Len(r) + Len(x) - Len(p)
    <2>3. /\ n \in 1 .. Len(R(q)) /\ Len(R(x)) = n /\ n < Len(R(q))
          /\ R(x) \in Seq(Names) /\ R(q) \in Seq(Names)
      BY <1>1, <2>1, <2>2, <1>2
    <2>4. \A i \in 1 .. n : R(x)[i] = R(q)[i]
      <3> SUFFICES ASSUME NEW i \in 1 .. n PROVE R(x)[i] = R(q)[i]
        OBVIOUS
      <3>1. R(x)[i] = IF i <= Len(r) THEN r[i] ELSE x[i - Len(r) + Len(p)]
        BY <1>2
      <3>2. R(q)[i] = IF i <= Len(r) THEN r[i] ELSE q[i - Len(r) + Len(p)]
        BY <1>1, <1>2, <2>1, <2>2
      <3>3. ~(i <= Len(r)) => i - Len(r) + Len(p) \in 1 .. Len(x)
        BY <1>1, <2>1
      <3> QED
        BY <3>1, <3>2, <3>3, <2>2
    <2> HIDE DEF n
    <2>5. IsStrictPrefix(R(x), R(q))
      BY <2>3, <2>4, StrictPrefix
    <2> DEFINE s == SubSeq(R(q), 1, n)
    <2>6. s \in Seq(Names) /\ Len(s) = n /\ \A i \in 1 .. n : s[i] = R(q)[i]
      <3>1. /\ 1 \in 1 .. Len(R(q)) + 1 /\ n \in 1 - 1 .. Len(R(q))
            /\ \A i \in 1 .. n : R(q)[i] \in Names
        BY <2>3
      <3> QED
        BY <3>1, <2>3, SubSeqProperties
    <2>7. s \in Prefixes(R(q)) \ {<<>>}
      BY <2>3, <2>6 DEF Prefixes
    <2> HIDE DEF s
    <2>8. s = R(x)
      BY <2>3, <2>4, <2>6, SeqEqual
    <2> QED
      BY <2>5, <2>7, <2>8, <1>6, TreeAssumption
  <1>7. R(q) \in Paths => R(q) \in AtOrBelow(r)
    BY <1>4, <1>5 DEF AtOrBelow
  <1> QED
    BY <1>4, <1>5, <1>6, <1>7 DEF R
----------------------------------------------------------------------------
LEMMA Repository ==
  /\ CvsDirs \subseteq Paths /\ CvsFiles \subseteq Paths /\ CvsDirs \cap CvsFiles = {}
  /\ 0 \notin Versions
  /\ \A p \in CvsDirs \cup CvsFiles, q \in Paths : IsStrictPrefix(q, p) => q \in CvsDirs
  BY TreeAssumption

LEMMA Order ==
  /\ \A p \in Paths : ~IsStrictPrefix(p, p)
  /\ \A p, q, r \in Paths : IsStrictPrefix(p, q) /\ IsStrictPrefix(q, r) => IsStrictPrefix(p, r)
  /\ \A p, q, r \in Paths : IsStrictPrefix(p, r) /\ IsStrictPrefix(q, r) =>
       p = q \/ IsStrictPrefix(p, q) \/ IsStrictPrefix(q, p)
  BY PathOrder

LEMMA InvParts ==
  ASSUME Inv
  PROVE  Types /\ Rooted(tree) /\ DiskRooted(local) /\ Entries /\ Places /\ JobFile
  BY DEF Inv

LEMMA InvNext ==
  ASSUME Types', Rooted(tree'), DiskRooted(local'), Entries', Places', JobFile'
  PROVE  Inv'
  BY DEF Inv
----------------------------------------------------------------------------
(* The operators on trees keep them rooted. *)
LEMMA EntryFields ==
  /\ \A k \in Kinds, v \in Versions \cup {0} :
       /\ Entry(k, v) \in [kind : Kinds, version : Versions \cup {0}]
       /\ Entry(k, v).kind = k /\ Entry(k, v).version = v
  /\ \A e \in [kind : Kinds, version : Versions \cup {0}] : e = Entry(e.kind, e.version)
  /\ None \in [kind : Kinds, version : Versions \cup {0}]
  /\ None.kind = "none" /\ None.version = 0 /\ ~IsDir(None)
  BY DEF Entry, None, Kinds, IsDir

LEMMA WithoutRooted ==
  ASSUME NEW t \in Trees, Rooted(t), NEW p \in Paths
  PROVE  /\ Without(t, p) \in Trees /\ Rooted(Without(t, p))
         /\ \A q \in Paths : Without(t, p)[q] = IF q \in AtOrBelow(p) THEN None ELSE t[q]
  <1>1. \A q \in Paths : Without(t, p)[q] = IF q \in AtOrBelow(p) THEN None ELSE t[q]
    BY DEF Without
  <1>2. Without(t, p) \in Trees
    BY EntryFields DEF Without, Trees
  <1>3. \A q, x \in Paths : x \in Above(q) /\ x \in AtOrBelow(p) => q \in AtOrBelow(p)
    BY Order DEF Above, Below, AtOrBelow
  <1> QED
    BY <1>1, <1>2, <1>3 DEF Rooted, Above

LEMMA WithRooted ==
  ASSUME NEW t \in Trees, Rooted(t), NEW p \in Paths,
         NEW e \in [kind : Kinds, version : Versions \cup {0}],
         \A q \in Above(p) : IsDir(t[q]),
         IsDir(e) \/ \A q \in Below(p) : t[q] = None
  PROVE  /\ With(t, p, e) \in Trees /\ Rooted(With(t, p, e))
         /\ \A q \in Paths : With(t, p, e)[q] = IF q = p THEN e ELSE t[q]
  <1>1. \A q \in Paths : With(t, p, e)[q] = IF q = p THEN e ELSE t[q]
    BY DEF With
  <1>2. With(t, p, e) \in Trees
    BY DEF With, Trees
  <1> QED
    BY <1>1, <1>2, Order DEF Rooted, Above, Below

LEMMA PopUpRooted ==
  ASSUME NEW t \in Trees, Rooted(t), NEW p \in Paths,
         p \in CvsFiles => \A q \in Above(p) : IsDir(t[q])
  PROVE  /\ PopUp(t, p) \in Trees /\ Rooted(PopUp(t, p))
         /\ \A q \in Paths : PopUp(t, p)[q] =
              IF q = p /\ p \in CvsFiles THEN Entry("cvs", 0)
              ELSE IF q \in AtOrBelow(p) THEN None ELSE t[q]
  <1> DEFINE w == Without(t, p)
  <1>1. /\ w \in Trees /\ Rooted(w)
        /\ \A q \in Paths : w[q] = IF q \in AtOrBelow(p) THEN None ELSE t[q]
    BY WithoutRooted
  <1>2. CASE p \notin CvsFiles
    BY <1>1, <1>2 DEF PopUp
  <1>3. CASE p \in CvsFiles
    <2>1. \A q \in Above(p) : q \in Paths /\ q \notin AtOrBelow(p)
      BY Order DEF Above, AtOrBelow, Below
    <2>2. \A q \in Above(p) : IsDir(w[q])
      BY <1>1, <1>3, <2>1
    <2>3. \A q \in Below(p) : w[q] = None
      BY <1>1 DEF AtOrBelow, Below
    <2>4. "cvs" \in Kinds /\ Entry("cvs", 0) \in [kind : Kinds, version : Versions \cup {0}]
      BY EntryFields DEF Kinds
    <2> HIDE DEF w
    <2>5. /\ With(w, p, Entry("cvs", 0)) \in Trees /\ Rooted(With(w, p, Entry("cvs", 0)))
          /\ \A q \in Paths : With(w, p, Entry("cvs", 0))[q] = IF q = p THEN Entry("cvs", 0) ELSE w[q]
      BY <1>1, <2>2, <2>3, <2>4, WithRooted
    <2> QED
      BY <1>1, <1>3, <2>5 DEF PopUp, w
  <1> QED
    BY <1>2, <1>3

LEMMA ParentsRooted ==
  ASSUME Inv, NEW p \in Paths, ParentFound(p)
  PROVE  /\ WithParents(p) \in Trees /\ Rooted(WithParents(p))
         /\ \A q \in Paths : WithParents(p)[q] =
              IF q \in Above(p) /\ tree[q] = None THEN Entry("phantom", 0) ELSE tree[q]
         /\ \A q \in Above(p) : IsDir(WithParents(p)[q])
  <1>1. tree \in Trees /\ Rooted(tree)
    BY InvParts DEF Types
  <1>2. /\ "phantom" \in Kinds /\ IsDir(Entry("phantom", 0))
        /\ Entry("phantom", 0) \in [kind : Kinds, version : Versions \cup {0}]
    BY EntryFields DEF Kinds, IsDir
  <1>3. \A q \in Paths : WithParents(p)[q] =
          IF q \in Above(p) /\ tree[q] = None THEN Entry("phantom", 0) ELSE tree[q]
    BY DEF WithParents
  <1>4. WithParents(p) \in Trees
    BY <1>1, <1>2 DEF WithParents, Trees
  <1>5. \A q \in Above(p) : q \in Paths /\ IsDir(WithParents(p)[q])
    BY <1>2, <1>3 DEF ParentFound, Above
  <1>6. Rooted(WithParents(p))
    <2> SUFFICES ASSUME NEW q \in Paths, WithParents(p)[q] # None, NEW x \in Above(q)
                 PROVE  IsDir(WithParents(p)[x])
      BY DEF Rooted
    <2>1. CASE q \in Above(p)
      BY <2>1, <1>5, Order DEF Above
    <2>2. CASE q \notin Above(p)
      <3>1. IsDir(tree[x]) /\ x \in Paths
        BY <1>1, <1>3, <2>2 DEF Rooted, Above
      <3>2. tree[x] # None
        BY <3>1, EntryFields
      <3> QED
        BY <3>1, <3>2, <1>3
    <2> QED
      BY <2>1, <2>2
  <1> QED
    BY <1>3, <1>4, <1>5, <1>6

(* What a mkdir or creat makes, or makes before it fails. *)
LEMMA Created ==
  ASSUME Inv, NEW p \in Paths, NEW k \in {"dir", "file"}, CanCreate(p, k), Create(p, k)
  PROVE  /\ local' \in Layers /\ DiskRooted(local') /\ local'[p] = k
         /\ \A q \in Paths : q # p =>
              local'[q] = IF q \in Above(p) THEN "dir" ELSE local[q]
  <1>1. local \in Layers /\ DiskRooted(local)
    BY InvParts DEF Types
  <1>2. \A q \in Above(p) : q \in Paths /\ q # p /\ Len(q) <= Len(p) /\ local[q] \in {"none", "dir"}
    <2> SUFFICES ASSUME NEW q \in Above(p)
                 PROVE  q \in Paths /\ q # p /\ Len(q) <= Len(p) /\ local[q] \in {"none", "dir"}
      OBVIOUS
    <2>1. q \in Paths /\ Len(q) < Len(p) /\ Len(q) \in Nat /\ Len(p) \in Nat
      BY PathOrder, PathsTyped DEF Above
    <2> QED
      BY <2>1, <1>1 DEF CanCreate, Layers
  <1>3. local' \in Layers
    BY <1>1 DEF Create, Parents, Layers
  <1>4. local'[p] = k /\ \A q \in Paths : q # p =>
          local'[q] = IF q \in Above(p) THEN "dir" ELSE local[q]
    BY <1>1, <1>2 DEF Create, Parents, Layers
  <1>5. DiskRooted(local')
    <2> SUFFICES ASSUME NEW q \in Paths, local'[q] # "none", NEW x \in Above(q)
                 PROVE  local'[x] = "dir"
      BY DEF DiskRooted
    <2>1. CASE q = p
      BY <2>1, <1>2, <1>4
    <2>2. CASE q \in Above(p)
      <3>1. x \in Above(p)
        BY <2>2, Order DEF Above
      <3> QED
        BY <3>1, <1>2, <1>4
    <2>3. CASE q # p /\ q \notin Above(p)
      <3>1. local[q] # "none" /\ x \in Paths /\ local[x] = "dir"
        BY <2>3, <1>1, <1>4 DEF DiskRooted, Above
      <3>2. k = "dir" \/ x # p
        BY <3>1 DEF CanCreate
      <3> QED
        BY <3>1, <3>2, <1>4
    <2> QED
      BY <2>1, <2>2, <2>3
  <1> QED
    BY <1>3, <1>4, <1>5

LEMMA CreatedPart ==
  ASSUME Inv, NEW p \in Paths, CreateFails(p)
  PROVE  /\ local' \in Layers /\ DiskRooted(local') /\ faulty'
         /\ \A q \in Paths : local'[q] = local[q] \/
              (q \in Above(p) /\ local[q] = "none" /\ local'[q] = "dir")
  <1>1. local \in Layers /\ DiskRooted(local)
    BY InvParts DEF Types
  <1>2. PICK n \in 0 .. Len(p) - 1 :
          /\ \A q \in Above(p) : Len(q) <= n => local[q] # "file"
          /\ local' = Parents(p, n) /\ faulty' = TRUE
    BY DEF CreateFails
  <1>3. \A q \in Paths : local'[q] =
          IF q \in Above(p) /\ Len(q) <= n /\ local[q] = "none" THEN "dir" ELSE local[q]
    BY <1>2 DEF Parents
  <1>4. local' \in Layers
    BY <1>1, <1>2 DEF Parents, Layers
  <1>5. DiskRooted(local')
    <2> SUFFICES ASSUME NEW q \in Paths, local'[q] # "none", NEW x \in Above(q)
                 PROVE  local'[x] = "dir"
      BY DEF DiskRooted
    <2>1. x \in Paths
      BY DEF Above
    <2>2. CASE local[q] # "none"
      BY <2>1, <2>2, <1>1, <1>3 DEF DiskRooted
    <2>3. CASE local[q] = "none"
      <3>1. q \in Above(p) /\ Len(q) <= n
        BY <2>3, <1>3
      <3>2. x \in Above(p) /\ Len(x) < Len(q)
        BY <3>1, PathOrder DEF Above
      <3>3. Len(x) \in Nat /\ Len(q) \in Nat /\ Len(p) \in Nat
        BY PathsTyped, <2>1
      <3>4. Len(x) <= n
        BY <3>1, <3>2, <3>3
      <3>5. local[x] \in {"none", "dir"}
        BY <3>2, <3>4, <2>1, <1>1, <1>2 DEF Layers
      <3> QED
        BY <3>2, <3>4, <3>5, <2>1, <1>3
    <2> QED
      BY <2>2, <2>3
  <1> QED
    BY <1>2, <1>3, <1>4, <1>5
----------------------------------------------------------------------------
(* The invariant holds at first, and each step keeps it. *)
LEMMA InvInit == Init => Inv
  <1> SUFFICES ASSUME Init PROVE Inv
    OBVIOUS
  <1> USE DEF Init, Nowhere, Unknown, NoCopy, Idle
  <1>1. /\ tree \in Trees /\ Rooted(tree) /\ local \in Layers /\ DiskRooted(local)
        /\ \A p \in Paths : tree[p] = None
    BY EntryFields DEF Trees, Rooted, Layers, DiskRooted
  <1>2. treeKnown \in Known /\ cvsKnown \in Known /\ remote \in Copied /\ out \in Copied
    BY DEF Known, Copied, Stored
  <1>3. job \in Jobs /\ crashes \in 0 .. MaxCrashes
    BY TreeAssumption DEF Jobs
  <1>4. Entries /\ Places /\ JobFile
    BY <1>1 DEF Entries, Places, JobFile, None, Entry, CheckoutSteps
  <1> QED
    BY <1>1, <1>2, <1>3, <1>4
    DEF Inv, Types

LEMMA StutterInv ==
  ASSUME Inv, UNCHANGED vars
  PROVE  Inv'
  BY DEF Inv, Types, Rooted, DiskRooted, Entries, Places, JobFile, Above, Below, vars,
     memory, disk

LEMMA GetFullEntryInv ==
  ASSUME Inv, NEW p \in Paths, NEW v \in Versions, GetFullEntry(p, v)
  PROVE  Inv'
  <1> USE InvParts DEF GetFullEntry, disk
  <1>1. Types'
    BY DEF Types, Known
  <1>2. Rooted(tree') /\ DiskRooted(local')
    OBVIOUS
  <1>3. Entries' /\ Places' /\ JobFile'
    BY DEF Entries, Places, JobFile
  <1> QED
    BY <1>1, <1>2, <1>3, InvNext

LEMMA MakeDirectoryInv ==
  ASSUME Inv, NEW p \in Paths, MakeDirectory(p)
  PROVE  Inv'
  <1> USE InvParts DEF MakeDirectory
  <1>1. CASE CreateFails(p) /\ UNCHANGED tree
    <2>1. /\ local' \in Layers /\ DiskRooted(local') /\ faulty'
          /\ \A q \in Paths : local'[q] = local[q] \/
               (q \in Above(p) /\ local[q] = "none" /\ local'[q] = "dir")
      BY <1>1, CreatedPart
    <2>2. faulty' \in BOOLEAN
      BY <1>1 DEF CreateFails
    <2>3. Types'
      BY <1>1, <2>1, <2>2 DEF Types
    <2>4. Entries' /\ JobFile'
      BY <1>1 DEF Entries, JobFile, Ready, Idle, CheckoutSteps
    <2>5. \A q \in Above(p) : tree[q].kind \notin {"cvs", "out"}
      BY EntryFields DEF ParentFound, IsDir
    <2>6. Places'
      BY <1>1, <2>1, <2>5 DEF Places
    <2> QED
      BY <1>1, <2>1, <2>3, <2>4, <2>6, InvNext
  <1>2. CASE /\ CanCreate(p, "dir") /\ Create(p, "dir")
             /\ tree' = With(WithParents(p), p, Entry("localDir", 0)) /\ UNCHANGED faulty
    <2>1. /\ local' \in Layers /\ DiskRooted(local') /\ local'[p] = "dir"
          /\ \A q \in Paths : q # p =>
               local'[q] = IF q \in Above(p) THEN "dir" ELSE local[q]
      BY <1>2, Created
    <2>2. /\ WithParents(p) \in Trees /\ Rooted(WithParents(p))
          /\ \A q \in Paths : WithParents(p)[q] =
               IF q \in Above(p) /\ tree[q] = None THEN Entry("phantom", 0) ELSE tree[q]
          /\ \A q \in Above(p) : IsDir(WithParents(p)[q])
      BY ParentsRooted
    <2>3. /\ IsDir(Entry("localDir", 0))
          /\ Entry("localDir", 0) \in [kind : Kinds, version : Versions \cup {0}]
      BY EntryFields DEF Kinds, IsDir
    <2>4. /\ tree' \in Trees /\ Rooted(tree')
          /\ \A q \in Paths : tree'[q] =
               IF q = p THEN Entry("localDir", 0) ELSE WithParents(p)[q]
      BY <1>2, <2>2, <2>3, WithRooted
    <2>5. Types'
      BY <1>2, <2>1, <2>4 DEF Types
    <2>6. \A q \in Above(p) : tree[q].kind \notin {"cvs", "out"}
      BY EntryFields DEF ParentFound, IsDir
    <2>7. loaded /\ p \notin CvsDirs
      BY Repository, EntryFields DEF Entries, Ready
    <2>8. Entries'
      BY <1>2, <2>2, <2>4, <2>7, EntryFields DEF Entries, Kinds
    <2>9. \A q \in Paths :
            \/ tree'[q].kind \in {"phantom", "localDir"} /\ local'[q] = "dir"
            \/ tree'[q] = tree[q] /\ local'[q] = local[q]
            \/ tree'[q] = tree[q] /\ local'[q] = "dir" /\ tree[q].kind \notin {"cvs", "out", "local"}
      BY <1>2, <2>1, <2>2, <2>4, EntryFields DEF ParentFound, IsDir, Kinds
    <2>10. Places'
      BY <1>2, <2>9 DEF Places
    <2>11. JobFile'
      BY DEF JobFile, Ready, Idle, CheckoutSteps
    <2> QED
      BY <2>1, <2>4, <2>5, <2>8, <2>10, <2>11, InvNext
  <1> QED
    BY <1>1, <1>2

LEMMA RemoveDirectoryInv ==
  ASSUME Inv, NEW p \in Paths, RemoveDirectory(p)
  PROVE  Inv'
  <1> USE InvParts DEF RemoveDirectory
  <1>0. p \notin CvsDirs
    BY DEF Entries, Ready
  <1>1. CASE /\ local[p] = "dir" /\ \A q \in Below(p) : local[q] = "none"
             /\ local' = [local EXCEPT ![p] = "none"] /\ UNCHANGED tree
    <2>1. local' \in Layers /\ \A q \in Paths : local'[q] = IF q = p THEN "none" ELSE local[q]
      BY <1>1 DEF Types, Layers
    <2>2. DiskRooted(local')
      BY <1>1, <2>1, Order DEF DiskRooted, Above, Below
    <2>3. Types'
      BY <1>1, <2>1 DEF Types
    <2>4. Entries' /\ JobFile'
      BY <1>1 DEF Entries, JobFile, Ready, Idle, CheckoutSteps
    <2>5. Places'
      BY <1>1, <2>1 DEF Places
    <2> QED
      BY <1>1, <2>2, <2>3, <2>4, <2>5, InvNext
  <1>2. CASE tree' = Without(tree, p) /\ UNCHANGED local
    <2>1. /\ tree' \in Trees /\ Rooted(tree')
          /\ \A q \in Paths : tree'[q] = IF q \in AtOrBelow(p) THEN None ELSE tree[q]
      BY <1>2, WithoutRooted DEF Types
    <2>2. Types'
      BY <1>2, <2>1 DEF Types
    <2>3. \A q \in AtOrBelow(p) : q \notin CvsDirs
      BY <1>0, Repository DEF AtOrBelow, Below
    <2>4. Entries'
      BY <2>1, <2>3, EntryFields DEF Entries, None, Entry
    <2>5. Places'
      BY <1>2, <2>1, <2>3, EntryFields DEF Places, None, Entry
    <2>6. JobFile'
      BY DEF JobFile, Ready, Idle, CheckoutSteps
    <2> QED
      BY <1>2, <2>1, <2>2, <2>4, <2>5, <2>6, InvNext
  <1> QED
    BY <1>1, <1>2

(* An operation that only adds the missing parents of a path. *)
LEMMA ParentsOnly ==
  ASSUME Inv, NEW p \in Paths, Ready, ParentFound(p), tree' = WithParents(p),
         UNCHANGED <<loaded, treeKnown, cvsKnown, disk, job, crashes, faulty>>
  PROVE  Inv'
  <1> USE InvParts DEF disk
  <1>1. /\ tree' \in Trees /\ Rooted(tree')
        /\ \A q \in Paths : tree'[q] =
             IF q \in Above(p) /\ tree[q] = None THEN Entry("phantom", 0) ELSE tree[q]
    BY ParentsRooted
  <1>2. \A q \in Paths : \/ tree'[q] = tree[q]
                         \/ /\ tree[q].kind = "none"
                            /\ tree'[q].kind = "phantom" /\ tree'[q].version = 0
    BY <1>1, EntryFields DEF Kinds
  <1>3. Types'
    BY <1>1 DEF Types
  <1>4. Entries'
    BY <1>2 DEF Entries, Ready
  <1>5. Places'
    BY <1>2 DEF Places
  <1>6. JobFile'
    BY DEF JobFile, Ready, Idle, CheckoutSteps
  <1> QED
    BY <1>1, <1>3, <1>4, <1>5, <1>6, InvNext

LEMMA MakeFileInv ==
  ASSUME Inv, NEW p \in Paths, MakeFile(p)
  PROVE  Inv'
  <1> DEFINE unloaded == tree[p].kind = "cvs" /\ treeKnown[p] # Versions
  <1> USE InvParts
  <1>0. /\ Ready /\ ParentFound(p)
        /\ UNCHANGED <<loaded, treeKnown, cvsKnown, remote, out, job, crashes>>
        /\ tree[p] = None \/ unloaded
    BY DEF MakeFile
  <1>1. /\ WithParents(p) \in Trees /\ Rooted(WithParents(p))
        /\ \A q \in Paths : WithParents(p)[q] =
             IF q \in Above(p) /\ tree[q] = None THEN Entry("phantom", 0) ELSE tree[q]
        /\ \A q \in Above(p) : IsDir(WithParents(p)[q])
    BY <1>0, ParentsRooted
  <1>2. \A q \in Above(p) : tree[q].kind \notin {"cvs", "out", "local"}
    BY <1>0, EntryFields DEF ParentFound, IsDir
  <1>3. \A q \in Above(p) : tree[q] = None => q \notin CvsDirs
    BY <1>0, EntryFields DEF Entries, Ready, Above
  <1>4. p \notin CvsDirs /\ loaded
    BY <1>0, Repository, EntryFields DEF Entries, Ready
  <1>5. JobFile'
    BY <1>0 DEF JobFile, Ready, Idle, CheckoutSteps
  <1>6. ASSUME tree' = WithParents(p) PROVE tree' \in Trees /\ Rooted(tree') /\ Entries'
    <2>1. Entries'
      BY <1>0, <1>1, <1>3, <1>4, <1>6, EntryFields DEF Entries, Kinds
    <2> QED
      BY <2>1, <1>1, <1>6
  <1>7. ASSUME CanCreate(p, "file"), Create(p, "file"), faulty' = (faulty \/ unloaded),
               tree' = IF unloaded THEN tree ELSE With(WithParents(p), p, Entry("local", 0))
        PROVE  Inv'
    <2>1. /\ local' \in Layers /\ DiskRooted(local') /\ local'[p] = "file"
          /\ \A q \in Paths : q # p =>
               local'[q] = IF q \in Above(p) THEN "dir" ELSE local[q]
      BY <1>7, Created
    <2>2. CASE unloaded
      <3>1. Types'
        BY <1>0, <1>7, <2>1, <2>2 DEF Types
      <3>2. Entries'
        BY <1>0, <1>7, <2>2 DEF Entries
      <3>3. Places'
        BY <1>0, <1>2, <1>4, <1>7, <2>1, <2>2 DEF Places
      <3> QED
        BY <1>5, <1>7, <2>1, <2>2, <3>1, <3>2, <3>3, InvNext
    <2>3. CASE ~unloaded
      <3>1. tree[p] = None
        BY <1>0, <2>3
      <3>2. \A q \in Paths : q \in Below(p) => tree[q] = None /\ q \notin Above(p)
        BY <3>1, EntryFields, Order DEF Rooted, Above, Below
      <3>3. \A q \in Below(p) : WithParents(p)[q] = None
        BY <3>2, <1>1 DEF Below
      <3>4. Entry("local", 0) \in [kind : Kinds, version : Versions \cup {0}]
        BY EntryFields DEF Kinds
      <3>5. /\ tree' \in Trees /\ Rooted(tree')
            /\ \A q \in Paths : tree'[q] =
                 IF q = p THEN Entry("local", 0) ELSE WithParents(p)[q]
        BY <1>1, <1>7, <2>3, <3>3, <3>4, WithRooted
      <3>6. Types'
        BY <1>0, <1>7, <2>1, <3>5 DEF Types
      <3>7. Entries'
        BY <1>0, <1>1, <1>3, <1>4, <3>5, EntryFields DEF Entries, Kinds
      <3>8. \A q \in Paths :
              \/ q = p /\ tree'[q].kind = "local" /\ local'[q] = "file"
              \/ tree'[q].kind = "phantom" /\ local'[q] = "dir"
              \/ tree'[q] = tree[q] /\ local'[q] = local[q]
              \/ /\ tree'[q] = tree[q] /\ local'[q] = "dir"
                 /\ tree[q].kind \notin {"cvs", "out", "local"}
        BY <1>1, <1>2, <2>1, <3>5, EntryFields DEF Kinds
      <3>9. Places'
        BY <1>0, <1>4, <3>8 DEF Places
      <3> QED
        BY <1>5, <2>1, <3>5, <3>6, <3>7, <3>9, InvNext
    <2> QED
      BY <2>2, <2>3
  <1>8. ASSUME CreateFails(p), tree' = WithParents(p) PROVE Inv'
    <2>1. /\ local' \in Layers /\ DiskRooted(local') /\ faulty' = TRUE
          /\ \A q \in Paths : local'[q] = local[q] \/
               (q \in Above(p) /\ local[q] = "none" /\ local'[q] = "dir")
      BY <1>8, CreatedPart DEF CreateFails
    <2>2. Types'
      BY <1>0, <1>6, <1>8, <2>1 DEF Types
    <2>3. \A q \in Paths :
            \/ tree'[q].kind = "phantom" /\ local'[q] \in {local[q], "dir"}
            \/ tree'[q] = tree[q] /\ local'[q] = local[q]
            \/ /\ tree'[q] = tree[q] /\ local'[q] = "dir"
               /\ tree[q].kind \notin {"cvs", "out", "local"}
      BY <1>1, <1>2, <1>8, <2>1, EntryFields DEF Kinds
    <2>4. Places'
      BY <1>0, <2>3 DEF Places
    <2> QED
      BY <1>5, <1>6, <1>8, <2>1, <2>2, <2>4, InvNext
  <1>9. ASSUME tree' = WithParents(p), UNCHANGED <<local, faulty>> PROVE Inv'
    BY <1>0, <1>9, ParentsOnly DEF disk
  <1> QED
    BY <1>7, <1>8, <1>9 DEF MakeFile

LEMMA Deleted ==
  ASSUME Inv, NEW p \in Paths, tree[p].kind \in {"local", "out"}, DeleteFile(p)
  PROVE  /\ local' \in Layers /\ DiskRooted(local') /\ out' \in Copied
         /\ \A q \in Paths : local'[q] \in {local[q], "none"} /\ (q # p => local'[q] = local[q])
         /\ \A q \in CvsFiles, v \in Versions :
              out'[q][v] \in {out[q][v], "none"} /\ (q # p => out'[q][v] = out[q][v])
  <1> USE InvParts
  <1>1. CASE tree[p].kind = "local" /\ local[p] = "file" /\ UNCHANGED out
             /\ local' = [local EXCEPT ![p] = "none"]
    <2>1. local' \in Layers /\ \A q \in Paths : local'[q] = IF q = p THEN "none" ELSE local[q]
      BY <1>1 DEF Types, Layers
    <2>2. DiskRooted(local')
      BY <1>1, <2>1, Order DEF DiskRooted, Above
    <2> QED
      BY <1>1, <2>1, <2>2 DEF Types
  <1>2. CASE UNCHANGED local /\ \E v \in CheckedOut(p) : out' = [out EXCEPT ![p][v] = "none"]
    <2>1. PICK v \in CheckedOut(p) : out' = [out EXCEPT ![p][v] = "none"]
      BY <1>2
    <2>2. p \in CvsFiles /\ v \in Versions
      BY <2>1 DEF CheckedOut
    <2>3. out' \in Copied
      BY <2>1, <2>2 DEF Types, Copied, Stored
    <2>4. \A q \in CvsFiles, w \in Versions :
            out'[q][w] = IF q = p /\ w = v THEN "none" ELSE out[q][w]
      BY <2>1, <2>2 DEF Types, Copied
    <2> QED
      BY <1>2, <2>3, <2>4 DEF Types
  <1> QED
    BY <1>1, <1>2 DEF DeleteFile

LEMMA RemoveFileInv ==
  ASSUME Inv, NEW p \in Paths, RemoveFile(p)
  PROVE  Inv'
  <1> USE InvParts DEF RemoveFile
  <1>1. /\ local' \in Layers /\ DiskRooted(local') /\ out' \in Copied
        /\ \A q \in Paths : local'[q] \in {local[q], "none"} /\ (q # p => local'[q] = local[q])
        /\ \A q \in CvsFiles, v \in Versions :
             out'[q][v] \in {out[q][v], "none"} /\ (q # p => out'[q][v] = out[q][v])
    BY Deleted
  <1>2. p \notin CvsDirs /\ loaded /\ local[p] # "dir"
    BY DEF Entries, Ready, Places
  <1>3. p \in CvsFiles => \A q \in Above(p) : IsDir(tree[q])
    BY EntryFields DEF Rooted
  <1>4. /\ tree' \in Trees /\ Rooted(tree')
        /\ \A q \in Paths : tree'[q] =
             IF q = p /\ p \in CvsFiles THEN Entry("cvs", 0)
             ELSE IF q \in AtOrBelow(p) THEN None ELSE tree[q]
    BY <1>3, PopUpRooted DEF Types
  <1>5. treeKnown' \in Known
    BY DEF Types, Known, KnownAfterPopUp
  <1>6. Types'
    BY <1>1, <1>4, <1>5 DEF Types
  <1>7. \A q \in AtOrBelow(p) : q \notin CvsDirs
    BY <1>2, Repository DEF AtOrBelow, Below
  <1>8. \A q \in Paths :
          \/ q = p /\ p \in CvsFiles /\ tree'[q].kind = "cvs" /\ tree'[q].version = 0
          \/ q \in AtOrBelow(p) /\ tree'[q].kind = "none" /\ tree'[q].version = 0
          \/ q # p /\ tree'[q] = tree[q]
    BY <1>4, EntryFields DEF Kinds, AtOrBelow
  <1>9. Entries'
    BY <1>2, <1>7, <1>8 DEF Entries
  <1>10. Places'
    BY <1>1, <1>2, <1>8 DEF Places, Entries
  <1>11. JobFile'
    BY DEF JobFile, Ready, Idle, CheckoutSteps
  <1> QED
    BY <1>1, <1>4, <1>6, <1>9, <1>10, <1>11, InvNext

(* Creating a local file that is there changes nothing on the disk. *)
LEMMA Truncated ==
  ASSUME Inv, NEW p \in Paths, TruncateFile(p)
  PROVE  local' \in Layers /\ DiskRooted(local') /\ faulty' \in BOOLEAN /\ UNCHANGED local
  <1> USE InvParts DEF TruncateFile, memory
  <1>1. local[p] = "file" /\ \A q \in Above(p) : local[q] = "dir"
    BY DEF Places, DiskRooted
  <1>2. local' \in Layers /\ DiskRooted(local') /\ faulty' \in BOOLEAN /\ UNCHANGED local
    <2>1. CASE CanCreate(p, "file") /\ Create(p, "file") /\ UNCHANGED faulty
      <3>1. /\ local' \in Layers /\ DiskRooted(local') /\ local'[p] = "file"
            /\ \A q \in Paths : q # p =>
                 local'[q] = IF q \in Above(p) THEN "dir" ELSE local[q]
        BY <2>1, Created
      <3>2. \A q \in Paths : local'[q] = local[q]
        BY <1>1, <3>1
      <3>3. local' = local
        BY <3>1, <3>2 DEF Types, Layers
      <3> QED
        BY <2>1, <3>1, <3>3 DEF Types
    <2>2. CASE CreateFails(p)
      <3>1. /\ local' \in Layers /\ DiskRooted(local') /\ faulty' = TRUE
            /\ \A q \in Paths : local'[q] = local[q] \/
                 (q \in Above(p) /\ local[q] = "none" /\ local'[q] = "dir")
        BY <2>2, CreatedPart DEF CreateFails
      <3>2. \A q \in Paths : local'[q] = local[q]
        BY <1>1, <3>1
      <3>3. local' = local
        BY <3>1, <3>2 DEF Types, Layers
      <3> QED
        BY <3>1, <3>3
    <2> QED
      BY <2>1, <2>2
  <1> QED
    BY <1>2

LEMMA TruncateFileInv ==
  ASSUME Inv, NEW p \in Paths, TruncateFile(p)
  PROVE  Inv'
  <1> USE InvParts DEF TruncateFile, memory
  <1>1. local' \in Layers /\ DiskRooted(local') /\ faulty' \in BOOLEAN /\ UNCHANGED local
    BY Truncated
  <1>2. Types'
    BY <1>1 DEF Types
  <1>3. Entries' /\ Places' /\ JobFile'
    BY <1>1 DEF Entries, Places, JobFile
  <1> QED
    BY <1>1, <1>2, <1>3, InvNext

LEMMA PutFileInv ==
  ASSUME Inv, NEW p \in Paths, PutFile(p)
  PROVE  Inv'
  <1> USE InvParts DEF PutFile, memory
  <1>1. p \in CvsFiles /\ tree[p].version \in Versions
    BY DEF Entries
  <1> PICK there \in Stored : /\ Written("whole", there)
                              /\ out' = [out EXCEPT ![p][tree[p].version] = there]
    OBVIOUS
  <1>2. out' \in Copied
    BY <1>1 DEF Types, Copied
  <1>3. \A q \in CvsFiles, v \in Versions : out[q][v] # "none" => out'[q][v] # "none"
    BY <1>1 DEF Types, Copied, Written
  <1>4. Types'
    BY <1>2 DEF Types
  <1>5. Entries' /\ JobFile'
    BY DEF Entries, JobFile
  <1>6. Places'
    BY <1>3 DEF Places, Entries
  <1> QED
    BY <1>4, <1>5, <1>6, InvNext

LEMMA LoadBegun ==
  ASSUME Inv, NEW p \in CvsFiles, NEW v \in Versions, BeginLoad(p, v)
  PROVE  remote' \in Copied /\ faulty' \in BOOLEAN
  <1>1. Types
    BY InvParts
  <1>2. CASE remote' = [remote EXCEPT ![p][v] = "partial"] /\ UNCHANGED faulty
    BY <1>1, <1>2 DEF Types, Copied, Stored
  <1>3. CASE faulty' = TRUE /\ UNCHANGED remote
    BY <1>1, <1>3 DEF Types
  <1> QED
    BY <1>2, <1>3 DEF BeginLoad

LEMMA GetFileInv ==
  ASSUME Inv, NEW p \in Paths, NEW v \in Versions, GetFile(p, v)
  PROVE  Inv'
  <1> USE InvParts DEF GetFile, memory
  <1>1. p \in CvsFiles /\ loaded
    BY DEF Entries, Ready
  <1>2. remote' \in Copied /\ faulty' \in BOOLEAN
    BY <1>1, LoadBegun
  <1>3. /\ job' = [op |-> "get", path |-> p, version |-> v, found |-> FALSE, known |-> v \in treeKnown[p]]
    BY DEF Start
  <1>4. job' \in Jobs
    BY <1>1, <1>3 DEF Jobs
  <1>5. Types'
    BY <1>2, <1>4 DEF Types
  <1>6. Entries' /\ Places'
    BY DEF Entries, Places
  <1>7. JobFile'
    BY <1>1, <1>3 DEF JobFile, CheckoutSteps
  <1> QED
    BY <1>5, <1>6, <1>7, InvNext

LEMMA NextJob ==
  /\ Idle \in Jobs
  /\ \A j \in Jobs : [j EXCEPT !.op = "create"] \in Jobs /\ [j EXCEPT !.op = "fetch"] \in Jobs
                      /\ [j EXCEPT !.op = "copy"] \in Jobs
  <1>1. Idle \in Jobs
    BY DEF Jobs, Idle
  <1>2. ASSUME NEW j \in Jobs, NEW o \in {"create", "fetch", "copy"}
        PROVE  [j EXCEPT !.op = o] \in Jobs
    BY DEF Jobs
  <1> QED
    BY <1>1, <1>2

(* A request that takes several steps begins with its file in place. *)
LEMMA Started ==
  ASSUME Inv, NEW p \in Paths, NEW v \in Versions, Checkout(p, v),
         tree' \in Trees, Rooted(tree'), local' \in Layers, DiskRooted(local'), out' \in Copied,
         Entries', Places', tree'[p].kind \in {"none", "cvs"}, local'[p] # "dir",
         \A q \in Below(p) : tree'[q] = None
  PROVE  Inv'
  <1> USE InvParts
  <1>1. Ready /\ UNCHANGED <<loaded, treeKnown, cvsKnown, remote, crashes, faulty>>
    BY DEF Checkout
  <1>2. CASE p \in CvsFiles /\ \E f, k \in BOOLEAN : Start("load", p, v, f, k)
    <2>1. PICK f, k \in BOOLEAN : Start("load", p, v, f, k)
      BY <1>2
    <2>2. job' = [op |-> "load", path |-> p, version |-> v, found |-> f, known |-> k]
      BY <2>1 DEF Start
    <2>3. job' \in Jobs
      BY <1>2, <2>2 DEF Jobs
    <2>4. Types'
      BY <1>1, <2>3 DEF Types
    <2>5. JobFile'
      BY <1>1, <1>2, <2>2 DEF JobFile, CheckoutSteps, Ready, Below
    <2> QED
      BY <2>4, <2>5, InvNext
  <1>3. CASE UNCHANGED job
    <2>1. Types'
      BY <1>1, <1>3 DEF Types
    <2>2. JobFile'
      BY <1>1, <1>3 DEF JobFile, CheckoutSteps, Ready, Idle
    <2> QED
      BY <2>1, <2>2, InvNext
  <1> QED
    <2> DEFINE found == tree[p].kind \in {"local", "out"}
               known == v \in (IF found THEN cvsKnown ELSE treeKnown)[p]
    <2>1. CASE p \in CvsFiles /\ tree[p] # None
      <3>1. Start("load", p, v, found, known)
        BY <2>1 DEF Checkout
      <3>2. found \in BOOLEAN /\ known \in BOOLEAN
        OBVIOUS
      <3> QED
        BY <1>2, <2>1, <3>1, <3>2
    <2>2. CASE ~(p \in CvsFiles /\ tree[p] # None)
      BY <1>3, <2>2 DEF Checkout
    <2> QED
      BY <2>1, <2>2

LEMMA CheckoutInv ==
  ASSUME Inv, NEW p \in Paths, NEW v \in Versions, Checkout(p, v)
  PROVE  Inv'
  <1> DEFINE found == tree[p].kind \in {"local", "out"}
  <1> USE InvParts
  <1>0. Ready /\ UNCHANGED <<loaded, treeKnown, cvsKnown, remote, crashes, faulty>>
    BY DEF Checkout
  <1>1. CASE found /\ DeleteFile(p) /\ tree' = Without(tree, p)
    <2>1. /\ local' \in Layers /\ DiskRooted(local') /\ out' \in Copied
          /\ \A q \in Paths : local'[q] \in {local[q], "none"} /\ (q # p => local'[q] = local[q])
          /\ \A q \in CvsFiles, w \in Versions :
               out'[q][w] \in {out[q][w], "none"} /\ (q # p => out'[q][w] = out[q][w])
      BY <1>1, Deleted
    <2>2. /\ tree' \in Trees /\ Rooted(tree')
          /\ \A q \in Paths : tree'[q] = IF q \in AtOrBelow(p) THEN None ELSE tree[q]
      BY <1>1, WithoutRooted DEF Types
    <2>3. loaded /\ p \notin CvsDirs /\ local[p] # "dir"
      BY <1>0, <1>1 DEF Entries, Ready, Places
    <2>4. \A q \in AtOrBelow(p) : q \notin CvsDirs
      BY <2>3, Repository DEF AtOrBelow, Below
    <2>5. Entries'
      BY <1>0, <2>2, <2>3, <2>4, EntryFields DEF Entries
    <2>6. Places'
      BY <1>0, <2>1, <2>2, EntryFields DEF Places, Entries, AtOrBelow
    <2>7. local'[p] # "dir"
      BY <2>1, <2>3
    <2>8. \A q \in AtOrBelow(p) : tree'[q].kind = "none" /\ tree'[q] = None
      BY <2>2, EntryFields DEF AtOrBelow, Below
    <2> QED
      BY <1>0, <1>1, <2>1, <2>2, <2>3, <2>5, <2>6, <2>7, <2>8, Started DEF AtOrBelow
  <1>2. CASE tree[p].kind = "cvs" /\ UNCHANGED <<tree, out, local>>
    <2>1. local[p] # "dir" /\ \A q \in Below(p) : tree[q] = None
      BY <1>2, EntryFields DEF Places, Rooted, IsDir, Above, Below
    <2>2. Rooted(tree') /\ DiskRooted(local') /\ tree' \in Trees /\ local' \in Layers /\ out' \in Copied
      BY <1>2 DEF Types
    <2>3. Entries' /\ Places'
      BY <1>0, <1>2 DEF Entries, Places
    <2>4. /\ tree'[p].kind \in {"none", "cvs"} /\ local'[p] # "dir"
          /\ \A q \in Below(p) : tree'[q] = None
      BY <1>2, <2>1
    <2> QED
      BY <1>0, <2>2, <2>3, <2>4, Started
  <1>3. CASE tree[p] = None /\ ParentFound(p) /\ tree' = WithParents(p) /\ UNCHANGED <<out, local>>
    <2>1. UNCHANGED job
      BY <1>3 DEF Checkout
    <2> QED
      BY <1>0, <1>3, <2>1, ParentsOnly DEF disk
  <1> QED
    BY <1>1, <1>2, <1>3 DEF Checkout

LEMMA ReceivedInv ==
  ASSUME Inv, Received
  PROVE  Inv'
  <1> USE InvParts
  <1>1. job.path \in CvsFiles /\ job.version \in Versions /\ job.op \in {"get", "fetch"} /\ loaded
    BY DEF Received, JobFile
  <1>2. UNCHANGED <<loaded, tree, out, local, crashes, faulty>>
    BY DEF Received
  <1>3. treeKnown' \in Known /\ cvsKnown' \in Known
    BY <1>1 DEF Received, Types, Known
  <1> PICK there \in Stored :
        remote' = [remote EXCEPT ![job.path][job.version] = IF @ = "none" THEN "none" ELSE there]
    BY DEF Received
  <1>4. remote' \in Copied
    BY <1>1 DEF Types, Copied, Stored
  <1>5. \/ job' = [job EXCEPT !.op = "create"] /\ job.op = "fetch"
        \/ job' = Idle
    BY DEF Received
  <1>6. job' \in Jobs
    BY <1>5, NextJob DEF Types
  <1>7. Types'
    BY <1>2, <1>3, <1>4, <1>6 DEF Types
  <1>8. Entries' /\ Places'
    BY <1>2 DEF Entries, Places
  <1>9. JobFile'
    BY <1>1, <1>2, <1>5 DEF JobFile, CheckoutSteps, Idle, Types, Jobs
  <1> QED
    BY <1>2, <1>7, <1>8, <1>9, InvNext

LEMMA NotReceivedInv ==
  ASSUME Inv, NotReceived
  PROVE  Inv'
  <1> USE InvParts DEF NotReceived, memory
  <1>1. job.path \in CvsFiles /\ job.version \in Versions
    BY DEF JobFile
  <1>2. remote' \in Copied
    BY <1>1 DEF Types, Copied, Stored
  <1>3. job' \in Jobs
    BY DEF Jobs, Idle
  <1>4. Types'
    BY <1>2, <1>3 DEF Types
  <1>5. Entries' /\ Places' /\ JobFile'
    BY DEF Entries, Places, JobFile, Idle, CheckoutSteps
  <1> QED
    BY <1>4, <1>5, InvNext

LEMMA CheckoutLoadInv ==
  ASSUME Inv, CheckoutLoad
  PROVE  Inv'
  <1> USE InvParts
  <1>1. job.path \in CvsFiles /\ job.version \in Versions /\ job.op = "load"
    BY DEF CheckoutLoad, JobFile
  <1>2. UNCHANGED <<memory, out, local, crashes>>
    BY DEF CheckoutLoad
  <1>3. remote' \in Copied /\ faulty' \in BOOLEAN
    BY <1>1, LoadBegun DEF CheckoutLoad, Types
  <1>4. job' \in {Idle, [job EXCEPT !.op = "create"], [job EXCEPT !.op = "fetch"]}
    BY DEF CheckoutLoad
  <1>5. job' \in Jobs
    BY <1>4, NextJob DEF Types
  <1>6. Types'
    BY <1>2, <1>3, <1>5 DEF Types, memory
  <1>7. Entries' /\ Places'
    BY <1>2 DEF Entries, Places, memory
  <1>8. JobFile'
    BY <1>1, <1>2, <1>4 DEF JobFile, CheckoutSteps, Idle, Types, Jobs, memory
  <1> QED
    BY <1>2, <1>6, <1>7, <1>8, InvNext DEF memory

LEMMA CheckoutCreateInv ==
  ASSUME Inv, CheckoutCreate
  PROVE  Inv'
  <1> USE InvParts
  <1>1. job.path \in CvsFiles /\ job.version \in Versions /\ job.op = "create"
    BY DEF CheckoutCreate, JobFile
  <1>2. UNCHANGED <<memory, remote, local, crashes>>
    BY DEF CheckoutCreate
  <1>3. /\ out' \in Copied /\ faulty' \in BOOLEAN
        /\ \A q \in CvsFiles, v \in Versions : out[q][v] # "none" => out'[q][v] # "none"
    <2>1. CASE out' = [out EXCEPT ![job.path][job.version] = "partial"] /\ UNCHANGED faulty
      BY <1>1, <2>1 DEF Types, Copied, Stored
    <2>2. CASE faulty' = TRUE /\ UNCHANGED out
      BY <2>2 DEF Types
    <2> QED
      BY <2>1, <2>2 DEF CheckoutCreate
  <1>4. job' \in {Idle, [job EXCEPT !.op = "copy"]}
    BY DEF CheckoutCreate
  <1>5. job' \in Jobs
    BY <1>4, NextJob DEF Types
  <1>6. Types'
    BY <1>2, <1>3, <1>5 DEF Types, memory
  <1>7. Entries'
    BY <1>2 DEF Entries, memory
  <1>8. Places'
    BY <1>2, <1>3 DEF Places, Entries, memory
  <1>9. JobFile'
    BY <1>1, <1>2, <1>4 DEF JobFile, CheckoutSteps, Idle, Types, Jobs, memory
  <1> QED
    BY <1>2, <1>6, <1>7, <1>8, <1>9, InvNext DEF memory

LEMMA CheckoutCopyInv ==
  ASSUME Inv, CheckoutCopy
  PROVE  Inv'
  <1> USE InvParts
  <1> DEFINE p == job.path
             v == job.version
  <1>1. /\ p \in CvsFiles /\ v \in Versions /\ loaded /\ local[p] # "dir" /\ p \in Paths
        /\ tree[p].kind \in {"none", "cvs"} /\ \A q \in Below(p) : tree[q] = None
    BY Repository DEF CheckoutCopy, JobFile, CheckoutSteps
  <1>2. UNCHANGED <<loaded, cvsKnown, remote, local, crashes, faulty>> /\ job' = Idle
    BY DEF CheckoutCopy
  <1>3. job' \in Jobs
    BY <1>2 DEF Jobs, Idle
  <1>4. JobFile'
    BY <1>2 DEF JobFile, Idle, CheckoutSteps
  <1>5. CASE UNCHANGED <<tree, treeKnown, out>>
    <2>1. Types'
      BY <1>2, <1>3, <1>5 DEF Types
    <2>2. Entries' /\ Places'
      BY <1>2, <1>5 DEF Entries, Places
    <2> QED
      BY <1>2, <1>4, <1>5, <2>1, <2>2, InvNext
  <1>6. ASSUME NEW there \in Stored, there # "none",
               /\ remote[p][v] # "none" /\ out' = [out EXCEPT ![p][v] = there]
               /\ tree' = With(tree, p, Entry("out", v)) /\ treeKnown' = [treeKnown EXCEPT ![p] = {}]
        PROVE  Inv'
    <2>1. \A q \in Above(p) : IsDir(tree[q])
      <3>1. \A q \in Above(p) : q \in Paths /\ q \in CvsDirs
        BY <1>1, Repository DEF Above
      <3> QED
        BY <1>1, <3>1 DEF Entries, IsDir
    <2>2. /\ Entry("out", v) \in [kind : Kinds, version : Versions \cup {0}]
          /\ Entry("out", v).kind = "out" /\ Entry("out", v).version = v
      BY <1>1, EntryFields DEF Kinds
    <2>3. /\ tree' \in Trees /\ Rooted(tree')
          /\ \A q \in Paths : tree'[q] = IF q = p THEN Entry("out", v) ELSE tree[q]
      BY <1>1, <1>6, <2>1, <2>2, WithRooted DEF Types
    <2>4. /\ out' \in Copied /\ out'[p][v] # "none"
          /\ \A q \in CvsFiles, w \in Versions : out[q][w] # "none" => out'[q][w] # "none"
      BY <1>1, <1>6 DEF Types, Copied
    <2>5. treeKnown' \in Known
      BY <1>1, <1>6 DEF Types, Known
    <2>6. Types'
      BY <1>2, <1>3, <2>3, <2>4, <2>5 DEF Types
    <2>7. p \notin CvsDirs
      BY <1>1, Repository
    <2>8. Entries'
      BY <1>1, <1>2, <2>2, <2>3, <2>7 DEF Entries
    <2>9. Places'
      BY <1>1, <1>2, <2>2, <2>3, <2>4 DEF Places, Entries
    <2> QED
      BY <1>2, <1>4, <2>3, <2>6, <2>8, <2>9, InvNext
  <1>7. CASE remote[p][v] # "none"
    <2>1. PICK there \in Stored : /\ Written(remote[p][v], there)
                                  /\ out' = [out EXCEPT ![p][v] = there]
      BY <1>7 DEF CheckoutCopy
    <2>2. there # "none"
      BY <1>7, <2>1 DEF Written
    <2> QED
      BY <1>6, <1>7, <2>1, <2>2 DEF CheckoutCopy
  <1> QED
    BY <1>5, <1>7 DEF CheckoutCopy

(* What the daemon finds when it starts. *)
LEMMA FreshEntry ==
  ASSUME Inv, NEW last \in [CvsFiles -> Versions],
         \A p \in CvsFiles : CheckedOut(p) = {} \/ last[p] \in CheckedOut(p), NEW p \in Paths
  PROVE  /\ Fresh(p, last) \in [kind : Kinds, version : Versions \cup {0}]
         /\ Fresh(p, last).kind = "local" => local[p] = "file"
         /\ Fresh(p, last).kind = "out" =>
              /\ p \in CvsFiles /\ Fresh(p, last).version = last[p]
              /\ out[p][last[p]] # "none" /\ local[p] = "none"
         /\ Fresh(p, last).kind = "cvs" => p \in CvsFiles /\ local[p] = "none"
         /\ Fresh(p, last).kind # "out" => Fresh(p, last).version = 0
         /\ Fresh(p, last).kind = "remoteDir" <=> p \in CvsDirs
  <1> USE InvParts, Repository, EntryFields DEF Fresh, Types, Layers
  <1>1. CASE local[p] = "file"
    <2>1. Fresh(p, last) = Entry("local", 0) /\ p \notin CvsDirs
      BY <1>1 DEF Places
    <2> QED
      BY <1>1, <2>1 DEF Kinds
  <1>2. CASE local[p] # "file" /\ (local[p] = "dir" \/ p \in CvsDirs)
    <2>1. Fresh(p, last) = Entry(IF p \in CvsDirs THEN "remoteDir" ELSE "localDir", 0)
      BY <1>2
    <2> QED
      BY <1>2, <2>1 DEF Kinds
  <1>3. CASE local[p] = "none" /\ p \notin CvsDirs /\ CheckedOut(p) # {}
    <2>1. /\ Fresh(p, last) = Entry("out", last[p]) /\ p \in CvsFiles
          /\ last[p] \in Versions /\ out[p][last[p]] # "none"
      BY <1>3 DEF CheckedOut
    <2> QED
      BY <1>3, <2>1 DEF Kinds
  <1>4. CASE local[p] = "none" /\ p \notin CvsDirs /\ CheckedOut(p) = {}
    <2>1. Fresh(p, last) = IF p \in CvsFiles THEN Entry("cvs", 0) ELSE None
      BY <1>4
    <2> QED
      BY <1>4, <2>1 DEF Kinds
  <1> QED
    BY <1>1, <1>2, <1>3, <1>4

LEMMA FreshTree ==
  ASSUME Inv, NEW t \in FreshTrees
  PROVE  \E last \in [CvsFiles -> Versions] :
           /\ \A p \in CvsFiles : CheckedOut(p) = {} \/ last[p] \in CheckedOut(p)
           /\ \A p \in Paths : t[p] =
                IF \A q \in Above(p) : IsDir(Fresh(q, last)) THEN Fresh(p, last) ELSE None
           /\ t \in Trees /\ Rooted(t)
  <1>1. PICK last \in [CvsFiles -> Versions] :
          /\ \A p \in CvsFiles : CheckedOut(p) = {} \/ last[p] \in CheckedOut(p)
          /\ t = [p \in Paths |->
                   IF \A q \in Above(p) : IsDir(Fresh(q, last)) THEN Fresh(p, last) ELSE None]
    BY DEF FreshTrees
  <1>2. \A p \in Paths : Fresh(p, last) \in [kind : Kinds, version : Versions \cup {0}]
    BY <1>1, FreshEntry
  <1>3. t \in Trees
    BY <1>1, <1>2, EntryFields DEF Trees
  <1>4. \A p \in Paths : t[p] =
          IF \A q \in Above(p) : IsDir(Fresh(q, last)) THEN Fresh(p, last) ELSE None
    BY <1>1
  <1>5. Rooted(t)
    <2> SUFFICES ASSUME NEW p \in Paths, t[p] # None, NEW q \in Above(p) PROVE IsDir(t[q])
      BY DEF Rooted
    <2>1. q \in Paths /\ \A x \in Above(p) : IsDir(Fresh(x, last))
      BY <1>4 DEF Above
    <2>2. \A x \in Above(q) : x \in Above(p)
      BY Order DEF Above
    <2> QED
      BY <1>4, <2>1, <2>2
  <1> QED
    BY <1>1, <1>3, <1>4, <1>5

LEMMA LoadTreeInv ==
  ASSUME Inv, LoadTree
  PROVE  Inv'
  <1> USE InvParts
  <1>0. /\ job = Idle /\ loaded' = TRUE /\ tree' \in FreshTrees /\ ~loaded
        /\ treeKnown' = Unknown /\ cvsKnown' = Unknown
        /\ UNCHANGED <<remote, out, local, job, crashes, faulty>>
    BY DEF LoadTree, disk
  <1>1. PICK last \in [CvsFiles -> Versions] :
           /\ \A p \in CvsFiles : CheckedOut(p) = {} \/ last[p] \in CheckedOut(p)
           /\ \A p \in Paths : tree'[p] =
                IF \A q \in Above(p) : IsDir(Fresh(q, last)) THEN Fresh(p, last) ELSE None
           /\ tree' \in Trees /\ Rooted(tree')
    BY <1>0, FreshTree
  <1>2. \A p \in Paths :
          /\ Fresh(p, last).kind = "local" => local[p] = "file"
          /\ Fresh(p, last).kind = "out" =>
               /\ p \in CvsFiles /\ Fresh(p, last).version = last[p]
               /\ out[p][last[p]] # "none" /\ local[p] = "none"
          /\ Fresh(p, last).kind = "cvs" => p \in CvsFiles /\ local[p] = "none"
          /\ Fresh(p, last).kind # "out" => Fresh(p, last).version = 0
          /\ Fresh(p, last).kind = "remoteDir" <=> p \in CvsDirs
    BY <1>1, FreshEntry
  <1>3. \A p \in CvsDirs : tree'[p].kind = "remoteDir"
    <2>1. \A p \in CvsDirs : \A q \in Above(p) : q \in CvsDirs
      BY Repository DEF Above
    <2>2. \A p \in CvsDirs : p \in Paths /\ IsDir(Fresh(p, last))
      BY <1>2, Repository DEF IsDir
    <2> QED
      BY <1>1, <1>2, <2>1, <2>2
  <1>4. \A p \in Paths : tree'[p] = Fresh(p, last) \/ tree'[p] = None
    BY <1>1
  <1>5. Types'
    BY <1>0, <1>1 DEF Types, Unknown, Known
  <1>6. Entries'
    BY <1>0, <1>2, <1>3, <1>4, EntryFields DEF Entries
  <1>7. Places'
    BY <1>0, <1>2, <1>4, EntryFields DEF Places
  <1>8. JobFile'
    BY <1>0 DEF JobFile, Idle, CheckoutSteps
  <1> QED
    BY <1>0, <1>1, <1>5, <1>6, <1>7, <1>8, InvNext

LEMMA CrashInv ==
  ASSUME Inv, Crash
  PROVE  Inv'
  <1> USE InvParts
  <1>0. /\ loaded' = FALSE /\ tree' = Nowhere /\ treeKnown' = Unknown /\ cvsKnown' = Unknown
        /\ job' = Idle /\ crashes < MaxCrashes /\ crashes' = crashes + 1
        /\ UNCHANGED <<remote, out, local, faulty>>
    BY DEF Crash, disk
  <1>1. tree' \in Trees /\ Rooted(tree') /\ \A p \in Paths : tree'[p] = None
    BY <1>0, EntryFields DEF Nowhere, Trees, Rooted
  <1>2. crashes' \in 0 .. MaxCrashes
    BY <1>0, TreeAssumption DEF Types
  <1>3. treeKnown' \in Known /\ cvsKnown' \in Known
    BY <1>0 DEF Unknown, Known
  <1>4. Types'
    BY <1>0, <1>1, <1>2, <1>3, NextJob DEF Types
  <1>5. Entries' /\ JobFile'
    BY <1>0, <1>1, EntryFields DEF Entries, JobFile, Idle, CheckoutSteps
  <1>6. Places'
    BY <1>0, <1>1, EntryFields DEF Places
  <1> QED
    BY <1>0, <1>1, <1>4, <1>5, <1>6, InvNext

(* Moves: below what is moved there is nothing of the repository, and where *)
(* it goes is none of its directories.                                      *)
Movable(p, r) ==
  /\ Ready /\ p \in Paths /\ r \in Paths /\ p # r /\ tree[p] # None /\ ParentFound(r)
  /\ tree[p].kind \in {"local", "out", "localDir"}
  /\ tree[r].kind \in {"none", "local", "out", "localDir"}

LEMMA MovablePaths ==
  ASSUME Inv, NEW p, NEW r, Movable(p, r)
  PROVE  /\ \A q \in AtOrBelow(p) \cup AtOrBelow(r) : q \in Paths /\ q \notin CvsDirs
         /\ \A q \in Below(p) \cup Below(r) : tree[q].kind \notin {"cvs", "out"} /\ q \notin CvsFiles
         /\ \A q \in Above(r) : tree[q] = None => q \notin CvsDirs
         /\ p \in Paths /\ r \in Paths /\ loaded
  <1>1. p \in Paths /\ r \in Paths /\ loaded /\ p \notin CvsDirs /\ r \notin CvsDirs
    BY InvParts DEF Movable, Entries, Ready
  <1>2. \A q \in Above(r) : tree[q] = None => q \notin CvsDirs
    BY <1>1, InvParts, EntryFields DEF Entries, Above
  <1>3. \A q \in AtOrBelow(p) \cup AtOrBelow(r) : q \in Paths /\ q \notin CvsDirs
    BY <1>1, Repository DEF AtOrBelow, Below
  <1>4. \A q \in Below(p) \cup Below(r) : q \in Paths /\ q \notin CvsFiles
    BY <1>1, Repository DEF Below
  <1> QED
    BY <1>1, <1>2, <1>3, <1>4, InvParts DEF Entries

LEMMA CloneFields ==
  ASSUME NEW e \in [kind : Kinds, version : Versions \cup {0}]
  PROVE  /\ Clone(e) \in [kind : Kinds, version : Versions \cup {0}]
         /\ Clone(e).kind \in {"none", "localDir", "local"} /\ Clone(e).version = 0
         /\ IsDir(e) => IsDir(Clone(e))
         /\ Clone(e).kind = "local" => ~IsDir(e) /\ e # None
         /\ Clone(e) # None => e # None
  <1>1. CASE e = None
    BY <1>1, EntryFields DEF Clone
  <1>2. CASE e # None /\ IsDir(e)
    <2>1. Clone(e) = Entry("localDir", 0)
      BY <1>2 DEF Clone
    <2> QED
      BY <1>2, <2>1, EntryFields DEF Kinds, IsDir
  <1>3. CASE e # None /\ ~IsDir(e)
    <2>1. Clone(e) = Entry("local", 0)
      BY <1>3 DEF Clone
    <2> QED
      BY <1>3, <2>1, EntryFields DEF Kinds, IsDir
  <1> QED
    BY <1>1, <1>2, <1>3

LEMMA MovedRooted ==
  ASSUME Inv, NEW p, NEW r, Movable(p, r)
  PROVE  /\ MovedTree(p, r) \in Trees /\ Rooted(MovedTree(p, r))
         /\ \A q \in Paths : MovedTree(p, r)[q] =
              IF tree[r] = None /\ q \in AtOrBelow(r) /\ Renamed(q, r, p) \in Paths
              THEN Clone(tree[Renamed(q, r, p)]) ELSE WithParents(r)[q]
         /\ p \in CvsFiles => \A q \in Above(p) : IsDir(MovedTree(p, r)[q])
  <1> DEFINE m == MovedTree(p, r)
  <1>1. /\ p \in Paths /\ r \in Paths /\ ParentFound(r) /\ tree \in Trees /\ Rooted(tree)
        /\ \A q \in Paths : tree[q] \in [kind : Kinds, version : Versions \cup {0}]
    BY InvParts DEF Movable, Types, Trees
  <1>2. /\ WithParents(r) \in Trees /\ Rooted(WithParents(r))
        /\ \A q \in Paths : WithParents(r)[q] =
             IF q \in Above(r) /\ tree[q] = None THEN Entry("phantom", 0) ELSE tree[q]
        /\ \A q \in Above(r) : IsDir(WithParents(r)[q])
    BY <1>1, ParentsRooted
  <1>3. \A q \in Paths : m[q] =
          IF tree[r] = None /\ q \in AtOrBelow(r) /\ Renamed(q, r, p) \in Paths
          THEN Clone(tree[Renamed(q, r, p)]) ELSE WithParents(r)[q]
    BY DEF MovedTree
  <1>4. m \in Trees
    BY <1>1, <1>2, CloneFields DEF MovedTree, Trees
  <1> HIDE DEF m
  <1>5. Rooted(m)
    <2> SUFFICES ASSUME NEW q \in Paths, m[q] # None, NEW x \in Above(q) PROVE IsDir(m[x])
      BY DEF Rooted
    <2>0. x \in Paths /\ IsStrictPrefix(x, q)
      BY DEF Above
    <2>1. CASE tree[r] = None /\ q \in AtOrBelow(r) /\ Renamed(q, r, p) \in Paths
      <3>1. m[q] = Clone(tree[Renamed(q, r, p)]) /\ tree[Renamed(q, r, p)] # None
        BY <1>1, <1>3, <2>1, CloneFields
      <3>2. CASE x \in AtOrBelow(r)
        <4>1. Renamed(x, r, p) \in Paths /\ IsStrictPrefix(Renamed(x, r, p), Renamed(q, r, p))
          BY <1>1, <2>0, <2>1, <3>2, Renaming
        <4>2. IsDir(tree[Renamed(x, r, p)])
          BY <1>1, <2>1, <3>1, <4>1 DEF Rooted, Above
        <4>3. m[x] = Clone(tree[Renamed(x, r, p)])
          BY <1>3, <2>0, <2>1, <3>2, <4>1
        <4> QED
          BY <1>1, <4>1, <4>2, <4>3, CloneFields
      <3>3. CASE x \notin AtOrBelow(r)
        <4>1. x \in Above(r)
          BY <1>1, <2>0, <2>1, <3>3, Order DEF AtOrBelow, Below, Above
        <4> QED
          BY <1>2, <1>3, <2>0, <3>3, <4>1
      <3> QED
        BY <3>2, <3>3
    <2>2. CASE ~(tree[r] = None /\ q \in AtOrBelow(r) /\ Renamed(q, r, p) \in Paths)
      <3>1. WithParents(r)[q] # None /\ IsDir(WithParents(r)[x])
        BY <1>2, <1>3, <2>2 DEF Rooted
      <3>2. CASE tree[r] # None
        BY <1>3, <2>0, <3>1, <3>2
      <3>3. CASE tree[r] = None /\ q \in AtOrBelow(r)
        <4>1. q # r
          BY <1>1, <2>2, <3>3, Renaming
        <4>2. tree[q] = None
          BY <1>1, <3>3, <4>1, EntryFields DEF Rooted, AtOrBelow, Below, Above
        <4>3. q \notin Above(r)
          BY <1>1, <3>3, <4>1, Order DEF AtOrBelow, Below, Above
        <4> QED
          BY <1>2, <3>1, <4>2, <4>3
      <3>4. CASE q \notin AtOrBelow(r)
        <4>1. x \notin AtOrBelow(r)
          BY <1>1, <2>0, <3>4, Order DEF AtOrBelow, Below
        <4> QED
          BY <1>3, <2>0, <3>1, <4>1
      <3> QED
        BY <3>2, <3>3, <3>4
    <2> QED
      BY <2>1, <2>2
  <1>6. ASSUME p \in CvsFiles, NEW q \in Above(p) PROVE IsDir(m[q])
    <2>1. q \in Paths /\ q \in CvsDirs
      BY <1>6, <1>1, Repository DEF Above
    <2>2. q \notin AtOrBelow(r) /\ (q \in Above(r) => tree[q] # None)
      BY <2>1, MovablePaths
    <2>3. m[q] = tree[q]
      BY <1>2, <1>3, <2>1, <2>2
    <2>4. tree[q].kind = "remoteDir"
      BY <2>1, InvParts, MovablePaths DEF Entries
    <2> QED
      BY <2>3, <2>4 DEF IsDir
  <1> QED
    BY <1>3, <1>4, <1>5, <1>6 DEF m

(* The entries after a move. *)
LEMMA MovedEntries ==
  ASSUME Inv, NEW p, NEW r, Movable(p, r), tree' = PopUp(MovedTree(p, r), p)
  PROVE  /\ tree' \in Trees /\ Rooted(tree')
         /\ \A q \in Paths :
              \/ q = p /\ p \in CvsFiles /\ tree'[q].kind = "cvs" /\ tree'[q].version = 0
              \/ q \in AtOrBelow(p) /\ tree'[q].kind = "none" /\ tree'[q].version = 0
              \/ /\ q \in AtOrBelow(r) /\ q \notin AtOrBelow(p) /\ tree[r] = None
                 /\ Renamed(q, r, p) \in Paths /\ tree'[q] = Clone(tree[Renamed(q, r, p)])
              \/ /\ q \in Above(r) /\ tree[q] = None
                 /\ tree'[q].kind = "phantom" /\ tree'[q].version = 0
              \/ q \notin AtOrBelow(p) /\ tree'[q] = tree[q]
  <1> DEFINE m == MovedTree(p, r)
  <1>1. /\ m \in Trees /\ Rooted(m)
        /\ \A q \in Paths : m[q] =
             IF tree[r] = None /\ q \in AtOrBelow(r) /\ Renamed(q, r, p) \in Paths
             THEN Clone(tree[Renamed(q, r, p)]) ELSE WithParents(r)[q]
        /\ p \in CvsFiles => \A q \in Above(p) : IsDir(m[q])
    BY MovedRooted
  <1>2. p \in Paths /\ r \in Paths
    BY DEF Movable
  <1> HIDE DEF m
  <1>3. /\ tree' \in Trees /\ Rooted(tree')
        /\ \A q \in Paths : tree'[q] =
             IF q = p /\ p \in CvsFiles THEN Entry("cvs", 0)
             ELSE IF q \in AtOrBelow(p) THEN None ELSE m[q]
    BY <1>1, <1>2, PopUpRooted DEF m
  <1>4. \A q \in Paths : WithParents(r)[q] =
          IF q \in Above(r) /\ tree[q] = None THEN Entry("phantom", 0) ELSE tree[q]
    BY DEF WithParents
  <1>5. ASSUME NEW q \in Paths
        PROVE  \/ q = p /\ p \in CvsFiles /\ tree'[q].kind = "cvs" /\ tree'[q].version = 0
               \/ q \in AtOrBelow(p) /\ tree'[q].kind = "none" /\ tree'[q].version = 0
               \/ /\ q \in AtOrBelow(r) /\ q \notin AtOrBelow(p) /\ tree[r] = None
                  /\ Renamed(q, r, p) \in Paths /\ tree'[q] = Clone(tree[Renamed(q, r, p)])
               \/ /\ q \in Above(r) /\ tree[q] = None
                  /\ tree'[q].kind = "phantom" /\ tree'[q].version = 0
               \/ q \notin AtOrBelow(p) /\ tree'[q] = tree[q]
    <2>1. CASE q \in AtOrBelow(p)
      BY <1>3, <2>1, EntryFields DEF Kinds
    <2>2. CASE q \notin AtOrBelow(p)
      <3>1. tree'[q] = m[q]
        BY <1>3, <2>2 DEF AtOrBelow
      <3>2. Entry("phantom", 0).kind = "phantom" /\ Entry("phantom", 0).version = 0
        BY EntryFields DEF Kinds
      <3> QED
        BY <1>1, <1>4, <2>2, <3>1, <3>2
    <2> QED
      BY <2>1, <2>2
  <1> QED
    BY <1>3, <1>5

(* The disk after a file has moved. *)
FileMoved(p, r, from, to) ==
  /\ from \in Copies(p) /\ to \in Copies(r)
  /\ tree[p].kind = "out" => p \in CvsFiles /\ from \in Versions /\ out[p][from] # "none"
  /\ tree[p].kind # "out" => from = 0 /\ local[p] = "file"
  /\ tree[r].kind = "out" => r \in CvsFiles /\ to \in Versions /\ out[r][to] # "none"
  /\ tree[r].kind # "out" => to = 0
  /\ local[r] # "dir"
  /\ \A f \in CvsFiles, v \in Versions : out'[f][v] =
       IF f = p /\ v = from THEN "none"
       ELSE IF f = r /\ v = to THEN (IF from = 0 THEN "whole" ELSE out[p][from])
       ELSE out[f][v]
  /\ \A q \in Paths : local'[q] =
       IF q = p /\ tree[p].kind # "out" THEN "none"
       ELSE IF q = r /\ tree[r].kind # "out" THEN "file" ELSE local[q]

LEMMA FileRenamed ==
  ASSUME Inv, NEW p, NEW r, Movable(p, r), RenameFile(p, r)
  PROVE  /\ local' \in Layers /\ DiskRooted(local') /\ out' \in Copied
         /\ \E from \in Copies(p), to \in Copies(r) : FileMoved(p, r, from, to)
  <1>1. PICK from \in Copies(p), to \in Copies(r) :
          /\ from = 0 => local[p] = "file"
          /\ to = 0 => local[r] # "dir" /\ \A q \in Above(r) : local[q] = "dir"
          /\ out' = [f \in CvsFiles |-> [v \in Versions |->
               IF f = p /\ v = from THEN "none"
               ELSE IF f = r /\ v = to THEN (IF from = 0 THEN "whole" ELSE out[p][from])
               ELSE out[f][v]]]
          /\ local' = [q \in Paths |->
               IF q = p /\ from = 0 THEN "none" ELSE IF q = r /\ to = 0 THEN "file" ELSE local[q]]
    BY DEF RenameFile
  <1>2. p \in Paths /\ r \in Paths /\ p # r /\ loaded
    BY MovablePaths DEF Movable
  <1>3. /\ tree[p].kind = "out" => p \in CvsFiles /\ from \in Versions /\ out[p][from] # "none"
        /\ tree[p].kind # "out" => from = 0
        /\ tree[r].kind = "out" => r \in CvsFiles /\ to \in Versions /\ out[r][to] # "none"
        /\ tree[r].kind # "out" => to = 0
        /\ (from = 0 <=> tree[p].kind # "out") /\ (to = 0 <=> tree[r].kind # "out")
    BY <1>2, InvParts, Repository DEF Entries, Copies, CheckedOut
  <1>4. local[r] # "dir" /\ (tree[p].kind # "out" => local[p] = "file")
    BY <1>1, <1>2, <1>3, InvParts DEF Places
  <1>5. out' \in Copied
    BY <1>1, <1>3, InvParts DEF Types, Copied, Stored
  <1>6. /\ \A f \in CvsFiles, v \in Versions : out'[f][v] =
             IF f = p /\ v = from THEN "none"
             ELSE IF f = r /\ v = to THEN (IF from = 0 THEN "whole" ELSE out[p][from])
             ELSE out[f][v]
        /\ \A q \in Paths : local'[q] =
             IF q = p /\ tree[p].kind # "out" THEN "none"
             ELSE IF q = r /\ tree[r].kind # "out" THEN "file" ELSE local[q]
    BY <1>1, <1>3
  <1>7. local' \in Layers
    BY <1>1, InvParts DEF Types, Layers
  <1>8. DiskRooted(local')
    <2> SUFFICES ASSUME NEW q \in Paths, local'[q] # "none", NEW x \in Above(q)
                 PROVE  local'[x] = "dir"
      BY DEF DiskRooted
    <2>1. x \in Paths /\ IsStrictPrefix(x, q)
      BY DEF Above
    <2>2. CASE q = r /\ tree[r].kind # "out"
      <3>1. local[x] = "dir"
        BY <1>1, <1>3, <2>2
      <3>2. x # r /\ (x = p => tree[p].kind = "out")
        BY <1>2, <1>4, <2>1, <2>2, <3>1, Order
      <3> QED
        BY <1>6, <2>1, <3>1, <3>2
    <2>3. CASE ~(q = r /\ tree[r].kind # "out")
      <3>1. local[q] # "none"
        BY <1>6, <2>3
      <3>2. local[x] = "dir"
        BY <3>1, InvParts DEF DiskRooted
      <3>3. x # r /\ (x = p => tree[p].kind = "out")
        BY <1>4, <3>2
      <3> QED
        BY <1>6, <2>1, <3>2, <3>3
    <2> QED
      BY <2>2, <2>3
  <1> QED
    BY <1>1, <1>3, <1>4, <1>5, <1>6, <1>7, <1>8 DEF FileMoved

(* And after a directory has. *)
LEMMA DirectoryRenamed ==
  ASSUME Inv, NEW p, NEW r, Movable(p, r), RenameDirectory(p, r)
  PROVE  /\ local' \in Layers /\ DiskRooted(local') /\ out' = out
         /\ tree[p].kind = "localDir" /\ tree[r].kind # "out"
         /\ \A q \in Paths : local'[q] =
              IF q \in AtOrBelow(r) /\ Renamed(q, r, p) \in Paths THEN local[Renamed(q, r, p)]
              ELSE IF q \in AtOrBelow(p) THEN "none" ELSE local[q]
         /\ \A q \in Below(r) : local[q] = "none"
         /\ local[p] = "dir" /\ local[r] # "file" /\ r \notin Below(p) /\ p \notin AtOrBelow(r)
  <1>1. /\ local[p] = "dir" /\ local[r] # "file" /\ tree[r].kind # "out" /\ out' = out
        /\ r \notin Below(p) /\ \A q \in Above(r) : local[q] = "dir"
        /\ \A q \in Below(r) : local[q] = "none"
        /\ local' = [q \in Paths |->
             IF q \in AtOrBelow(r) /\ Renamed(q, r, p) \in Paths THEN local[Renamed(q, r, p)]
             ELSE IF q \in AtOrBelow(p) THEN "none" ELSE local[q]]
    BY DEF RenameDirectory
  <1>2. p \in Paths /\ r \in Paths /\ p # r
    BY DEF Movable
  <1>3. tree[p].kind = "localDir"
    BY <1>1, <1>2, InvParts DEF Movable, Places
  <1>4. \A q \in Paths : local'[q] =
          IF q \in AtOrBelow(r) /\ Renamed(q, r, p) \in Paths THEN local[Renamed(q, r, p)]
          ELSE IF q \in AtOrBelow(p) THEN "none" ELSE local[q]
    BY <1>1
  <1>5. p \notin AtOrBelow(r)
    BY <1>1, <1>2 DEF AtOrBelow
  <1>6. local' \in Layers
    BY <1>1, InvParts DEF Types, Layers
  <1>7. DiskRooted(local')
    <2> SUFFICES ASSUME NEW q \in Paths, local'[q] # "none", NEW x \in Above(q)
                 PROVE  local'[x] = "dir"
      BY DEF DiskRooted
    <2>1. x \in Paths /\ IsStrictPrefix(x, q)
      BY DEF Above
    <2>2. CASE q \in AtOrBelow(r) /\ Renamed(q, r, p) \in Paths
      <3>1. local[Renamed(q, r, p)] # "none"
        BY <1>4, <2>2
      <3>2. CASE x \in AtOrBelow(r)
        <4>1. Renamed(x, r, p) \in Paths /\ IsStrictPrefix(Renamed(x, r, p), Renamed(q, r, p))
          BY <1>2, <2>1, <2>2, <3>2, Renaming
        <4>2. local[Renamed(x, r, p)] = "dir"
          BY <2>2, <3>1, <4>1, InvParts DEF DiskRooted, Above
        <4> QED
          BY <1>4, <2>1, <3>2, <4>1, <4>2
      <3>3. CASE x \notin AtOrBelow(r)
        <4>1. IsStrictPrefix(x, r)
          BY <1>2, <2>1, <2>2, <3>3, Order DEF AtOrBelow, Below
        <4>2. local[x] = "dir"
          BY <1>1, <2>1, <4>1 DEF Above
        <4>3. x \notin AtOrBelow(p)
          BY <1>1, <1>2, <2>1, <4>1, Order DEF AtOrBelow, Below
        <4> QED
          BY <1>4, <2>1, <3>3, <4>2, <4>3
      <3> QED
        BY <3>2, <3>3
    <2>3. CASE ~(q \in AtOrBelow(r) /\ Renamed(q, r, p) \in Paths)
      <3>1. local[q] # "none" /\ q \notin AtOrBelow(p)
        BY <1>4, <2>3
      <3>2. local[x] = "dir"
        BY <3>1, InvParts DEF DiskRooted
      <3>3. q \notin AtOrBelow(r)
        BY <1>1, <1>2, <2>3, <3>1, Renaming DEF AtOrBelow
      <3>4. x \notin AtOrBelow(r) /\ x \notin AtOrBelow(p)
        BY <1>2, <2>1, <3>1, <3>3, Order DEF AtOrBelow, Below
      <3> QED
        BY <1>4, <2>1, <3>2, <3>4
    <2> QED
      BY <2>2, <2>3
  <1> QED
    BY <1>1, <1>3, <1>4, <1>5, <1>6, <1>7

LEMMA MoveTreeInv ==
  ASSUME Inv, NEW p, NEW r, Movable(p, r), RenameFile(p, r) \/ RenameDirectory(p, r),
         tree' = PopUp(MovedTree(p, r), p), treeKnown' = KnownAfterPopUp(p),
         UNCHANGED <<loaded, cvsKnown, remote, job, crashes, faulty>>
  PROVE  Inv'
  <1>1. /\ p \in Paths /\ r \in Paths /\ p # r /\ loaded /\ job = Idle
        /\ \A q \in AtOrBelow(p) \cup AtOrBelow(r) : q \in Paths /\ q \notin CvsDirs
        /\ \A q \in Below(p) \cup Below(r) : tree[q].kind \notin {"cvs", "out"} /\ q \notin CvsFiles
        /\ \A q \in Above(r) : tree[q] = None => q \notin CvsDirs
        /\ tree[p].kind # "cvs" /\ tree[r].kind # "cvs"
    BY MovablePaths DEF Movable, Ready
  <1>2. /\ tree' \in Trees /\ Rooted(tree')
        /\ \A q \in Paths :
              \/ q = p /\ p \in CvsFiles /\ tree'[q].kind = "cvs" /\ tree'[q].version = 0
              \/ q \in AtOrBelow(p) /\ tree'[q].kind = "none" /\ tree'[q].version = 0
              \/ /\ q \in AtOrBelow(r) /\ q \notin AtOrBelow(p) /\ tree[r] = None
                 /\ Renamed(q, r, p) \in Paths /\ tree'[q] = Clone(tree[Renamed(q, r, p)])
              \/ /\ q \in Above(r) /\ tree[q] = None
                 /\ tree'[q].kind = "phantom" /\ tree'[q].version = 0
              \/ q \notin AtOrBelow(p) /\ tree'[q] = tree[q]
    BY MovedEntries
  <1>3. \A q \in Paths : tree[q] \in [kind : Kinds, version : Versions \cup {0}]
    BY InvParts DEF Types, Trees
  <1>4. treeKnown' \in Known
    BY InvParts DEF Types, Known, KnownAfterPopUp
  <1>5. Entries'
    <2> SUFFICES ASSUME NEW q \in Paths
                 PROVE  /\ tree'[q].kind \in {"cvs", "out"} => q \in CvsFiles
                        /\ tree'[q].kind = "out" => tree'[q].version \in Versions
                        /\ tree'[q].kind # "out" => tree'[q].version = 0
                        /\ tree'[q].kind = "remoteDir" <=> q \in CvsDirs
      BY <1>1 DEF Entries
    <2>1. CASE /\ q \in AtOrBelow(p) /\ tree'[q].version = 0
               /\ tree'[q].kind \in {"none", "cvs"} /\ (tree'[q].kind = "cvs" => q \in CvsFiles)
      BY <1>1, <2>1
    <2>2. CASE /\ q \in AtOrBelow(r) /\ Renamed(q, r, p) \in Paths
               /\ tree'[q] = Clone(tree[Renamed(q, r, p)])
      BY <1>1, <1>3, <2>2, CloneFields
    <2>3. CASE /\ q \in Above(r) /\ tree[q] = None
               /\ tree'[q].kind = "phantom" /\ tree'[q].version = 0
      BY <1>1, <2>3
    <2>4. CASE tree'[q] = tree[q]
      BY <1>1, <2>4, InvParts DEF Entries
    <2> QED
      BY <1>1, <1>2, <2>1, <2>2, <2>3, <2>4 DEF AtOrBelow
  <1>6. JobFile'
    BY <1>1 DEF JobFile, Idle, CheckoutSteps
  <1>7. CASE RenameFile(p, r)
    <2>1. /\ local' \in Layers /\ DiskRooted(local') /\ out' \in Copied
          /\ \E from \in Copies(p), to \in Copies(r) : FileMoved(p, r, from, to)
      BY <1>7, FileRenamed
    <2>2. PICK from \in Copies(p), to \in Copies(r) : FileMoved(p, r, from, to)
      BY <2>1
    <2>3. Types'
      BY <1>2, <1>4, <2>1, InvParts DEF Types
    <2>4. /\ tree[p].kind # "out" => local[p] = "file"
          /\ local[r] # "dir"
          /\ \A q \in Paths : local'[q] =
               IF q = p /\ tree[p].kind # "out" THEN "none"
               ELSE IF q = r /\ tree[r].kind # "out" THEN "file" ELSE local[q]
      BY <2>2 DEF FileMoved
    <2>5. \A f \in CvsFiles, v \in Versions : f # p /\ out[f][v] # "none" => out'[f][v] # "none"
      BY <2>2 DEF FileMoved
    <2>6. Places'
      <3> SUFFICES ASSUME NEW q \in Paths
                   PROVE  /\ tree'[q].kind = "local" => local'[q] = "file"
                          /\ tree'[q].kind = "out" => out'[q][tree'[q].version] # "none"
                          /\ tree'[q].kind \in {"cvs", "out"} => local'[q] # "dir"
                          /\ q \in CvsDirs => local'[q] # "file"
        BY DEF Places
      <3>1. CASE q = p /\ tree'[q].kind = "cvs"
        BY <1>1, <2>4, <3>1, InvParts DEF Places, AtOrBelow, Movable
      <3>2. CASE q \in AtOrBelow(p) /\ tree'[q].kind = "none"
        BY <1>1, <3>2
      <3>3. CASE /\ q \in AtOrBelow(r) /\ q \notin AtOrBelow(p) /\ tree[r] = None
                 /\ Renamed(q, r, p) \in Paths /\ tree'[q] = Clone(tree[Renamed(q, r, p)])
        <4>1. tree'[q].kind \in {"none", "localDir", "local"}
          BY <1>3, <3>3, CloneFields
        <4>2. ASSUME tree'[q].kind = "local" PROVE local'[q] = "file"
          <5>1. CASE q = r
            BY <1>1, <2>4, <3>3, <5>1, EntryFields
          <5>2. CASE q # r
            <6>1. Renamed(q, r, p) \in Below(p)
              BY <1>1, <3>3, <5>2, Renaming
            <6>2. ~IsDir(tree[Renamed(q, r, p)]) /\ tree[Renamed(q, r, p)] # None
              BY <1>3, <3>3, <4>2, CloneFields
            <6>3. tree[Renamed(q, r, p)].kind = "local"
              BY <1>1, <1>3, <3>3, <6>1, <6>2, InvParts, EntryFields DEF IsDir, Kinds,
                 Entries
            <6>4. local[p] = "dir"
              BY <1>1, <3>3, <6>1, <6>3, InvParts DEF Places, DiskRooted, Above, Below
            <6>5. IsDir(tree[p])
              BY <1>1, <3>3, <6>1, <6>2, InvParts DEF Rooted, Above, Below
            <6> QED
              BY <2>4, <6>4, <6>5 DEF IsDir
          <5> QED
            BY <5>1, <5>2
        <4> QED
          BY <1>1, <3>3, <4>1, <4>2
      <3>4. CASE q \in Above(r) /\ tree[q] = None /\ tree'[q].kind = "phantom"
        BY <1>1, <3>4
      <3>5. CASE q \notin AtOrBelow(p) /\ tree'[q] = tree[q]
        <4>1. q # p
          BY <3>5 DEF AtOrBelow
        <4>2. tree[q].kind = "out" => out'[q][tree[q].version] # "none"
          BY <2>5, <4>1, InvParts DEF Places, Entries
        <4>3. q = r => q \notin CvsDirs
          BY <1>1 DEF AtOrBelow
        <4> QED
          BY <1>1, <2>4, <3>5, <4>1, <4>2, <4>3, InvParts DEF Places
      <3> QED
        BY <1>2, <3>1, <3>2, <3>3, <3>4, <3>5
    <2> QED
      BY <1>2, <1>5, <1>6, <2>1, <2>3, <2>6, InvNext
  <1>8. CASE RenameDirectory(p, r)
    <2>1. /\ local' \in Layers /\ DiskRooted(local') /\ out' = out
          /\ tree[p].kind = "localDir" /\ tree[r].kind # "out"
          /\ \A q \in Paths : local'[q] =
               IF q \in AtOrBelow(r) /\ Renamed(q, r, p) \in Paths THEN local[Renamed(q, r, p)]
               ELSE IF q \in AtOrBelow(p) THEN "none" ELSE local[q]
          /\ \A q \in Below(r) : local[q] = "none"
          /\ local[p] = "dir" /\ local[r] # "file" /\ r \notin Below(p) /\ p \notin AtOrBelow(r)
      BY <1>8, DirectoryRenamed
    <2>2. Types'
      BY <1>2, <1>4, <2>1, InvParts DEF Types
    <2>3. Places'
      <3> SUFFICES ASSUME NEW q \in Paths
                   PROVE  /\ tree'[q].kind = "local" => local'[q] = "file"
                          /\ tree'[q].kind = "out" => out'[q][tree'[q].version] # "none"
                          /\ tree'[q].kind \in {"cvs", "out"} => local'[q] # "dir"
                          /\ q \in CvsDirs => local'[q] # "file"
        BY DEF Places
      <3>1. CASE q = p /\ tree'[q].kind = "cvs"
        BY <1>1, <2>1, <3>1 DEF AtOrBelow
      <3>2. CASE q \in AtOrBelow(p) /\ tree'[q].kind = "none"
        BY <1>1, <3>2
      <3>3. CASE /\ q \in AtOrBelow(r) /\ q \notin AtOrBelow(p) /\ tree[r] = None
                 /\ Renamed(q, r, p) \in Paths /\ tree'[q] = Clone(tree[Renamed(q, r, p)])
        <4>1. tree'[q].kind \in {"none", "localDir", "local"}
          BY <1>3, <3>3, CloneFields
        <4>2. ASSUME tree'[q].kind = "local" PROVE local'[q] = "file"
          <5>1. ~IsDir(tree[Renamed(q, r, p)]) /\ tree[Renamed(q, r, p)] # None
            BY <1>3, <3>3, <4>2, CloneFields
          <5>2. Renamed(q, r, p) \in Below(p)
            <6>1. CASE q = r
              BY <1>1, <2>1, <5>1, <6>1, <3>3, Renaming DEF IsDir
            <6>2. CASE q # r
              BY <1>1, <3>3, <6>2, Renaming
            <6> QED
              BY <6>1, <6>2
          <5>3. tree[Renamed(q, r, p)].kind = "local"
            BY <1>1, <1>3, <3>3, <5>1, <5>2, InvParts, EntryFields DEF IsDir, Kinds,
               Entries
          <5>4. local[Renamed(q, r, p)] = "file"
            BY <3>3, <5>3, InvParts DEF Places
          <5> QED
            BY <2>1, <3>3, <5>4
        <4> QED
          BY <1>1, <3>3, <4>1, <4>2
      <3>4. CASE q \in Above(r) /\ tree[q] = None /\ tree'[q].kind = "phantom"
        <4>1. q \notin AtOrBelow(r)
          BY <1>1, <3>4, Order DEF Above, AtOrBelow, Below
        <4> QED
          BY <1>1, <3>4, <4>1
      <3>5. CASE q \notin AtOrBelow(p) /\ tree'[q] = tree[q]
        <4>1. CASE q \notin AtOrBelow(r)
          BY <2>1, <3>5, <4>1, InvParts DEF Places
        <4>2. CASE q \in Below(r)
          BY <1>1, <2>1, <3>5, <4>2, InvParts DEF Places, AtOrBelow
        <4>3. CASE q = r
          BY <1>1, <2>1, <3>5, <4>3, InvParts DEF Places, AtOrBelow
        <4> QED
          BY <4>1, <4>2, <4>3 DEF AtOrBelow
      <3> QED
        BY <1>2, <3>1, <3>2, <3>3, <3>4, <3>5
    <2> QED
      BY <1>2, <1>5, <1>6, <2>1, <2>2, <2>3, InvNext
  <1> QED
    BY <1>7, <1>8

LEMMA MoveInv ==
  ASSUME Inv, NEW p \in Paths, NEW r \in Paths, Move(p, r)
  PROVE  Inv'
  <1>1. CASE tree' = WithParents(r) /\ UNCHANGED <<treeKnown, out, local>>
    BY <1>1, ParentsOnly DEF Move, disk
  <1>2. CASE /\ tree[p].kind \in {"local", "out", "localDir"}
             /\ tree[r].kind \in {"none", "local", "out", "localDir"}
             /\ RenameFile(p, r) \/ RenameDirectory(p, r)
             /\ tree' = PopUp(MovedTree(p, r), p) /\ treeKnown' = KnownAfterPopUp(p)
    <2>1. Movable(p, r)
      BY <1>2 DEF Move, Movable
    <2> QED
      BY <1>2, <2>1, MoveTreeInv DEF Move
  <1> QED
    BY <1>1, <1>2 DEF Move
----------------------------------------------------------------------------
(* Unmixed is inductive relative to the invariant. *)
LEMMA UnmixedInit == Init => Unmixed
  BY Repository DEF Init, Unmixed, OneLayer, NoCopy, Nowhere, None, Entry, Idle,
     CheckoutSteps

LEMMA UnmixedStutter ==
  ASSUME Unmixed, UNCHANGED vars
  PROVE  Unmixed'
  BY DEF Unmixed, OneLayer, vars, memory, disk

LEMMA UnmixedLoads ==
  ASSUME Inv, Unmixed,
         \/ Received \/ NotReceived \/ CheckoutLoad
         \/ \E p \in Paths, v \in Versions : GetFullEntry(p, v) \/ GetFile(p, v)
  PROVE  Unmixed'
  <1> USE DEF Unmixed, OneLayer
  <1>1. Types /\ Entries /\ JobFile /\ (job.op # "idle" => job.path \in CvsFiles /\ job.version \in Versions)
    BY InvParts DEF JobFile
  <1>2. ASSUME NEW p \in Paths, NEW v \in Versions, GetFullEntry(p, v) PROVE Unmixed'
    BY <1>2 DEF GetFullEntry, disk
  <1>3. ASSUME NEW p \in Paths, NEW v \in Versions, GetFile(p, v) PROVE Unmixed'
    <2>1. /\ job = Idle /\ UNCHANGED <<loaded, tree, out, local>> /\ p \in CvsFiles
          /\ job' = [op |-> "get", path |-> p, version |-> v, found |-> FALSE,
                     known |-> v \in treeKnown[p]]
      BY <1>1, <1>3 DEF GetFile, memory, Ready, Start, Entries
    <2>2. ~faulty' => ~faulty /\ remote'[p][v] # "none"
      BY <1>1, <1>3, <2>1 DEF GetFile, BeginLoad, Types, Copied
    <2> QED
      BY <2>1, <2>2 DEF Idle, CheckoutSteps
  <1>4. CASE Received
    <2>1. /\ UNCHANGED <<loaded, tree, out, local, faulty>> /\ job.op \in {"get", "fetch"}
          /\ job' = Idle \/ (job.op = "fetch" /\ job' = [job EXCEPT !.op = "create"])
      BY <1>4 DEF Received
    <2>2. remote[job.path][job.version] # "none" => remote'[job.path][job.version] # "none"
      <3>1. PICK there \in Stored :
              /\ Written("whole", there)
              /\ remote' = [remote EXCEPT ![job.path][job.version] =
                               IF @ = "none" THEN "none" ELSE there]
        BY <1>4 DEF Received
      <3> QED
        BY <1>1, <2>1, <3>1 DEF Types, Copied, Written
    <2> QED
      BY <1>1, <2>1, <2>2 DEF Idle, CheckoutSteps, Types, Jobs
  <1>5. CASE NotReceived
    BY <1>5 DEF NotReceived, memory, Idle, CheckoutSteps
  <1>6. CASE CheckoutLoad
    <2>1. UNCHANGED <<loaded, tree, out, local>> /\ job.op = "load"
      BY <1>6 DEF CheckoutLoad, memory
    <2>2. /\ job' = Idle \/ job' = [job EXCEPT !.op = "create"] \/ job' = [job EXCEPT !.op = "fetch"]
          /\ ~faulty' => ~faulty
          /\ ~faulty' /\ job' # Idle => remote'[job.path][job.version] # "none"
      BY <1>1, <1>6, <2>1 DEF CheckoutLoad, BeginLoad, Types, Copied
    <2> QED
      BY <1>1, <2>1, <2>2 DEF Idle, CheckoutSteps, Types, Jobs
  <1> QED
    BY <1>2, <1>3, <1>4, <1>5, <1>6

LEMMA UnmixedCheckouts ==
  ASSUME Inv, Unmixed, CheckoutCreate \/ CheckoutCopy
  PROVE  Unmixed'
  <1> DEFINE p == job.path
             v == job.version
  <1> USE DEF Unmixed, OneLayer
  <1>1. /\ Types /\ Entries /\ p \in CvsFiles /\ v \in Versions /\ loaded /\ job.op \in {"create", "copy"}
        /\ tree[p].kind \in {"none", "cvs"} /\ CvsFiles \subseteq Paths
    BY InvParts, Repository DEF JobFile, CheckoutCreate, CheckoutCopy, CheckoutSteps
  <1>2. CASE CheckoutCreate
    <2> SUFFICES ASSUME ~faulty' PROVE Unmixed'
      OBVIOUS
    <2>1. /\ UNCHANGED <<loaded, tree, local, remote, faulty>> /\ job.op = "create"
          /\ job' = [job EXCEPT !.op = "copy"]
          /\ out' = [out EXCEPT ![p][v] = "partial"]
      BY <1>2 DEF CheckoutCreate, memory
    <2>2. job'.op = "copy" /\ job'.path = p /\ job'.version = v
      BY <1>1, <2>1 DEF Types, Jobs
    <2>3. \A f \in CvsFiles, w \in Versions :
            out'[f][w] = IF f = p /\ w = v THEN "partial" ELSE out[f][w]
      BY <1>1, <2>1 DEF Types, Copied
    <2>4. \A w \in Versions : out[p][w] = "none"
      BY <1>1, <2>1
    <2>5. local[p] = "none" /\ remote[p][v] # "none"
      BY <2>1 DEF CheckoutSteps
    <2> QED
      BY <1>1, <2>1, <2>2, <2>3, <2>4, <2>5
  <1>3. CASE CheckoutCopy
    <2> SUFFICES ASSUME ~faulty' PROVE Unmixed'
      OBVIOUS
    <2>1. /\ UNCHANGED <<loaded, remote, local, faulty>> /\ job.op = "copy" /\ job' = Idle
      BY <1>3 DEF CheckoutCopy
    <2>2. remote[p][v] # "none" /\ local[p] = "none"
      BY <2>1 DEF CheckoutSteps
    <2>3. PICK there \in Stored :
            out' = [out EXCEPT ![p][v] = there] /\ tree' = With(tree, p, Entry("out", v))
      BY <1>3, <2>2 DEF CheckoutCopy
    <2>4. \A f \in CvsFiles, w \in Versions :
            out'[f][w] = IF f = p /\ w = v THEN there ELSE out[f][w]
      BY <1>1, <2>3 DEF Types, Copied
    <2>5. \A q \in Paths : tree'[q] = IF q = p THEN Entry("out", v) ELSE tree[q]
      BY <2>3 DEF With
    <2>6. Entry("out", v).kind = "out" /\ Entry("out", v).version = v
      BY DEF Entry
    <2>7. \A w \in Versions : out[p][w] # "none" => w = v
      BY <1>1, <2>1
    <2> QED
      BY <1>1, <2>1, <2>2, <2>4, <2>5, <2>6, <2>7 DEF Idle, CheckoutSteps
  <1> QED
    BY <1>2, <1>3

LEMMA UnmixedStarts ==
  ASSUME Inv, Unmixed, LoadTree \/ Crash
  PROVE  Unmixed'
  <1> USE DEF Unmixed, OneLayer
  <1>1. Types /\ CvsFiles \subseteq Paths
    BY InvParts, Repository
  <1>2. CASE Crash
    BY <1>1, <1>2 DEF Crash, Nowhere, None, Entry, Idle, CheckoutSteps, disk
  <1>3. CASE LoadTree
    <2>1. /\ job = Idle /\ tree' \in FreshTrees /\ UNCHANGED <<remote, out, local, job, faulty>>
      BY <1>3 DEF LoadTree, disk
    <2>2. PICK last \in [CvsFiles -> Versions] :
             /\ \A p \in CvsFiles : CheckedOut(p) = {} \/ last[p] \in CheckedOut(p)
             /\ \A p \in Paths : tree'[p] =
                  IF \A q \in Above(p) : IsDir(Fresh(q, last)) THEN Fresh(p, last) ELSE None
      BY <2>1, FreshTree
    <2> SUFFICES ASSUME ~faulty, NEW p \in CvsFiles
                 PROVE  /\ tree'[p].kind = "cvs" => local[p] = "none"
                        /\ \A v \in Versions : out[p][v] # "none" =>
                             /\ local[p] = "none" /\ \A w \in Versions : out[p][w] # "none" => w = v
                             /\ tree'[p].kind = "out" /\ tree'[p].version = v
      BY <2>1 DEF Idle, CheckoutSteps
    <2>3. tree'[p] = Fresh(p, last)
      <3>1. \A q \in Above(p) : q \in Paths /\ q \in CvsDirs
        BY <1>1, Repository DEF Above
      <3>2. \A q \in Above(p) : IsDir(Fresh(q, last))
        BY <2>2, <3>1, FreshEntry DEF IsDir
      <3> QED
        BY <1>1, <2>2, <3>2
    <2>4. Fresh(p, last).kind = "cvs" => local[p] = "none"
      BY <1>1, <2>2, FreshEntry
    <2>5. ASSUME NEW v \in Versions, out[p][v] # "none"
          PROVE  /\ local[p] = "none" /\ \A w \in Versions : out[p][w] # "none" => w = v
                 /\ Fresh(p, last).kind = "out" /\ Fresh(p, last).version = v
      <3>1. local[p] = "none" /\ \A w \in Versions : out[p][w] # "none" => w = v
        BY <2>5
      <3>2. CheckedOut(p) # {} /\ last[p] \in CheckedOut(p) /\ p \notin CvsDirs
        BY <2>2, <2>5, Repository DEF CheckedOut
      <3>3. last[p] = v
        BY <3>1, <3>2 DEF CheckedOut
      <3>4. Fresh(p, last) = Entry("out", v)
        BY <3>1, <3>2, <3>3 DEF Fresh
      <3> QED
        BY <3>1, <3>4 DEF Entry
    <2> QED
      BY <2>3, <2>4, <2>5
  <1> QED
    BY <1>2, <1>3

(* When no request is under way, a version checked out is the one listed. *)
LEMMA ReadyUnmixed ==
  ASSUME Inv, Unmixed, Ready, ~faulty
  PROVE  /\ job = Idle /\ loaded /\ job.op = "idle"
         /\ \A p \in CvsFiles :
              /\ tree[p].kind = "cvs" => local[p] = "none"
              /\ \A v \in Versions : out[p][v] # "none" =>
                   /\ local[p] = "none" /\ \A w \in Versions : out[p][w] # "none" => w = v
                   /\ tree[p].kind = "out" /\ tree[p].version = v
  BY DEF Ready, Idle, Unmixed, OneLayer

(* And when none is under way afterwards, that is all there is to show. *)
LEMMA ReadyUnmixedNext ==
  ASSUME job' = Idle,
         ~faulty' => \A p \in CvsFiles :
              /\ tree'[p].kind = "cvs" => local'[p] = "none"
              /\ \A v \in Versions : out'[p][v] # "none" =>
                   /\ local'[p] = "none" /\ \A w \in Versions : out'[p][w] # "none" => w = v
                   /\ tree'[p].kind = "out" /\ tree'[p].version = v
  PROVE  Unmixed'
  BY DEF Unmixed, OneLayer, Idle, CheckoutSteps

(* Deleting a writable file leaves no copy of it. *)
LEMMA UnmixedDeleted ==
  ASSUME Inv, Unmixed, Ready, ~faulty, NEW p \in Paths,
         tree[p].kind \in {"local", "out"}, DeleteFile(p)
  PROVE  \A q \in CvsFiles :
           /\ q # p => local'[q] = local[q] /\ \A v \in Versions : out'[q][v] = out[q][v]
           /\ q = p => local'[q] = "none" /\ \A v \in Versions : out'[q][v] = "none"
  <1>1. /\ CvsFiles \subseteq Paths /\ Types /\ Entries /\ Places
        /\ \A q \in CvsFiles, v \in Versions : out[q][v] # "none" =>
             /\ local[q] = "none" /\ \A w \in Versions : out[q][w] # "none" => w = v
             /\ tree[q].kind = "out" /\ tree[q].version = v
    BY InvParts, Repository, ReadyUnmixed
  <1>2. CASE tree[p].kind = "local"
    BY <1>1, <1>2 DEF DeleteFile, Types, Layers
  <1>3. CASE tree[p].kind = "out"
    <2>1. PICK v \in CheckedOut(p) : out' = [out EXCEPT ![p][v] = "none"]
      BY <1>3 DEF DeleteFile
    <2>2. p \in CvsFiles /\ v \in Versions /\ out[p][v] # "none" /\ local' = local
      BY <1>3, <2>1 DEF CheckedOut, DeleteFile
    <2>3. \A q \in CvsFiles, w \in Versions :
            out'[q][w] = IF q = p /\ w = v THEN "none" ELSE out[q][w]
      BY <1>1, <2>1, <2>2 DEF Types, Copied
    <2> QED
      BY <1>1, <2>2, <2>3
  <1> QED
    BY <1>2, <1>3

LEMMA UnmixedMakes ==
  ASSUME Inv, Unmixed, NEW p \in Paths, MakeDirectory(p) \/ MakeFile(p)
  PROVE  Unmixed'
  <1>1. /\ Ready /\ ParentFound(p) /\ job' = Idle /\ out' = out /\ CvsFiles \subseteq Paths
        /\ Types /\ Entries
    BY InvParts, Repository DEF MakeDirectory, MakeFile, Ready
  <1>2. \A q \in Above(p) : tree[q].kind \notin {"cvs", "out"}
    BY <1>1, EntryFields DEF ParentFound, IsDir
  <1>3. \A q \in Paths : WithParents(p)[q] =
          IF q \in Above(p) /\ tree[q] = None THEN Entry("phantom", 0) ELSE tree[q]
    BY DEF WithParents
  <1>4. ASSUME ~faulty'
        PROVE  /\ ~faulty
               /\ \A q \in Paths :
                    \/ tree'[q].kind \notin {"cvs", "out"} /\ tree[q].kind \notin {"cvs", "out"}
                    \/ tree'[q] = tree[q] /\ local'[q] = local[q]
    <2>1. CASE MakeDirectory(p)
      <3>1. /\ ~faulty /\ CanCreate(p, "dir") /\ Create(p, "dir") /\ tree[p] = None
            /\ tree' = With(WithParents(p), p, Entry("localDir", 0))
        BY <1>4, <2>1 DEF MakeDirectory, CreateFails
      <3>2. \A q \in Paths : q # p => local'[q] = IF q \in Above(p) THEN "dir" ELSE local[q]
        BY <3>1, Created
      <3>3. \A q \in Paths : tree'[q] = IF q = p THEN Entry("localDir", 0) ELSE WithParents(p)[q]
        BY <3>1 DEF With
      <3> QED
        BY <1>2, <1>3, <3>1, <3>2, <3>3, EntryFields DEF Kinds
    <2>2. CASE MakeFile(p) /\ ~(CanCreate(p, "file") /\ Create(p, "file"))
      <3>1. ~faulty /\ tree[p] = None /\ tree' = WithParents(p) /\ local' = local
        BY <1>4, <2>2 DEF MakeFile, CreateFails
      <3> QED
        BY <1>3, <3>1, EntryFields DEF Kinds
    <2>3. CASE MakeFile(p) /\ CanCreate(p, "file") /\ Create(p, "file")
      <3>1. \A q \in Paths : q # p => local'[q] = IF q \in Above(p) THEN "dir" ELSE local[q]
        BY <2>3, Created
      <3>2. CASE tree' = WithParents(p) /\ ~faulty /\ tree[p] = None /\ local' = local
        BY <1>3, <3>2, EntryFields DEF Kinds
      <3>3. CASE ~faulty /\ tree[p] = None /\ tree' = With(WithParents(p), p, Entry("local", 0))
        <4>1. \A q \in Paths : tree'[q] = IF q = p THEN Entry("local", 0) ELSE WithParents(p)[q]
          BY <3>3 DEF With
        <4> QED
          BY <1>2, <1>3, <3>1, <3>3, <4>1, EntryFields DEF Kinds
      <3> QED
        BY <1>4, <2>3, <3>2, <3>3, EntryFields DEF MakeFile, CreateFails
    <2> QED
      BY <2>1, <2>2, <2>3
  <1> QED
    BY <1>1, <1>4, ReadyUnmixed, ReadyUnmixedNext

LEMMA UnmixedRemoves ==
  ASSUME Inv, Unmixed, NEW p \in Paths,
         RemoveDirectory(p) \/ RemoveFile(p) \/ TruncateFile(p) \/ PutFile(p)
  PROVE  Unmixed'
  <1>1. Ready /\ job' = Idle /\ CvsFiles \subseteq Paths /\ Types /\ Entries /\ Places
    BY InvParts, Repository DEF RemoveDirectory, RemoveFile, TruncateFile, PutFile, Ready
  <1>2. CASE RemoveDirectory(p)
    <2>1. tree[p].kind = "localDir" /\ p \notin CvsDirs /\ UNCHANGED <<out, faulty>>
      BY <1>1, <1>2 DEF RemoveDirectory, Entries, Ready
    <2>2. \A q \in CvsFiles : q \notin Below(p)
      BY <1>1, <2>1, Repository DEF Below
    <2>3. \A q \in CvsFiles :
            \/ tree'[q] = tree[q] /\ local'[q] \in {local[q], "none"}
            \/ q = p /\ tree'[q] = None
      BY <1>1, <1>2, <2>2 DEF RemoveDirectory, Without, AtOrBelow, Types, Layers
    <2> QED
      BY <1>1, <2>1, <2>3, EntryFields, ReadyUnmixed, ReadyUnmixedNext
  <1>3. CASE RemoveFile(p)
    <2>1. /\ tree[p].kind \in {"local", "out"} /\ DeleteFile(p) /\ tree' = PopUp(tree, p)
          /\ UNCHANGED faulty /\ p \notin CvsDirs
      BY <1>1, <1>3 DEF RemoveFile, Entries, Ready
    <2>2. \A q \in CvsFiles : q \notin Below(p)
      BY <1>1, <2>1, Repository DEF Below
    <2>3. \A q \in CvsFiles : tree'[q] = IF q = p THEN Entry("cvs", 0) ELSE tree[q]
      BY <1>1, <2>1, <2>2 DEF PopUp, With, Without, AtOrBelow
    <2>4. ~faulty => \A q \in CvsFiles :
            /\ q # p => local'[q] = local[q] /\ \A v \in Versions : out'[q][v] = out[q][v]
            /\ q = p => local'[q] = "none" /\ \A v \in Versions : out'[q][v] = "none"
      BY <1>1, <2>1, UnmixedDeleted
    <2>5. Entry("cvs", 0).kind = "cvs"
      BY EntryFields DEF Kinds
    <2> QED
      BY <1>1, <2>1, <2>3, <2>4, <2>5, ReadyUnmixed, ReadyUnmixedNext
  <1>4. CASE TruncateFile(p)
    <2>1. UNCHANGED <<tree, out, local>>
      BY <1>4, Truncated DEF TruncateFile, memory
    <2>2. CreateFails(p) => faulty'
      BY DEF CreateFails
    <2>3. ~faulty' => ~faulty
      BY <1>4, <2>2 DEF TruncateFile
    <2> QED
      BY <1>1, <2>1, <2>3, ReadyUnmixed, ReadyUnmixedNext
  <1>5. CASE PutFile(p)
    <2>1. /\ UNCHANGED <<tree, local, faulty>> /\ p \in CvsFiles /\ tree[p].version \in Versions
          /\ out[p][tree[p].version] # "none"
      BY <1>1, <1>5 DEF PutFile, memory, Entries
    <2> PICK there \in Stored : /\ there # "none"
                                /\ out' = [out EXCEPT ![p][tree[p].version] = there]
      BY <1>5 DEF PutFile, Written
    <2>2. \A q \in CvsFiles, v \in Versions : out'[q][v] # "none" <=> out[q][v] # "none"
      BY <1>1, <2>1 DEF Types, Copied
    <2> QED
      BY <1>1, <2>1, <2>2, ReadyUnmixed, ReadyUnmixedNext
  <1> QED
    BY <1>2, <1>3, <1>4, <1>5

LEMMA UnmixedCheckout ==
  ASSUME Inv, Unmixed, NEW p \in Paths, NEW v \in Versions, Checkout(p, v)
  PROVE  Unmixed'
  <1> SUFFICES ASSUME ~faulty' PROVE Unmixed'
    BY DEF Unmixed
  <1>1. /\ Ready /\ CvsFiles \subseteq Paths /\ Types /\ Entries /\ Places /\ UNCHANGED <<loaded, remote, faulty>>
    BY InvParts, Repository DEF Checkout
  <1>2. \A q \in CvsFiles :
          /\ tree'[q].kind = "cvs" => local'[q] = "none"
          /\ \A w \in Versions : out'[q][w] # "none" =>
               /\ local'[q] = "none" /\ \A u \in Versions : out'[q][u] # "none" => u = w
               /\ tree'[q].kind = "out" /\ tree'[q].version = w
    <2>1. CASE tree[p].kind \in {"local", "out"} /\ DeleteFile(p) /\ tree' = Without(tree, p)
      <3>1. \A q \in CvsFiles : q \notin Below(p)
        BY <1>1, <2>1, Repository DEF Below, Entries, Ready
      <3>2. \A q \in CvsFiles : tree'[q] = IF q = p THEN None ELSE tree[q]
        BY <1>1, <2>1, <3>1 DEF Without, AtOrBelow
      <3>3. \A q \in CvsFiles :
              /\ q # p => local'[q] = local[q] /\ \A w \in Versions : out'[q][w] = out[q][w]
              /\ q = p => local'[q] = "none" /\ \A w \in Versions : out'[q][w] = "none"
        BY <1>1, <2>1, UnmixedDeleted
      <3> QED
        BY <1>1, <3>2, <3>3, EntryFields, ReadyUnmixed
    <2>2. CASE UNCHANGED <<tree, out, local>>
      BY <1>1, <2>2, ReadyUnmixed
    <2>3. CASE tree[p] = None /\ tree' = WithParents(p) /\ UNCHANGED <<out, local>>
      <3>1. \A q \in CvsFiles : tree'[q] # tree[q] => tree[q].kind = "none" /\ tree'[q].kind = "phantom"
        BY <1>1, <2>3, EntryFields DEF WithParents, Kinds
      <3> QED
        BY <1>1, <2>3, <3>1, ReadyUnmixed
    <2> QED
      BY <2>1, <2>2, <2>3 DEF Checkout
  <1>3. job'.op \in {"idle", "load"} /\ (job'.op = "load" => local'[job'.path] = "none")
    <2>1. CASE UNCHANGED job
      BY <1>1, <2>1 DEF Ready, Idle
    <2>2. CASE p \in CvsFiles /\ job'.op = "load" /\ job'.path = p /\ tree[p] # None
      <3>1. CASE tree[p].kind \in {"local", "out"}
        <4>1. DeleteFile(p)
          BY <3>1, EntryFields DEF Checkout
        <4> QED
          BY <1>1, <2>2, <3>1, <4>1, UnmixedDeleted
      <3>2. CASE tree[p].kind = "cvs"
        BY <1>1, <2>2, <3>2, ReadyUnmixed DEF Checkout
      <3> QED
        BY <2>2, <3>1, <3>2 DEF Checkout
    <2> QED
      BY <2>1, <2>2 DEF Checkout, Start
  <1> QED
    BY <1>1, <1>2, <1>3 DEF Unmixed, OneLayer, CheckoutSteps

LEMMA UnmixedMove ==
  ASSUME Inv, Unmixed, NEW p \in Paths, NEW r \in Paths, Move(p, r)
  PROVE  Unmixed'
  <1>1. Ready /\ job' = Idle /\ UNCHANGED faulty /\ CvsFiles \subseteq Paths
    BY Repository DEF Move, Ready
  <1>2. CASE tree' = WithParents(r) /\ UNCHANGED <<out, local>>
    <2>1. \A f \in CvsFiles : tree'[f] # tree[f] => tree[f].kind = "none" /\ tree'[f].kind = "phantom"
      BY <1>1, <1>2, EntryFields DEF WithParents, Kinds
    <2> QED
      BY <1>1, <1>2, <2>1, ReadyUnmixed, ReadyUnmixedNext
  <1>3. CASE /\ tree[p].kind \in {"local", "out", "localDir"}
             /\ tree[r].kind \in {"none", "local", "out", "localDir"}
             /\ RenameFile(p, r) \/ RenameDirectory(p, r)
             /\ tree' = PopUp(MovedTree(p, r), p)
    <2> SUFFICES ASSUME ~faulty, NEW f \in CvsFiles
                 PROVE  /\ tree'[f].kind = "cvs" => local'[f] = "none"
                        /\ \A v \in Versions : out'[f][v] # "none" =>
                             /\ local'[f] = "none" /\ \A w \in Versions : out'[f][w] # "none" => w = v
                             /\ tree'[f].kind = "out" /\ tree'[f].version = v
      BY <1>1, ReadyUnmixedNext
    <2>1. Movable(p, r)
      BY <1>3 DEF Move, Movable
    <2>2. /\ p # r /\ f \in Paths /\ f \notin Below(p) /\ f \notin Below(r)
          /\ tree[p].kind # "cvs" /\ tree[r].kind # "cvs"
      BY <1>1, <1>3, <2>1, MovablePaths DEF Movable
    <2>3. \A g \in CvsFiles :
            /\ tree[g].kind = "cvs" => local[g] = "none"
            /\ \A v \in Versions : out[g][v] # "none" =>
                 /\ local[g] = "none" /\ \A w \in Versions : out[g][w] # "none" => w = v
                 /\ tree[g].kind = "out" /\ tree[g].version = v
      BY <1>1, ReadyUnmixed
    <2>4. /\ f = p => tree'[f].kind \in {"none", "cvs"}
          /\ f = r /\ tree'[f] # tree[f] =>
               tree[r].kind = "none" /\ tree'[f].kind \in {"none", "localDir", "local"}
          /\ f # p /\ f # r /\ tree'[f] # tree[f] => tree'[f].kind = "phantom" /\ tree[f].kind = "none"
      <3>1. \/ f = p /\ p \in CvsFiles /\ tree'[f].kind = "cvs" /\ tree'[f].version = 0
            \/ f \in AtOrBelow(p) /\ tree'[f].kind = "none" /\ tree'[f].version = 0
            \/ /\ f \in AtOrBelow(r) /\ f \notin AtOrBelow(p) /\ tree[r] = None
               /\ Renamed(f, r, p) \in Paths /\ tree'[f] = Clone(tree[Renamed(f, r, p)])
            \/ /\ f \in Above(r) /\ tree[f] = None
               /\ tree'[f].kind = "phantom" /\ tree'[f].version = 0
            \/ f \notin AtOrBelow(p) /\ tree'[f] = tree[f]
        BY <1>3, <2>1, <2>2, MovedEntries
      <3>2. f \in Above(r) => f # r
        BY Order DEF Above
      <3>3. Renamed(f, r, p) \in Paths =>
              Clone(tree[Renamed(f, r, p)]).kind \in {"none", "localDir", "local"}
        BY InvParts, CloneFields DEF Types, Trees
      <3> QED
        BY <1>3, <2>2, <3>1, <3>2, <3>3, EntryFields DEF AtOrBelow
    <2>5. CASE RenameFile(p, r)
      <3>1. PICK from \in Copies(p), to \in Copies(r) : FileMoved(p, r, from, to)
        BY <2>1, <2>5, FileRenamed
      <3> USE DEF FileMoved
      <3>2. CASE f = p
        BY <2>2, <2>3, <2>4, <3>1, <3>2, Repository
      <3>3. CASE f = r
        BY <2>2, <2>3, <2>4, <3>1, <3>3, Repository
      <3>4. CASE f # p /\ f # r
        BY <2>2, <2>3, <2>4, <3>1, <3>4
      <3> QED
        BY <3>2, <3>3, <3>4
    <2>6. CASE RenameDirectory(p, r)
      <3>1. /\ out' = out /\ tree[p].kind = "localDir" /\ tree[r].kind # "out"
            /\ \A q \in Paths : local'[q] =
                 IF q \in AtOrBelow(r) /\ Renamed(q, r, p) \in Paths THEN local[Renamed(q, r, p)]
                 ELSE IF q \in AtOrBelow(p) THEN "none" ELSE local[q]
            /\ p \notin AtOrBelow(r)
        BY <2>1, <2>6, DirectoryRenamed
      <3>2. CASE f = p
        BY <2>2, <2>3, <3>1, <3>2 DEF AtOrBelow
      <3>3. CASE f = r
        BY <2>2, <2>3, <2>4, <3>1, <3>3
      <3>4. CASE f # p /\ f # r
        BY <2>2, <2>3, <2>4, <3>1, <3>4 DEF AtOrBelow
      <3> QED
        BY <3>2, <3>3, <3>4
    <2> QED
      BY <1>3, <2>5, <2>6
  <1> QED
    BY <1>2, <1>3 DEF Move
----------------------------------------------------------------------------
(* The only part of a version that is not whole is the one being written.  *)
LEMMA PartsInit == Init => PartsInWork
  BY DEF Init, PartsInWork, NoCopy

(* A step of a request that is not one of loading a version. *)
LEMMA PartsReady ==
  ASSUME PartsInWork, job = Idle, job' = Idle, UNCHANGED <<remote, crashes>>, faulty \in BOOLEAN,
         ~faulty' => ~faulty, ~diskFull,
         ~faulty /\ (\A p \in CvsFiles, v \in Versions : out[p][v] # "partial") =>
           \A p \in CvsFiles, v \in Versions : out'[p][v] # "partial"
  PROVE  PartsInWork'
  BY DEF PartsInWork, Idle

(* Whether a write has failed is either, and stays. *)
LEMMA FullTyped ==
  ASSUME diskFull \in BOOLEAN, [Next]_vars
  PROVE  diskFull' \in BOOLEAN
  BY DEF Next, vars, LoadTree, Received, NotReceived, Crash, CheckoutLoad, CheckoutCreate,
     CheckoutCopy, MakeDirectory, RemoveDirectory, MakeFile, RemoveFile, TruncateFile,
     PutFile,
     Move, GetFullEntry, GetFile, Checkout, Written

LEMMA FullStays ==
  ASSUME Next, ~diskFull'
  PROVE  ~diskFull
  BY DEF Next, LoadTree, Received, NotReceived, Crash, CheckoutLoad, CheckoutCreate,
     CheckoutCopy, MakeDirectory, RemoveDirectory, MakeFile, RemoveFile, TruncateFile,
     PutFile,
     Move, GetFullEntry, GetFile, Checkout, Written

LEMMA PartsFiles ==
  ASSUME Inv, PartsInWork, NEW p \in Paths,
         \/ MakeDirectory(p) \/ RemoveDirectory(p) \/ MakeFile(p) \/ RemoveFile(p)
         \/ TruncateFile(p) \/ PutFile(p) \/ \E r \in Paths : Move(p, r)
  PROVE  PartsInWork'
  <1> SUFFICES ASSUME ~diskFull' PROVE PartsInWork'
    BY DEF PartsInWork
  <1>1. Types /\ Entries /\ faulty \in BOOLEAN /\ ~diskFull
    BY InvParts, FullStays DEF Types, Next
  <1>2. CASE MakeDirectory(p) \/ MakeFile(p)
    <2>1. job = Idle /\ job' = Idle /\ UNCHANGED <<remote, crashes, out>>
      BY <1>2 DEF MakeDirectory, MakeFile, Ready
    <2>2. ~faulty' => ~faulty
      BY <1>1, <1>2 DEF MakeDirectory, MakeFile, CreateFails
    <2> QED
      BY <1>1, <2>1, <2>2, PartsReady
  <1>3. CASE TruncateFile(p)
    <2>1. job = Idle /\ job' = Idle /\ UNCHANGED <<remote, crashes, out>>
      BY <1>3 DEF TruncateFile, Ready
    <2>2. ~faulty' => ~faulty
      BY <1>1, <1>3 DEF TruncateFile, CreateFails
    <2> QED
      BY <1>1, <2>1, <2>2, PartsReady
  <1>4. CASE RemoveDirectory(p)
    <2>1. job = Idle /\ job' = Idle /\ UNCHANGED <<remote, crashes, out, faulty>>
      BY <1>4 DEF RemoveDirectory, Ready
    <2> QED
      BY <1>1, <2>1, PartsReady
  <1>5. CASE RemoveFile(p)
    <2>1. job = Idle /\ job' = Idle /\ UNCHANGED <<remote, crashes, faulty>>
      BY <1>5 DEF RemoveFile, Ready
    <2>2. \A q \in CvsFiles, v \in Versions : out'[q][v] \in {out[q][v], "none"}
      BY <1>5, Deleted DEF RemoveFile
    <2> QED
      BY <1>1, <2>1, <2>2, PartsReady
  <1>6. CASE PutFile(p)
    <2>1. job = Idle /\ job' = Idle /\ UNCHANGED <<remote, crashes, faulty>>
      BY <1>6 DEF PutFile, Ready, memory
    <2>2. out' = [out EXCEPT ![p][tree[p].version] = "whole"]
      BY <1>6, <1>1 DEF PutFile, Written
    <2>3. \A q \in CvsFiles, v \in Versions : out'[q][v] \in {out[q][v], "whole"}
      BY <1>1, <2>2 DEF Types, Copied
    <2> QED
      BY <1>1, <2>1, <2>3, PartsReady
  <1>7. ASSUME NEW r \in Paths, Move(p, r) PROVE PartsInWork'
    <2>1. job = Idle /\ job' = Idle /\ UNCHANGED <<remote, crashes, faulty>>
      BY <1>7 DEF Move, Ready
    <2>2. CASE out' = out
      BY <1>1, <2>1, <2>2, PartsReady
    <2>3. CASE Movable(p, r) /\ RenameFile(p, r)
      <3>1. PICK from \in Copies(p), to \in Copies(r) : FileMoved(p, r, from, to)
        BY <2>3, FileRenamed
      <3>2. \A f \in CvsFiles, v \in Versions :
              out'[f][v] \in {"none", "whole", out[f][v]} \/
              (p \in CvsFiles /\ from \in Versions /\ out'[f][v] = out[p][from])
        BY <3>1 DEF FileMoved
      <3> QED
        BY <1>1, <2>1, <3>2, PartsReady
    <2> QED
      BY <1>7, <2>2, <2>3 DEF Move, Movable, RenameDirectory
  <1> QED
    BY <1>2, <1>3, <1>4, <1>5, <1>6, <1>7

LEMMA PartsLoads ==
  ASSUME Inv, Unmixed, PartsInWork,
         \/ LoadTree \/ Received \/ NotReceived \/ Crash
         \/ CheckoutLoad \/ CheckoutCreate \/ CheckoutCopy
         \/ \E p \in Paths, v \in Versions : GetFullEntry(p, v) \/ GetFile(p, v) \/ Checkout(p, v)
  PROVE  PartsInWork'
  <1> SUFFICES ASSUME crashes' = 0, ~diskFull' PROVE PartsInWork'
    BY DEF PartsInWork
  <1>1. /\ Types /\ Entries /\ crashes \in Nat /\ ~diskFull
        /\ job.op # "idle" => job.path \in CvsFiles /\ job.version \in Versions
    BY InvParts, FullStays DEF JobFile, Types, Next
  <1>2. CASE LoadTree
    BY <1>1, <1>2 DEF LoadTree, disk, PartsInWork
  <1>3. CASE Crash
    BY <1>1, <1>3 DEF Crash
  <1>4. CASE Received
    <2>1. /\ UNCHANGED <<out, faulty, crashes>> /\ job.op \in {"get", "fetch"}
          /\ remote' = [remote EXCEPT ![job.path][job.version] = IF @ = "none" THEN "none" ELSE "whole"]
      BY <1>4 DEF Received, Written
    <2>2. \A p \in CvsFiles, v \in Versions :
            /\ remote'[p][v] = "partial" => remote[p][v] = "partial" /\ ~(p = job.path /\ v = job.version)
      BY <1>1, <2>1 DEF Types, Copied
    <2> QED
      BY <1>1, <2>1, <2>2 DEF PartsInWork
  <1>5. CASE NotReceived
    <2>1. /\ UNCHANGED <<out, faulty, crashes>> /\ job.op \in {"get", "fetch"}
          /\ remote' = [remote EXCEPT ![job.path][job.version] = "none"]
      BY <1>5 DEF NotReceived
    <2>2. \A p \in CvsFiles, v \in Versions :
            /\ remote'[p][v] = "partial" => remote[p][v] = "partial" /\ ~(p = job.path /\ v = job.version)
      BY <1>1, <2>1 DEF Types, Copied
    <2> QED
      BY <1>1, <2>1, <2>2 DEF PartsInWork
  <1>6. CASE CheckoutLoad
    <2>1. UNCHANGED <<out, crashes>> /\ job.op = "load" /\ (~faulty' => ~faulty)
      BY <1>1, <1>6 DEF CheckoutLoad, BeginLoad, Types
    <2>2. CASE UNCHANGED remote
      BY <1>1, <2>1, <2>2 DEF PartsInWork
    <2>3. CASE /\ remote' = [remote EXCEPT ![job.path][job.version] = "partial"]
               /\ job' = [job EXCEPT !.op = "fetch"]
      <3>1. \A p \in CvsFiles, v \in Versions :
              remote'[p][v] = "partial" => remote[p][v] = "partial" \/ (p = job.path /\ v = job.version)
        BY <1>1, <2>1, <2>3 DEF Types, Copied
      <3>2. job'.op = "fetch" /\ job'.path = job.path /\ job'.version = job.version
        BY <1>1, <2>3 DEF Types, Jobs
      <3> QED
        BY <1>1, <2>1, <3>1, <3>2 DEF PartsInWork
    <2> QED
      BY <1>6, <2>2, <2>3 DEF CheckoutLoad, BeginLoad
  <1>7. CASE CheckoutCreate
    <2>1. UNCHANGED <<remote, crashes>> /\ job.op = "create" /\ (~faulty' => ~faulty)
      BY <1>7 DEF CheckoutCreate
    <2>2. CASE UNCHANGED out
      BY <1>1, <2>1, <2>2 DEF PartsInWork
    <2>3. CASE /\ out' = [out EXCEPT ![job.path][job.version] = "partial"]
               /\ job' = [job EXCEPT !.op = "copy"]
      <3>1. \A p \in CvsFiles, v \in Versions :
              out'[p][v] = "partial" => out[p][v] = "partial" \/ (p = job.path /\ v = job.version)
        BY <1>1, <2>1, <2>3 DEF Types, Copied
      <3>2. job'.op = "copy" /\ job'.path = job.path /\ job'.version = job.version
        BY <1>1, <2>3 DEF Types, Jobs
      <3> QED
        BY <1>1, <2>1, <3>1, <3>2 DEF PartsInWork
    <2> QED
      BY <1>7, <2>2, <2>3 DEF CheckoutCreate
  <1>8. CASE CheckoutCopy
    <2>1. UNCHANGED <<remote, crashes, faulty>> /\ job.op = "copy" /\ crashes = 0
      BY <1>8 DEF CheckoutCopy
    <2>2. \A p \in CvsFiles, v \in Versions : remote[p][v] # "partial"
      BY <1>1, <2>1 DEF PartsInWork
    <2>3. ~faulty => \A p \in CvsFiles, v \in Versions : out'[p][v] # "partial"
      <3> SUFFICES ASSUME ~faulty, NEW p \in CvsFiles, NEW v \in Versions
                   PROVE  out'[p][v] # "partial"
        OBVIOUS
      <3>1. out' = [out EXCEPT ![job.path][job.version] = remote[job.path][job.version]]
        BY <1>8, <2>1 DEF Unmixed, CheckoutCopy, Written
      <3>2. out[p][v] = "partial" => p = job.path /\ v = job.version
        BY <1>1, <2>1 DEF PartsInWork
      <3> QED
        BY <1>1, <2>1, <2>2, <3>1, <3>2 DEF Types, Copied
    <2> QED
      BY <1>1, <2>1, <2>2, <2>3 DEF PartsInWork
  <1>9. ASSUME NEW p \in Paths, NEW v \in Versions, GetFullEntry(p, v) PROVE PartsInWork'
    BY <1>1, <1>9 DEF GetFullEntry, disk, PartsInWork
  <1>10. ASSUME NEW p \in Paths, NEW v \in Versions, GetFile(p, v) PROVE PartsInWork'
    <2>1. /\ UNCHANGED <<out, crashes>> /\ job = Idle /\ p \in CvsFiles
          /\ job'.op = "get" /\ job'.path = p /\ job'.version = v
      BY <1>1, <1>10 DEF GetFile, Start, Ready, Entries
    <2>2. /\ ~faulty' => ~faulty
          /\ \A q \in CvsFiles, w \in Versions :
               remote'[q][w] = "partial" => remote[q][w] = "partial" \/ (q = p /\ w = v)
      BY <1>1, <1>10, <2>1 DEF GetFile, BeginLoad, Types, Copied
    <2> QED
      BY <1>1, <2>1, <2>2 DEF PartsInWork, Idle
  <1>11. ASSUME NEW p \in Paths, NEW v \in Versions, Checkout(p, v) PROVE PartsInWork'
    <2>1. job = Idle /\ UNCHANGED <<remote, crashes, faulty>>
      BY <1>11 DEF Checkout, Ready
    <2>2. \A q \in CvsFiles, w \in Versions : out'[q][w] \in {out[q][w], "none"}
      BY <1>11, Deleted DEF Checkout
    <2> QED
      BY <1>1, <2>1, <2>2 DEF PartsInWork, Idle
  <1> QED
    BY <1>2, <1>3, <1>4, <1>5, <1>6, <1>7, <1>8, <1>9, <1>10, <1>11

LEMMA PartsStutter ==
  ASSUME PartsInWork, UNCHANGED vars
  PROVE  PartsInWork'
  BY DEF PartsInWork, vars, memory, disk
----------------------------------------------------------------------------
LEMMA NextInv ==
  ASSUME Inv, [Next]_vars
  PROVE  Inv'
  <1>1. ASSUME NEW p \in Paths, NEW v \in Versions,
               GetFullEntry(p, v) \/ GetFile(p, v) \/ Checkout(p, v)
        PROVE  Inv'
    BY <1>1, GetFullEntryInv, GetFileInv, CheckoutInv
  <1>2. ASSUME NEW p \in Paths,
               \/ MakeDirectory(p) \/ RemoveDirectory(p) \/ MakeFile(p) \/ RemoveFile(p)
               \/ TruncateFile(p) \/ PutFile(p) \/ \E r \in Paths : Move(p, r)
        PROVE  Inv'
    BY <1>2, MakeDirectoryInv, RemoveDirectoryInv, MakeFileInv, RemoveFileInv,
       TruncateFileInv,
       PutFileInv, MoveInv
  <1>3. CASE \/ LoadTree \/ Received \/ NotReceived \/ Crash
             \/ CheckoutLoad \/ CheckoutCreate \/ CheckoutCopy
    BY <1>3, LoadTreeInv, ReceivedInv, NotReceivedInv, CrashInv, CheckoutLoadInv,
       CheckoutCreateInv, CheckoutCopyInv
  <1>4. CASE UNCHANGED vars
    BY <1>4, StutterInv
  <1> QED
    BY <1>1, <1>2, <1>3, <1>4 DEF Next

LEMMA NextUnmixed ==
  ASSUME Inv, Unmixed, [Next]_vars
  PROVE  Unmixed'
  <1>1. ASSUME NEW p \in Paths, NEW v \in Versions,
               GetFullEntry(p, v) \/ GetFile(p, v) \/ Checkout(p, v)
        PROVE  Unmixed'
    BY <1>1, UnmixedLoads, UnmixedCheckout
  <1>2. ASSUME NEW p \in Paths,
               \/ MakeDirectory(p) \/ RemoveDirectory(p) \/ MakeFile(p) \/ RemoveFile(p)
               \/ TruncateFile(p) \/ PutFile(p) \/ \E r \in Paths : Move(p, r)
        PROVE  Unmixed'
    BY <1>2, UnmixedMakes, UnmixedRemoves, UnmixedMove
  <1>3. CASE \/ LoadTree \/ Received \/ NotReceived \/ Crash
             \/ CheckoutLoad \/ CheckoutCreate \/ CheckoutCopy
    BY <1>3, UnmixedLoads, UnmixedCheckouts, UnmixedStarts
  <1>4. CASE UNCHANGED vars
    BY <1>4, UnmixedStutter
  <1> QED
    BY <1>1, <1>2, <1>3, <1>4 DEF Next

LEMMA NextParts ==
  ASSUME Inv, Unmixed, PartsInWork, [Next]_vars
  PROVE  PartsInWork'
  BY PartsFiles, PartsLoads, PartsStutter DEF Next

LEMMA Invariance == Spec => [](Inv /\ Unmixed /\ PartsInWork /\ diskFull \in BOOLEAN)
  <1>1. Init => Inv /\ Unmixed /\ PartsInWork /\ diskFull \in BOOLEAN
    BY InvInit, UnmixedInit, PartsInit DEF Init
  <1>2. Inv /\ Unmixed /\ PartsInWork /\ diskFull \in BOOLEAN /\ [Next]_vars =>
          (Inv /\ Unmixed /\ PartsInWork /\ diskFull \in BOOLEAN)'
    BY NextInv, NextUnmixed, NextParts, FullTyped
  <1> QED
    BY <1>1, <1>2, PTL DEF Spec

LEMMA RestartFinds ==
  ASSUME Inv, Unmixed
  PROVE  RestartKeeps
  <1> SUFFICES ASSUME loaded, ~faulty, NEW p \in Paths, tree[p].kind \in {"local", "out"},
                      NEW t \in FreshTrees
               PROVE  t[p] = tree[p]
    BY DEF RestartKeeps
  <1>1. Types /\ Entries /\ Places /\ DiskRooted(local)
    BY InvParts
  <1>2. PICK last \in [CvsFiles -> Versions] :
           /\ \A q \in CvsFiles : CheckedOut(q) = {} \/ last[q] \in CheckedOut(q)
           /\ \A q \in Paths : t[q] =
                IF \A x \in Above(q) : IsDir(Fresh(x, last)) THEN Fresh(q, last) ELSE None
    BY FreshTree
  <1>3. tree[p] = Entry(tree[p].kind, tree[p].version)
    BY <1>1, EntryFields DEF Types, Trees
  <1>4. CASE tree[p].kind = "local"
    <2>1. local[p] = "file" /\ tree[p] = Entry("local", 0)
      BY <1>1, <1>3, <1>4 DEF Places, Entries
    <2>2. \A x \in Above(p) : local[x] = "dir"
      BY <1>1, <2>1 DEF DiskRooted
    <2>3. \A x \in Above(p) : IsDir(Fresh(x, last))
      BY <2>2, EntryFields DEF Fresh, IsDir, Kinds
    <2> QED
      BY <1>2, <2>1, <2>3 DEF Fresh
  <1>5. CASE tree[p].kind = "out"
    <2>1. p \in CvsFiles /\ tree[p].version \in Versions /\ out[p][tree[p].version] # "none"
      BY <1>1, <1>5 DEF Entries, Places
    <2>2. local[p] = "none" /\ \A w \in Versions : out[p][w] # "none" => w = tree[p].version
      BY <2>1 DEF Unmixed, OneLayer
    <2>3. last[p] = tree[p].version /\ CheckedOut(p) # {}
      BY <1>2, <2>1, <2>2 DEF CheckedOut
    <2>4. Fresh(p, last) = tree[p]
      BY <1>3, <1>5, <2>1, <2>2, <2>3, Repository DEF Fresh
    <2>5. \A x \in Above(p) : x \in Paths /\ x \in CvsDirs
      BY <2>1, Repository DEF Above
    <2>6. \A x \in Above(p) : IsDir(Fresh(x, last))
      BY <1>2, <2>5, FreshEntry DEF IsDir
    <2> QED
      BY <1>2, <2>4, <2>6
  <1> QED
    BY <1>4, <1>5

LEMMA PartsUnseen ==
  ASSUME Inv, PartsInWork
  PROVE  WholeUnlessCrashed
  <1> SUFFICES ASSUME crashes = 0, ~diskFull PROVE WholeUnlessCrashed
    BY DEF WholeUnlessCrashed
  <1>1. Types /\ Entries /\ JobFile
    BY InvParts
  <1>2. \A p \in CvsFiles, v \in Versions :
          /\ job = Idle => remote[p][v] # "partial"
          /\ ~faulty /\ out[p][v] = "partial" => job.op = "copy" /\ job.path = p
    BY DEF PartsInWork, Idle
  <1>3. CachedIsWhole
    <2> SUFFICES ASSUME Ready, NEW p \in CvsFiles, NEW v \in Versions, remote[p][v] # "none"
                 PROVE  remote[p][v] = "whole"
      BY DEF CachedIsWhole, Cached
    <2>1. remote[p][v] \in Stored
      BY <1>1 DEF Types, Copied
    <2> QED
      BY <1>2, <2>1 DEF Stored, Ready
  <1>4. ASSUME ~faulty, NEW p \in Paths, tree[p].kind = "out"
        PROVE  out[p][tree[p].version] # "partial"
    <2>1. p \in CvsFiles /\ tree[p].version \in Versions
      BY <1>1, <1>4 DEF Entries
    <2>2. job.op = "copy" => tree[job.path].kind # "out"
      BY <1>1 DEF JobFile, CheckoutSteps
    <2> QED
      BY <1>2, <1>4, <2>1, <2>2
  <1> QED
    BY <1>3, <1>4 DEF WholeUnlessCrashed
----------------------------------------------------------------------------
(* The variables keep their types, and every entry and every local name    *)
(* lies in a directory, whatever is created, removed and moved.            *)
THEOREM TreeTypeCorrect == Spec => []TypeOK
  <1>1. Inv /\ Unmixed /\ PartsInWork /\ diskFull \in BOOLEAN => TypeOK
    BY DEF Inv, TypeOK, Types, Trees, Layers, Known, Copied, Jobs, Rooted, DiskRooted
  <1> QED
    BY <1>1, Invariance, PTL

(* ListedIsStored: a writable file that the tree offers is on the disk, in *)
(* the layer and the version listed, also when creations failed, loads     *)
(* were cut off and the daemon died.                                       *)
THEOREM ListedFilesStored == Spec => []ListedIsStored
  <1>1. Inv /\ Unmixed /\ PartsInWork => ListedIsStored
    BY DEF Inv, Places, ListedIsStored
  <1> QED
    BY <1>1, Invariance, PTL

(* RestartKeeps: until a creation fails, a daemon started again finds every *)
(* file that was listed as writable in the same layer and the same version. *)
(* Directories are not claimed, nor that nothing else is found: rmdir takes *)
(* a result for its opposite (TCvsInterfacePserver.cpp 247-254).            *)
THEOREM RestartKeepsFiles == Spec => []RestartKeeps
  <1>1. Inv /\ Unmixed /\ PartsInWork => RestartKeeps
    BY RestartFinds
  <1> QED
    BY <1>1, Invariance, PTL

(* WholeUnlessCrashed: until a daemon dies or a write fails, what a read    *)
(* takes from the cache is the whole of the version, and until a creation   *)
(* fails so is every file that is listed as checked out.                    *)
THEOREM PartsNeverServed == Spec => []WholeUnlessCrashed
  <1>1. Inv /\ Unmixed /\ PartsInWork => WholeUnlessCrashed
    BY PartsUnseen
  <1> QED
    BY <1>1, Invariance, PTL

=============================================================================
