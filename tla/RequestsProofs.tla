--------------------------- MODULE RequestsProofs ---------------------------
(***************************************************************************)
(* The lines of Requests are understood as they are meant, whatever the    *)
(* names and versions are made of, unless a token of the format is in them.*)
(***************************************************************************)
EXTENDS Requests, SequenceTheorems, TLAPS

(* The cut is at the first place of the token. *)
LEMMA CutPlace ==
  ASSUME NEW s, Len(s) \in Nat, NEW t, NEW k \in 1 .. Len(s), s[k] = t,
         \A i \in 1 .. k - 1 : s[i] # t
  PROVE  Before(s, t) = SubSeq(s, 1, k - 1) /\ After(s, t) = SubSeq(s, k + 1, Len(s))
  <1> DEFINE I == {i \in 1 .. Len(s) : s[i] = t}
  <1>1. k \in I /\ I \subseteq Nat /\ \A j \in I : k <= j
    OBVIOUS
  <1>2. Min(I) = k
    <2> HIDE DEF I
    <2>1. Min(I) \in I /\ \A y \in I : Min(I) <= y
      BY <1>1 DEF Min
    <2>2. ASSUME NEW m \in I, \A y \in I : m <= y
          PROVE  m = k
      <3>1. m <= k /\ k <= m /\ m \in Nat /\ k \in Nat
        BY <1>1, <2>2
      <3> QED
        BY <3>1
    <2> QED
      BY <2>1, <2>2
  <1>3. Has(s, t)
    BY DEF Has
  <1>4. I # {}
    BY <1>1
  <1>5. Before(s, t) = SubSeq(s, 1, Min(I) - 1)
    BY <1>3, <1>4 DEF Before, SelectInSeq
  <1>6. After(s, t) = SubSeq(s, Min(I) + 1, Len(s))
    BY <1>3, <1>4 DEF After, SelectInSeq
  <1> QED
    BY <1>2, <1>5, <1>6

(* The blanks at the end are trimmed, and nothing else. *)
LEMMA TrimPlace ==
  ASSUME NEW s, Len(s) \in Nat, NEW k \in 1 .. Len(s), s[k] # Blank,
         \A i \in k + 1 .. Len(s) : s[i] = Blank
  PROVE  Trim(s) = SubSeq(s, 1, k)
  <1> DEFINE I == {i \in 1 .. Len(s) : s[i] # Blank}
  <1>1. k \in I /\ I \subseteq Nat /\ \A j \in I : k >= j
    OBVIOUS
  <1>2. Max(I) = k
    <2> HIDE DEF I
    <2>1. Max(I) \in I /\ \A y \in I : Max(I) >= y
      BY <1>1 DEF Max
    <2>2. ASSUME NEW m \in I, \A y \in I : m >= y
          PROVE  m = k
      <3>1. m <= k /\ k <= m /\ m \in Nat /\ k \in Nat
        BY <1>1, <2>2
      <3> QED
        BY <3>1
    <2> QED
      BY <2>1, <2>2
  <1>3. Trim(s) = SubSeq(s, 1, Max(I))
    BY <1>1 DEF Trim, SelectLastInSeq
  <1> QED
    BY <1>2, <1>3

LEMMA TrimEnds ==
  ASSUME NEW S, NEW s \in Seq(S), s # <<>>, s[Len(s)] # Blank
  PROVE  Trim(s) = s
  <1>1. Trim(s) = SubSeq(s, 1, Len(s))
    <2>1. Len(s) \in Nat /\ Len(s) \in 1 .. Len(s) /\ \A i \in Len(s) + 1 .. Len(s) : s[i] = Blank
      OBVIOUS
    <2> QED
      BY <2>1, TrimPlace
  <1> QED
    BY <1>1, SubSeqFull

LEMMA TrimOneBlank ==
  ASSUME NEW S, Blank \in S, NEW s \in Seq(S), s # <<>>, s[Len(s)] # Blank
  PROVE  Trim(s \o <<Blank>>) = s
  <1> DEFINE t == s \o <<Blank>>  k == Len(s)
  <1>1. /\ Len(t) \in Nat /\ k \in 1 .. Len(t) /\ t[k] # Blank
        /\ \A i \in k + 1 .. Len(t) : t[i] = Blank
    OBVIOUS
  <1>2. SubSeq(t, 1, k) = s
    OBVIOUS
  <1> HIDE DEF t, k
  <1>3. Trim(t) = SubSeq(t, 1, k)
    BY <1>1, TrimPlace
  <1> QED
    BY <1>2, <1>3 DEF t

(* Cutting at a token that is not in the first part. *)
LEMMA CutAt ==
  ASSUME NEW S, NEW a \in Seq(S), NEW b \in Seq(S), NEW t \in S, ~Has(a, t)
  PROVE  Before(a \o <<t>> \o b, t) = a /\ After(a \o <<t>> \o b, t) = b
  <1> DEFINE s == a \o <<t>> \o b
  <1>1. /\ s \in Seq(S) /\ Len(s) = Len(a) + 1 + Len(b) /\ s[Len(a) + 1] = t
        /\ \A i \in 1 .. Len(a) : s[i] = a[i]
        /\ \A i \in 1 .. Len(b) : s[Len(a) + 1 + i] = b[i]
    OBVIOUS
  <1> HIDE DEF s
  <1>2. \A i \in 1 .. Len(a) : s[i] # t
    BY <1>1 DEF Has
  <1> DEFINE k == Len(a) + 1
  <1>3. k \in 1 .. Len(s) /\ k - 1 = Len(a) /\ s[k] = t
    BY <1>1
  <1> HIDE DEF k
  <1>4. Before(s, t) = SubSeq(s, 1, k - 1) /\ After(s, t) = SubSeq(s, k + 1, Len(s))
    <2>1. Len(s) \in Nat /\ \A i \in 1 .. k - 1 : s[i] # t
      BY <1>1, <1>2, <1>3
    <2> QED
      BY <1>3, <2>1, CutPlace
  <1>5. k + 1 = Len(a) + 2
    BY <1>1 DEF k
  <1>6. SubSeq(s, 1, Len(a)) = a
    BY <1>1
  <1>7. SubSeq(s, Len(a) + 2, Len(s)) = b
    BY <1>1
  <1> QED
    BY <1>3, <1>4, <1>5, <1>6, <1>7 DEF s

LEMMA NothingToCut ==
  ASSUME NEW s, NEW t, ~Has(s, t)
  PROVE  Before(s, t) = s /\ After(s, t) = <<>>
  BY DEF Before, After
----------------------------------------------------------------------------
(* A name, a version or a word that the format of the lines does not use. *)
Plain(s) == ~Has(s, Blank) /\ ~Has(s, At) /\ ~Has(s, AtAt)

Meant(name, version) == [name |-> name, version |-> version]

LEMMA OneToken ==
  ASSUME NEW S, NEW x \in S
  PROVE  <<x>> \in Seq(S) /\ Len(<<x>>) = 1 /\ <<x>>[1] = x
  OBVIOUS

LEMMA HasOne ==
  ASSUME NEW x, NEW t, x # t
  PROVE  ~Has(<<x>>, t)
  BY DEF Has

LEMMA TokensDiffer == Blank # At /\ Blank # AtAt /\ At # AtAt
  BY DEF Blank, At, AtAt

(* Has of a concatenation. *)
LEMMA HasConcat ==
  ASSUME NEW S, NEW a \in Seq(S), NEW b \in Seq(S), NEW t, ~Has(a, t), ~Has(b, t)
  PROVE  ~Has(a \o b, t)
  BY ConcatProperties DEF Has

(* A full name: it is not empty, ends with no blank and has none in it, *)
(* and splits into the name and the version.                            *)
LEMMA FullNameSplits ==
  ASSUME NEW S, {Blank, At, AtAt} \subseteq S, NEW n \in Seq(S), n # <<>>, NEW v \in Seq(S),
         Plain(n), Plain(v)
  PROVE  /\ WithVersion(n, v) \in Seq(S) /\ WithVersion(n, v) # <<>>
         /\ ~Has(WithVersion(n, v), Blank) /\ ~Has(Before(WithVersion(n, v), AtAt), At)
         /\ Has(WithVersion(n, v), AtAt) <=> v # <<>>
         /\ Split(WithVersion(n, v)) = Meant(n, v)
  <1>1. CASE v = <<>>
    <2>1. WithVersion(n, v) = n
      BY <1>1 DEF WithVersion
    <2> QED
      BY <1>1, <2>1, NothingToCut DEF Split, Meant, Plain
  <1>2. CASE v # <<>>
    <2> DEFINE full == n \o <<AtAt>> \o v
    <2>1. WithVersion(n, v) = full
      BY <1>2 DEF WithVersion
    <2>2. <<AtAt>> \in Seq(S) /\ n \o <<AtAt>> \in Seq(S)
      BY OneToken
    <2>3. full \in Seq(S) /\ full # <<>> /\ full[Len(n) + 1] = AtAt /\ Len(full) = Len(n) + 1 + Len(v)
      OBVIOUS
    <2>4. ~Has(full, Blank)
      <3>1. ~Has(<<AtAt>>, Blank)
        BY HasOne, TokensDiffer
      <3>2. ~Has(n \o <<AtAt>>, Blank)
        BY <2>2, <3>1, HasConcat DEF Plain
      <3> QED
        BY <2>2, <3>2, HasConcat DEF Plain
    <2>5. Has(full, AtAt)
      BY <2>3 DEF Has
    <2>6. Before(full, AtAt) = n /\ After(full, AtAt) = v
      BY CutAt DEF Plain
    <2> HIDE DEF full
    <2> QED
      BY <1>2, <2>1, <2>3, <2>4, <2>5, <2>6 DEF Split, Meant, Plain
  <1> QED
    BY <1>1, <1>2

(* A line that is a text without a blank, a blank and one more word. *)
LEMMA TwoWords ==
  ASSUME NEW S, Blank \in S, NEW a \in Seq(S), ~Has(a, Blank), NEW b \in Seq(S), b # <<>>,
         b[Len(b)] # Blank
  PROVE  /\ Trim(a \o <<Blank>> \o b) = a \o <<Blank>> \o b
         /\ Before(a \o <<Blank>> \o b, Blank) = a /\ After(a \o <<Blank>> \o b, Blank) = b
  <1> DEFINE line == a \o <<Blank>> \o b
  <1>1. line \in Seq(S) /\ line # <<>> /\ Len(line) = Len(a) + 1 + Len(b) /\ line[Len(line)] = b[Len(b)]
    OBVIOUS
  <1>2. Trim(line) = line
    <2> HIDE DEF line
    <2> QED
      BY <1>1, TrimEnds
  <1>3. Before(line, Blank) = a /\ After(line, Blank) = b
    BY CutAt
  <1> QED
    BY <1>2, <1>3

LEMMA WordAppended ==
  ASSUME NEW S, NEW a \in Seq(S), NEW x \in S, NEW y \in S
  PROVE  a \o <<x, y>> = (a \o <<x>>) \o <<y>>
  <1> DEFINE l == a \o <<x, y>>  r == (a \o <<x>>) \o <<y>>
  <1>1. l \in Seq(S) /\ Len(l) = Len(a) + 2
    OBVIOUS
  <1>2. r \in Seq(S) /\ Len(r) = Len(a) + 2
    OBVIOUS
  <1>3. ASSUME NEW i \in 1 .. Len(a) + 2
        PROVE  l[i] = r[i]
    <2>1. CASE i \in 1 .. Len(a)
      BY <2>1
    <2>2. CASE i = Len(a) + 1
      BY <2>2
    <2>3. CASE i = Len(a) + 2
      BY <2>3
    <2> QED
      BY <2>1, <2>2, <2>3
  <1> HIDE DEF l, r
  <1>4. l = r
    BY <1>1, <1>2, <1>3, SeqEqual
  <1> QED
    BY <1>4 DEF l, r

LEMMA WordInFront ==
  ASSUME NEW S, NEW a \in Seq(S), NEW x \in S, NEW y \in S
  PROVE  <<x, y>> \o a = <<x>> \o <<y>> \o a
  OBVIOUS

LEMMA NoBlankLast ==
  ASSUME NEW S, NEW s \in Seq(S), s # <<>>, ~Has(s, Blank)
  PROVE  s[Len(s)] # Blank /\ Trim(s) = s
  <1>1. s[Len(s)] # Blank
    BY DEF Has
  <1> QED
    BY <1>1, TrimEnds

(* A put line is the full name, a blank and the block. *)
LEMMA PutLineParts ==
  ASSUME NEW S, {Blank, At, AtAt} \subseteq S, NEW n \in Seq(S), n # <<>>, NEW v \in Seq(S),
         Plain(n), Plain(v), NEW block \in S
  PROVE  /\ PutLine(WithVersion(n, v), v, block) = WithVersion(n, v) \o <<Blank, block>>
         /\ Before(PutLine(WithVersion(n, v), v, block), Blank) = WithVersion(n, v)
         /\ After(PutLine(WithVersion(n, v), v, block), Blank) = <<block>>
  <1> DEFINE full == WithVersion(n, v)
  <1>1. /\ full \in Seq(S) /\ ~Has(full, Blank)
        /\ ~Has(Before(full, AtAt), At)
        /\ Has(full, AtAt) <=> v # <<>>
    BY FullNameSplits
  <1> HIDE DEF full
  <1>2. PutLine(full, v, block) = full \o <<Blank, block>>
    BY <1>1 DEF PutLine, WithVersion
  <1>3. full \o <<Blank, block>> = (full \o <<Blank>>) \o <<block>>
    <2>1. full \in Seq(S) /\ Blank \in S /\ block \in S
      BY <1>1
    <2> QED
      BY <2>1, WordAppended, SMTT(30)
  <1>4. /\ Before((full \o <<Blank>>) \o <<block>>, Blank) = full
        /\ After((full \o <<Blank>>) \o <<block>>, Blank) = <<block>>
    <2>1. full \in Seq(S) /\ <<block>> \in Seq(S) /\ Blank \in S /\ ~Has(full, Blank)
      BY <1>1, OneToken
    <2> QED
      BY <2>1, CutAt
  <1> QED
    BY <1>2, <1>3, <1>4, Zenon DEF full

(* Every line the kernel module sends about a name and a version, both     *)
(* free of blanks and @, is understood as that name and that version, and  *)
(* what comes after it as what was meant: setattr, rename, write, read and *)
(* ioctl together with the doit that takes their line apart.               *)
THEOREM LinesUnderstood ==
  ASSUME NEW S, {Blank, At, AtAt} \subseteq S,
         NEW n \in Seq(S), n # <<>>, NEW v \in Seq(S), Plain(n), Plain(v),
         NEW word \in S, word # Blank, NEW block \in S,
         NEW r \in Seq(S), r # <<>>, ~Has(r, Blank)
  PROVE  /\ ParseName(NameLine(WithVersion(n, v))) = Meant(n, v)
         /\ ParseMode(ModeLine(WithVersion(n, v), word)) = Meant(n, v)
         /\ ModeOf(ModeLine(WithVersion(n, v), word)) = <<word>>
         /\ ParseGet(GetLine(n, v)) = Meant(n, v)
         /\ ParsePut(PutLine(WithVersion(n, v), v, block)) = Meant(n, v)
         /\ DataOf(PutLine(WithVersion(n, v), v, block)) = <<block>>
         /\ ParseMove(MoveLine(WithVersion(n, v), r)) = Meant(n, v)
         /\ MoveTarget(MoveLine(WithVersion(n, v), r)) = r
         /\ ParseIoctl(IoctlLine(word, WithVersion(n, v))) = Meant(n, v)
         /\ Command(IoctlLine(word, WithVersion(n, v))) = word
  <1> DEFINE full == WithVersion(n, v)
  <1>1. /\ full \in Seq(S) /\ full # <<>> /\ ~Has(full, Blank) /\ Split(full) = Meant(n, v)
        /\ ~Has(Before(full, AtAt), At)
        /\ Has(full, AtAt) <=> v # <<>>
    BY FullNameSplits
  <1> HIDE DEF full
  <1>2. <<word>> \in Seq(S) /\ <<word>> # <<>> /\ <<word>>[Len(<<word>>)] # Blank
        /\ ~Has(<<word>>, Blank)
    BY OneToken, HasOne
  <1>3. /\ Trim(full \o <<Blank, word>>) = full \o <<Blank, word>>
        /\ Before(full \o <<Blank, word>>, Blank) = full
        /\ After(full \o <<Blank, word>>, Blank) = <<word>>
    <2>1. full \o <<Blank, word>> = (full \o <<Blank>>) \o <<word>>
      <3>1. full \in Seq(S) /\ Blank \in S /\ word \in S
        BY <1>1
      <3> QED
        BY <3>1, WordAppended, SMTT(30)
    <2> QED
      BY <1>1, <1>2, <2>1, TwoWords
  <1>4. ParseName(NameLine(full)) = Meant(n, v)
    BY <1>1, NoBlankLast DEF ParseName, NameLine
  <1>5. ParseMode(ModeLine(full, word)) = Meant(n, v) /\ ModeOf(ModeLine(full, word)) = <<word>>
    BY <1>1, <1>3 DEF ParseMode, ModeLine, ModeOf
  <1>6. ParseGet(GetLine(n, v)) = Meant(n, v)
    <2>1. ~Has(n, Blank) /\ ~Has(n, AtAt) /\ ~Has(v, Blank)
      BY DEF Plain
    <2>2. CASE v = <<>>
      <3>1. GetLine(n, v) = n \o <<Blank>>
        <4>1. n \o <<Blank>> \in Seq(S)
          BY OneToken
        <4> QED
          BY <2>2, <4>1, ConcatEmptySeq DEF GetLine
      <3>2. Trim(n \o <<Blank>>) = n
        BY <2>1, NoBlankLast, TrimOneBlank
      <3>3. Before(n, Blank) = n /\ After(n, Blank) = <<>> /\ Before(n, AtAt) = n /\ After(n, AtAt) = <<>>
        BY <2>1, NothingToCut
      <3> QED
        BY <2>2, <3>1, <3>2, <3>3 DEF ParseGet, Meant
    <2>3. CASE v # <<>>
      <3>1. v[Len(v)] # Blank
        BY <2>1, <2>3, NoBlankLast
      <3>2. /\ Trim(GetLine(n, v)) = GetLine(n, v)
            /\ Before(GetLine(n, v), Blank) = n /\ After(GetLine(n, v), Blank) = v
        BY <2>1, <2>3, <3>1, TwoWords DEF GetLine
      <3>3. Before(n, AtAt) = n
        BY <2>1, NothingToCut
      <3> QED
        BY <2>3, <3>2, <3>3 DEF ParseGet, Meant
    <2> QED
      BY <2>2, <2>3
  <1>7. /\ ParsePut(PutLine(full, v, block)) = Meant(n, v)
        /\ DataOf(PutLine(full, v, block)) = <<block>>
    <2>1. /\ Before(PutLine(full, v, block), Blank) = full
          /\ After(PutLine(full, v, block), Blank) = <<block>>
      BY PutLineParts DEF full
    <2> QED
      BY <1>1, <2>1 DEF ParsePut, DataOf
  <1>8. ParseMove(MoveLine(full, r)) = Meant(n, v) /\ MoveTarget(MoveLine(full, r)) = r
    <2>1. r[Len(r)] # Blank
      BY NoBlankLast
    <2> QED
      BY <1>1, <2>1, TwoWords DEF ParseMove, MoveLine, MoveTarget
  <1>9. ParseIoctl(IoctlLine(word, full)) = Meant(n, v) /\ Command(IoctlLine(word, full)) = word
    <2>1. IoctlLine(word, full) = <<word>> \o <<Blank>> \o full
      BY <1>1, WordInFront DEF IoctlLine
    <2>2. full[Len(full)] # Blank
      BY <1>1, NoBlankLast
    <2>3. Trim(IoctlLine(word, full)) = IoctlLine(word, full)
          /\ After(IoctlLine(word, full), Blank) = full
      BY <1>1, <1>2, <2>1, <2>2, TwoWords
    <2>4. Head(IoctlLine(word, full)) = word
      BY <1>1 DEF IoctlLine
    <2> QED
      BY <1>1, <2>3, <2>4 DEF ParseIoctl, Command
  <1> QED
    BY <1>4, <1>5, <1>6, <1>7, <1>8, <1>9 DEF full
=============================================================================
