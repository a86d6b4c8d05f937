------------------------------ MODULE Requests ------------------------------
(***************************************************************************)
(* The lines in which the file system asks its cvsfsd for something: built *)
(* by src/cvsfs/proc.c, dir.c and file.c, taken apart by the doit of the   *)
(* TModuleAction classes in src/cvsfsd.                                    *)
(*                                                                         *)
(* A line is a sequence of tokens.  What matters of a name is where a      *)
(* blank, an @ and the version delimiter are in it; the key, offsets and   *)
(* sizes are left out.                                                     *)
(***************************************************************************)
EXTENDS Naturals, Sequences, SequencesExt, FiniteSetsExt

Blank == " "
At    == "@"
AtAt  == "@@"

Has(s, token) == \E i \in DOMAIN s : s[i] = token

(* string::find and erase, strchr: up to the first token, and after it. *)
Before(s, token) ==
  IF Has(s, token) THEN SubSeq(s, 1, SelectInSeq(s, LAMBDA t : t = token) - 1) ELSE s
After(s, token) ==
  IF Has(s, token) THEN SubSeq(s, SelectInSeq(s, LAMBDA t : t = token) + 1, Len(s)) ELSE <<>>

(* The loops that erase the blanks at the end. *)
Trim(s) == SubSeq(s, 1, SelectLastInSeq(s, LAMBDA t : t # Blank))
----------------------------------------------------------------------------
(* What the kernel module sends.  open, write, rename, setattr and ioctl   *)
(* append the version of the inode, if it has one, whatever the name is.   *)
WithVersion(name, version) ==
  IF version = <<>> THEN name ELSE name \o <<AtAt>> \o version

(* attr, rmfile, rmdir and truncfile: a name. *)
NameLine(name) == name

(* mkfile, mkdir and setattr: a name and a mode. *)
ModeLine(name, mode) == name \o <<Blank, mode>>

(* get: the version of the inode comes after a blank, empty or not.        *)
GetLine(name, version) == name \o <<Blank>> \o version

(* Mutant: the version is added to a name that has it. *)
PutLineTwice(name, version, data) == WithVersion(name, version) \o <<Blank, data>>

(* put: a version is added to a name that has none, or an @ before it. *)
PutLine(name, version, data) ==
  (IF Has(name, AtAt) /\ ~Has(Before(name, AtAt), At) THEN name ELSE WithVersion(name, version))
    \o <<Blank, data>>

MoveLine(old, new) == old \o <<Blank>> \o new

IoctlLine(command, name) == <<command, Blank>> \o name

(* The *_VERSION calls overwrite the version of the inode.  Without one    *)
(* the name ends before the version that was asked for.                    *)
AskedVersion(name, version, asked) ==
  IF version = <<>> THEN name ELSE name \o <<AtAt>> \o asked
----------------------------------------------------------------------------
(* What the daemon makes of it. *)
Split(s) == [name |-> Before(s, AtAt), version |-> After(s, AtAt)]

ParseName(line) == Split(Trim(line))
ParseMode(line) == Split(Before(Trim(line), Blank))
ModeOf(line)    == After(Trim(line), Blank)

(* get: the version after the blank goes before one in the name. *)
ParseGet(line) ==
  LET name == Before(Trim(line), Blank)  asked == After(Trim(line), Blank)
  IN [name |-> Before(name, AtAt), version |-> IF asked = <<>> THEN After(name, AtAt) ELSE asked]

ParsePut(line) == Split(Before(line, Blank))
DataOf(line)   == After(line, Blank)

ParseMove(line) == Split(Before(Trim(line), Blank))
MoveTarget(line) == After(Trim(line), Blank)

Command(line)    == Head(line)
ParseIoctl(line) == Split(After(Trim(line), Blank))
=============================================================================
