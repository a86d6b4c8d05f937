------------------------------- MODULE MCVfs -------------------------------
(* Instances of VfsOperations for TLC. *)
EXTENDS VfsOperations, TLC

CONSTANTS p, q   \* processes

(* A file of the repository with two versions, a name that is free, and    *)
(* the first version of the file by its own name.                          *)
AllFiles      == {<<"f">>, <<"g">>}
AllNames      == AllFiles \cup {<<"f", "@@", "1">>}
Repository    == {<<"f">>}
TwoVersions   == {<<"1">>, <<"2">>}
Latest        == <<"2">>
TwoBlocks     == <<"a", "b">>
NoBlock       == <<>>
AllCommands   == Unversioned \cup {"checkout_version", "checkin_version"}
Executable    == {"rwx"}

(* The file in the repository and nothing else, checked out and a local    *)
(* file, in the repository and a directory.                                *)
Beginning(k, l) == [n \in AllFiles |-> IF n \in Repository THEN k ELSE l]
Untouched       == {Beginning("remote", "none")}
SomeBeginnings  == Untouched \cup {Beginning("out", "local"), Beginning("remote", "dir")}

(* The processes are interchangeable. *)
Symmetry == Permutations({p, q})
=============================================================================
