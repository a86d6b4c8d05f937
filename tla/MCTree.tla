------------------------------- MODULE MCTree -------------------------------
(* Instances of CacheTree for TLC. *)
EXTENDS CacheTree, TLC

CONSTANTS a, b, c, f   \* names

(* A directory and a file of the repository, and one or four more names. *)
FewPaths        == {<<a>>, <<a, f>>, <<b>>}
AllPaths        == {<<a>>, <<a, f>>, <<b>>, <<b, f>>, <<c>>, <<c, f>>}
Repository      == {<<a>>}
RepositoryFiles == {<<a, f>>}

(* The names that only local files have are interchangeable. *)
Symmetry == Permutations({b, c})
=============================================================================
