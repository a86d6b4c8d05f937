----------------------------- MODULE MCSession -----------------------------
(* An instance of PserverSession for TLC. *)
EXTENDS PserverSession, TLC

CONSTANTS a, b   \* names

(* A directory with a file in it, and a file beside it. *)
TwoDirs  == <<<<>>, <<a>>>>
TwoFiles == {<<b>>, <<a, b>>}
=============================================================================
