---------------------------- MODULE CvsfsService ----------------------------
(***************************************************************************)
(* What cvsfs_serialize_request promises to the VFS: calls are served one  *)
(* at a time, each at most once, and one that returns data was served.  A  *)
(* call that fails may have been served or not.                            *)
(***************************************************************************)
CONSTANT Ids    \* the calls

VARIABLE phase  \* how far each call is

Phase == {"new", "waiting", "active", "served", "ok", "failed"}

Init == phase = [i \in Ids |-> "new"]

Move(i, from, to) == phase[i] \in from /\ phase' = [phase EXCEPT ![i] = to]

Idle == \A i \in Ids : phase[i] \notin {"active", "served"}

Next == \E i \in Ids :
  \/ Move(i, {"new"}, "waiting")
  \/ Idle /\ Move(i, {"waiting"}, "active")
  \/ Move(i, {"active"}, "served")
  \/ Move(i, {"served"}, "ok")
  \/ Move(i, {"waiting", "active", "served"}, "failed")

Spec == Init /\ [][Next]_phase
=============================================================================
