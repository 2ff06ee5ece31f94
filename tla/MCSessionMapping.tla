-------------------------- MODULE MCSessionMapping --------------------------
(***************************************************************************)
(* A small instance of SessionMapping: a change with a session and one     *)
(* decomposed task, a discussion, two sessions and two changes yet to be   *)
(* made.                                                                   *)
(***************************************************************************)
EXTENDS SessionMapping, TLC

CONSTANTS work, chat, s1, s2, old, new1, new2

FourSessions == {work, chat, s1, s2}
ThreeChanges == {old, new1, new2}
Alike == Permutations(Procs) \cup Permutations({s1, s2}) \cup Permutations({new1, new2})
=============================================================================
