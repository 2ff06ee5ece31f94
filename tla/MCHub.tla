------------------------------- MODULE MCHub -------------------------------
(***************************************************************************)
(* A small instance of Hub: two directories of one base name, of which at  *)
(* most the first is registered when the hub starts.                       *)
(***************************************************************************)
EXTENDS Hub, TLC

CONSTANTS a, b, x, x2

TwoPaths == {a, b}
TwoSlugs == {x, x2}
Names == [d \in TwoPaths |-> <<x, x2>>]
Alike == Permutations(Procs)

FirstOnly == registry[x] = a /\ registry[x2] = None /\ dirs[b] = "whole"
SmallInit == Init /\ FirstOnly
SmallSpec == SmallInit /\ [][Next]_vars
=============================================================================
