------------------------- MODULE MCWorktreePipeline -------------------------
(***************************************************************************)
(* Small instances of WorktreePipeline: one change with a worktree and one *)
(* yet to be created.                                                      *)
(***************************************************************************)
EXTENDS WorktreePipeline, TLC

CONSTANTS a, b

Alone == {a}
Pair == {a, b}
WorkerSymmetry == Permutations(Workers)
=============================================================================
