---------------------------- MODULE MCDocsQueue ----------------------------
(***************************************************************************)
(* A small instance of DocsQueue: the root 1, a directory 2 with a         *)
(* subdirectory 3, a directory 4.                                          *)
(***************************************************************************)
EXTENDS DocsQueue

Tree == 1..4
Parents == [d \in Tree |-> CASE d = 1 -> {} [] d = 3 -> {1, 2} [] OTHER -> {1}]
Changes == {{2, 3, 4}}
Reported == {{4}}
=============================================================================
