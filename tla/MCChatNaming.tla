---------------------------- MODULE MCChatNaming ----------------------------
(***************************************************************************)
(* A small instance of ChatNaming: two requests at a time.                 *)
(***************************************************************************)
EXTENDS ChatNaming
=============================================================================
