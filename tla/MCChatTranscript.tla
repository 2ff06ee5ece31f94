-------------------------- MODULE MCChatTranscript --------------------------
(***************************************************************************)
(* A small instance of ChatTranscript: two requests at a time, a page of   *)
(* three messages.                                                         *)
(***************************************************************************)
EXTENDS ChatTranscript, TLC

Alike == Permutations(Clients)
=============================================================================
