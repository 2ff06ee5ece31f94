----------------------------- MODULE MCChatPoll -----------------------------
(***************************************************************************)
(* A small instance of ChatPoll: two views, the newest pages of two        *)
(* sessions and an older page.                                             *)
(***************************************************************************)
EXTENDS ChatPoll

CONSTANTS a, b, older

MCKeys == {a, b, older}
MCLatest == {a, b}
=============================================================================
