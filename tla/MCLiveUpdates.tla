--------------------------- MODULE MCLiveUpdates ---------------------------
(* An index page and an explorer page: each takes part in the other's      *)
(* events, one of them through the shared docs channel.                    *)
EXTENDS LiveUpdates
=============================================================================
