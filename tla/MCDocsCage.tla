----------------------------- MODULE MCDocsCage -----------------------------
(***************************************************************************)
(* A small instance of DocsCage: a directory and its parent.               *)
(***************************************************************************)
EXTENDS DocsCage

MCOrder == <<"child", "parent">>
MCAbove(d) == {d, "parent"}
MCWritten == {"parent"}
=============================================================================
