---------------------------- MODULE MCMigration ----------------------------
(***************************************************************************)
(* Markdown trees for Migration. The first has rows out of the order of    *)
(* their files, a file without a row, a decomposed task and a change in a  *)
(* worktree; the others are what collectChange or the verification refuse. *)
(***************************************************************************)
EXTENDS Migration, TLC

File0 == <<<<0>>, "a">>
File1 == <<<<1>>, "b">>
File2 == <<<<2>>, "a">>
Child == <<<<1, 0>>, "b">>
Row(file, status, deps) ==
  [id |-> file[1], file |-> file, status |-> status, noted |-> FALSE, deps |-> deps]
MCTree(rows, files, under) ==
  [overall |-> "In progress", log |-> 1, rows |-> rows, files |-> files, dirs |-> under]
Plain == MCTree(Root :> <<Row(File0, "Done", {})>>, {File0}, {})
Nested ==
  MCTree((Root :> <<Row(File1, "Test", {<<0>>}), Row(File0, "Done", {})>>)
         @@ (<<1>> :> <<Row(Child, "Done", {})>>), {File0, File1, File2, Child}, {<<1>>})

Two(first, second, away) ==
  [order |-> <<"c1", "c2">>, tree |-> ("c1" :> first @@ "c2" :> second), away |-> away]
Good == {Two(Nested, Plain, {"c2"}), Two(Nested, Plain, {})}
NoFile == [Nested EXCEPT !.files = @ \ {File0}]
OtherTask == [Plain EXCEPT !.rows[Root][1].id = <<1>>]
TwoRows == [Plain EXCEPT !.rows[Root] = @ \o @]
Stray == [Plain EXCEPT !.dirs = {<<7>>}, !.rows = @ @@ (<<7>> :> <<>>)]
UnknownDep == [Plain EXCEPT !.rows[Root][1].deps = {<<7>>}]
Bad == {Two(Nested, t, {}) : t \in {NoFile, OtherTask, TwoRows, Stray, UnknownDep}}
MCSources == Good \cup Bad
=============================================================================
