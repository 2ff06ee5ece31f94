-------------------------- MODULE MCWorkflowStore --------------------------
(***************************************************************************)
(* Small instances of WorkflowStore: a change with two top-level tasks,    *)
(* the calls that make interleavings interesting, and three foreign        *)
(* versions of its state file.                                             *)
(***************************************************************************)
EXTENDS WorkflowStore

CONSTANTS s0, s1, s2

MCSlugs == {s0, s1, s2}

task(id, slug, status) ==
  [id |-> id, slug |-> slug, status |-> status, noted |-> FALSE, deps |-> {}]

document(value, first, second) ==
  [status |-> StatusOf(value), log |-> 0,
   tasks |-> <<task(<<0>>, s0, first), task(<<1>>, s1, second)>>]

Fresh   == document("Planned", "Not started", "Not started")
Ready   == document("In progress", "Done", "Test")
Drifted == document("Planned", "Done", "Blocked")

depend(id, other) == [op |-> "update", task |-> id, notes |-> "keep", deps |-> {{other}}]
create(parent, slug) == [op |-> "create", parent |-> parent, slug |-> slug]
move(id, to, index, ui) == [op |-> "move", task |-> id, to |-> to, index |-> index, ui |-> ui]
setStatus(id, to, evidence) ==
  [op |-> "status", task |-> id, to |-> to, evidence |-> evidence, ui |-> FALSE]

(* Whether a change may close, while a task is added to it. *)
CollidingCalls == {create(Root, s2), [op |-> "close"]}

EveryCall ==
  { create(Root, s2), create(<<0>>, s2), setStatus(<<1>>, "Test", TRUE), depend(<<0>>, <<1>>),
    move(<<0>>, "Test", 1, FALSE), [op |-> "close"], [op |-> "reopen"], [op |-> "decide"],
    [op |-> "decompose", task |-> <<0>>],
    [op |-> "reorder", parent |-> Root, ordered |-> <<<<1>>, <<0>>>>] }

FreshOnly == {Fresh}
ReadyOnly == {Ready}
OneForeignDoc == {Drifted}
BrokenOrDrifted == {Unreadable, Drifted}

ClientSymmetry == Permutations(Clients)
=============================================================================
