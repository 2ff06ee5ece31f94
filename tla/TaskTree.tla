------------------------------ MODULE TaskTree ------------------------------
(***************************************************************************)
(* The document lessmess keeps for one change (internal/model/state.go)    *)
(* and the pure part of every store operation on it                        *)
(* (internal/store/store.go, mutations.go, overall.go): what a call        *)
(* requires of the document it has just read, and the document it then     *)
(* writes.                                                                 *)
(*                                                                         *)
(* A task ID such as "JSI-00.02" is the sequence <<0, 2>> of its segments, *)
(* so the agreement between ID, sequence number, parent and file prefix    *)
(* that ChangeState.Validate checks textually holds by the representation. *)
(* A document's tasks are the flat array of the code: a sequence whose     *)
(* order is the priority order within each level.                          *)
(***************************************************************************)
EXTENDS Integers, Sequences, FiniteSets, SequencesExt

CONSTANTS
  Slugs,        \* the titles' slugs: the part of a prose file name after its number
  MaxChildSeq   \* 99 in the code: the last number a two-digit child segment can hold

ASSUME TaskTreeAssumption == MaxChildSeq \in Nat

TaskStatuses == {"Not started", "In progress", "Blocked", "Test", "Done", "Cancelled"}
DerivableStatuses == {"Planned", "In progress", "Blocked"}
OverallStatuses == DerivableStatuses \cup {"Done", "Cancelled"}

Root == <<>>
TaskIds == Seq(Nat) \ {Root}
Levels == {Root} \cup TaskIds   \* a level is named by its parent

(* "noted" says that the notes are not empty; "slug" is the one of the     *)
(* title the task was created with, which its prose file keeps.            *)
Tasks == [id : TaskIds, slug : Slugs, status : TaskStatuses,
          noted : BOOLEAN, deps : SUBSET TaskIds]

(* "log" counts the decision-log entries.                                  *)
Docs == [status : [value : OverallStatuses, derived : BOOLEAN],
         log : Nat, tasks : Seq(Tasks)]

Parent(id) == SubSeq(id, 1, Len(id) - 1)
Ids(doc) == {doc.tasks[i].id : i \in DOMAIN doc.tasks}
Index(doc, id) == CHOOSE i \in DOMAIN doc.tasks : doc.tasks[i].id = id
Task(doc, id) == doc.tasks[Index(doc, id)]
File(t) == <<t.id, t.slug>>

-----------------------------------------------------------------------------
(* Validation                                                              *)

(* depCycles finds a cycle exactly when some set of tasks is closed under  *)
(* "depends on a member of the set".                                       *)
Acyclic(tasks) ==
  ~ \E S \in SUBSET (DOMAIN tasks) \ {{}} :
      \A i \in S : \E j \in S : tasks[j].id \in tasks[i].deps

UniqueIds(tasks) ==
  \A i, j \in DOMAIN tasks : tasks[i].id = tasks[j].id => i = j

ParentsListed(tasks) ==
  \A i \in DOMAIN tasks :
    \/ Len(tasks[i].id) = 1
    \/ \E j \in DOMAIN tasks : tasks[j].id = Parent(tasks[i].id)

ChildSegmentsTwoDigit(tasks) ==
  \A i \in DOMAIN tasks :
    \A k \in DOMAIN tasks[i].id : k > 1 => tasks[i].id[k] <= MaxChildSeq

DepsKnown(tasks) ==
  \A i \in DOMAIN tasks : \A d \in tasks[i].deps :
    d # tasks[i].id /\ \E j \in DOMAIN tasks : tasks[j].id = d

(* The vocabularies come first. *)
Valid(doc) ==
  /\ doc \in Docs
  /\ UniqueIds(doc.tasks)
  /\ ParentsListed(doc.tasks)
  /\ ChildSegmentsTwoDigit(doc.tasks)
  /\ DepsKnown(doc.tasks)
  /\ Acyclic(doc.tasks)

-----------------------------------------------------------------------------
(* The overall status                                                      *)

(* buildTree hangs a task under its parent, so WalkTasks meets a task when *)
(* each of its ancestors is listed.                                        *)
Walked(doc) ==
  {i \in DOMAIN doc.tasks :
     \A k \in 1 .. Len(doc.tasks[i].id) - 1 : SubSeq(doc.tasks[i].id, 1, k) \in Ids(doc)}

WalkedWith(doc, statuses) == {i \in Walked(doc) : doc.tasks[i].status \in statuses}

DeriveOverall(doc) ==
  LET started == WalkedWith(doc, {"In progress", "Test", "Done"})
      open    == WalkedWith(doc, {"Not started", "Blocked"})
      blocked == WalkedWith(doc, {"Blocked"})
  IN  IF started = {} THEN "Planned"
      ELSE IF open # {} /\ open = blocked THEN "Blocked" ELSE "In progress"

Offenders(doc) == WalkedWith(doc, {"Not started", "In progress", "Blocked"})
CloseOutReady(doc) == Offenders(doc) = {}

(* syncOverall has nothing to do for a user-set or already derived status. *)
Settled(doc) == doc.status.derived => doc.status.value = DeriveOverall(doc)

-----------------------------------------------------------------------------
(* Levels: the tasks with one parent, at their positions in the array      *)

AtLevel(parent, t) == Parent(t.id) = parent
Positions(tasks, parent) == {i \in DOMAIN tasks : AtLevel(parent, tasks[i])}

(* How many members of a set of numbers come up to i, and which comes k-th. *)
Rank(S, i) == Cardinality({j \in S : j <= i})
Nth(S, k) == CHOOSE i \in S : Rank(S, i) = k

Level(tasks, parent) ==
  LET positions == Positions(tasks, parent)
  IN  [k \in 1 .. Cardinality(positions) |-> tasks[Nth(positions, k)]]

(* The array with the level's positions refilled, in order, from level.    *)
WithLevel(tasks, parent, level) ==
  LET positions == Positions(tasks, parent)
  IN  [i \in DOMAIN tasks |-> IF i \in positions THEN level[Rank(positions, i)] ELSE tasks[i]]

(* Where MoveTask inserts in the rest of the level: before the index-th    *)
(* (0-based) member of the target status group, else after its last        *)
(* member, else at the end.                                                *)
InsertionPos(rest, to, index) ==
  LET group == {i \in DOMAIN rest : rest[i].status = to}
  IN  IF index \in 0 .. Cardinality(group) - 1 THEN Nth(group, index + 1)
      ELSE IF group # {} THEN Max(group) + 1 ELSE Len(rest) + 1

Moved(tasks, id, to, index) ==
  LET parent == Parent(id)
      level  == Level(tasks, parent)
      pos    == CHOOSE i \in DOMAIN level : level[i].id = id
      rest   == RemoveAt(level, pos)
      moving == [level[pos] EXCEPT !.status = to]
  IN  WithLevel(tasks, parent, InsertAt(rest, InsertionPos(rest, to, index), moving))

Reordered(tasks, parent, ordered) ==
  LET level == Level(tasks, parent)
  IN  WithLevel(tasks, parent,
        [k \in DOMAIN ordered |-> CHOOSE t \in ToSet(level) : t.id = ordered[k]])

NextSeq(tasks, parent) ==
  Max({-1} \cup {Last(tasks[i].id) : i \in {j \in DOMAIN tasks : AtLevel(parent, tasks[j])}}) + 1

NewTask(doc, parent, slug) ==
  [id |-> Append(parent, NextSeq(doc.tasks, parent)), slug |-> slug,
   status |-> "Not started", noted |-> FALSE, deps |-> {}]

-----------------------------------------------------------------------------
(* The calls. An update patches the fields it carries: notes may be kept,  *)
(* set or cleared, deps is {} (kept) or holds the one set that replaces    *)
(* the dependencies. "ui" says that the call comes from the board.         *)
AllCalls ==
       [op : {"create"}, parent : Levels, slug : Slugs]
  \cup [op : {"status"}, task : TaskIds, to : TaskStatuses, evidence : BOOLEAN, ui : BOOLEAN]
  \cup [op : {"move"}, task : TaskIds, to : TaskStatuses, index : Int, ui : BOOLEAN]
  \cup [op : {"update"}, task : TaskIds, notes : {"keep", "set", "clear"},
        deps : SUBSET SUBSET TaskIds]
  \cup [op : {"reorder"}, parent : Levels, ordered : Seq(TaskIds)]
  \cup [op : {"decompose"}, task : TaskIds]
  \cup [op : {"decide", "close", "reopen"}]

(* What the operation requires of the document it has read afresh. Test    *)
(* demands evidence from SetTaskStatus; MoveTask does not ask for it.      *)
Accepts(call, doc) ==
  CASE call.op = "status"  -> /\ call.task \in Ids(doc)
                              /\ call.to = "Test" => call.evidence \/ Task(doc, call.task).noted
    [] call.op \in {"move", "update"} -> call.task \in Ids(doc)
    [] call.op = "reorder" -> LET level == Level(doc.tasks, call.parent)
                              IN  /\ Len(call.ordered) = Len(level)
                                  /\ IsInjective(call.ordered)
                                  /\ ToSet(call.ordered) \subseteq {level[i].id : i \in DOMAIN level}
    [] OTHER -> TRUE

WithTasks(doc, tasks) == [doc EXCEPT !.tasks = tasks]

(* Replace one task's record. *)
Patched(doc, id, t) == WithTasks(doc, ReplaceAt(doc.tasks, Index(doc, id), t))

WithStatus(t, to, evidence) == [t EXCEPT !.status = to, !.noted = @ \/ evidence]

Updated(t, notes, deps) ==
  [t EXCEPT !.noted = (notes = "set") \/ (notes = "keep" /\ @),
            !.deps = IF deps = {} THEN @ ELSE UNION deps]

(* SetChangeStatus stores a status as derived exactly when it is derivable. *)
StatusOf(value) == [value |-> value, derived |-> value \in DerivableStatuses]

(* The document the operation writes. *)
Result(call, doc) ==
  CASE call.op = "create"  -> WithTasks(doc, Append(doc.tasks, NewTask(doc, call.parent, call.slug)))
    [] call.op = "status"  -> Patched(doc, call.task,
                                WithStatus(Task(doc, call.task), call.to, call.evidence))
    [] call.op = "move"    -> WithTasks(doc, Moved(doc.tasks, call.task, call.to, call.index))
    [] call.op = "update"  -> Patched(doc, call.task,
                                Updated(Task(doc, call.task), call.notes, call.deps))
    [] call.op = "reorder" -> WithTasks(doc, Reordered(doc.tasks, call.parent, call.ordered))
    [] call.op = "decide"  -> [doc EXCEPT !.log = @ + 1]
    [] call.op = "close"   -> [doc EXCEPT !.status = StatusOf("Done")]
    [] call.op = "reopen"  -> [doc EXCEPT !.status = StatusOf("In progress")]

(* What syncOverall writes onto the document it has read afresh, from the  *)
(* task tree of the cached one.                                            *)
Converged(doc, cached) == [doc EXCEPT !.status.value = DeriveOverall(cached)]
=============================================================================
