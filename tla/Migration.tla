----------------------------- MODULE Migration -----------------------------
(***************************************************************************)
(* The one-way move of a repository's workflow state from markdown ledgers *)
(* and task frontmatter to the JSON store (internal/store/migrate.go), and *)
(* before it that of the tooling directory to its new name (statedir.go),  *)
(* as serve and migrate run them (cmd/lessmess/main.go), more than one at  *)
(* a time if so started, with writes that fail and processes that die.     *)
(*                                                                         *)
(* Text is modelled by what its parsers return: a ledger is a sequence of  *)
(* rows, a task file <<ID, slug>>. A change's documents and what makes     *)
(* them valid are TaskTree's. Nobody edits the markdown meanwhile.         *)
(***************************************************************************)
EXTENDS TaskTree

CONSTANTS
  Runs,        \* the processes: serve, migrate
  Sources,      \* the markdown trees to begin with
  NoDoc,        \* no state file
  MaxStarts, MaxFaults   \* bounds of the model

(* A source: the root ledger's changes, those whose directory is found in  *)
(* a worktree, and each change's tree: its rows by container, its task     *)
(* files, and the tasks (or strays) with a directory.                      *)
TaskRows == [id : TaskIds, file : TaskIds \X Slugs, status : TaskStatuses,
             noted : BOOLEAN, deps : SUBSET TaskIds]
IsTree(tree) ==
  /\ tree.files \subseteq TaskIds \X Slugs /\ IsFiniteSet(tree.files)
  /\ tree.dirs \subseteq TaskIds /\ IsFiniteSet(tree.dirs)
  /\ DOMAIN tree.rows \subseteq {Root} \cup tree.dirs
  /\ \A k \in DOMAIN tree.rows : tree.rows[k] \in Seq(TaskRows)

ASSUME MigrationAssumption ==
  /\ MaxStarts \in Nat /\ MaxFaults \in Nat /\ NoDoc \notin Docs
  /\ \A s \in Sources : s.order \in Seq(DOMAIN s.tree) /\ \A c \in DOMAIN s.tree : IsTree(s.tree[c])

VARIABLES
  source,       \* what the markdown says; a rigid variable
  root,         \* changes/ledger.md is there
  ledgers,      \* the ledgers that are there: <<change, container>>, Root for the change's own
  front,        \* the task files with frontmatter: <<change, file>>
  states, index,   \* .lessmess/workflow: the state files; the index is there
  hidden,       \* .gitignore hides all of .lessmess
  legacy, current, \* .tasktracker is there; .lessmess is
  stuck,        \* history: the directory's renaming has failed
  doing, plan,     \* each process: its step; what it has collected and has still to do
  starts, faults   \* bounds

markdown == <<root, ledgers, front>>
json == <<states, index, hidden>>
dirs == <<legacy, current, stuck>>
procs == <<doing, plan, starts, faults>>
migrationVars == <<source, markdown, json, dirs, procs>>

Changes == ToSet(source.order)
Tree(c) == source.tree[c]
SourceFront == UNION {{<<c, f>> : f \in Tree(c).files} : c \in Changes}
SourceLedgers == UNION {{<<c, k>> : k \in DOMAIN Tree(c).rows} : c \in Changes}
Intact == root /\ ledgers = SourceLedgers /\ front = SourceFront

NoPlan == [docs |-> <<>>, todo |-> {}]

MigrationInit ==
  /\ source \in Sources
  /\ root = TRUE /\ ledgers = SourceLedgers /\ front = SourceFront
  /\ states = [c \in Changes |-> NoDoc] /\ index = FALSE /\ hidden = TRUE
  /\ legacy \in BOOLEAN /\ current \in BOOLEAN /\ ~(legacy /\ current)
  /\ source.away # {} => legacy \/ current
  /\ stuck = FALSE
  /\ doing = [m \in Runs |-> "off"] /\ plan = [m \in Runs |-> NoPlan]
  /\ starts = 0 /\ faults = 0

-----------------------------------------------------------------------------
(* collectChange: the document of a change's markdown                      *)

FilesIn(tree, k) == {f \in tree.files : Parent(f[1]) = k}
Rows(tree, k) == IF k \in DOMAIN tree.rows THEN tree.rows[k] ELSE <<>>
RowFiles(tree, k) == {Rows(tree, k)[i].file : i \in DOMAIN Rows(tree, k)}
RowTask(r) == [id |-> r.file[1], slug |-> r.file[2], status |-> r.status, noted |-> r.noted, deps |-> r.deps]
FileTask(f) == [id |-> f[1], slug |-> f[2], status |-> "Not started", noted |-> FALSE, deps |-> {}]
Recorded(tree, f) ==
  LET rows == Rows(tree, Parent(f[1]))
      mine == {i \in DOMAIN rows : rows[i].file = f}
  IN IF mine = {} THEN FileTask(f) ELSE RowTask(rows[CHOOSE i \in mine : TRUE])

(* The order of the walk: a task, then what is in its directory; beside    *)
(* each other in row order, and the files without a row after them by name.*)
Turn(tree, id) ==
  LET rows == Rows(tree, Parent(id))
      mine == {i \in DOMAIN rows : rows[i].file[1] = id}
  IN IF mine = {} THEN Len(rows) + 1 ELSE CHOOSE i \in mine : TRUE
Ahead(tree, a, b) ==
  \/ Turn(tree, a) < Turn(tree, b)
  \/ Turn(tree, a) = Turn(tree, b) /\ Last(a) < Last(b)
Upto(id, n) == SubSeq(id, 1, n)
Before(tree, a, b) ==
  \/ Len(a) < Len(b) /\ a = Upto(b, Len(a))
  \/ \E n \in 1 .. Len(a) : /\ n <= Len(b) /\ Upto(a, n - 1) = Upto(b, n - 1)
                           /\ Ahead(tree, Upto(a, n), Upto(b, n))
Place(tree, id) == Cardinality({f \in tree.files : f[1] = id \/ Before(tree, f[1], id)})
Walk(tree) == [n \in 1 .. Cardinality(tree.files) |->
  Recorded(tree, CHOOSE f \in tree.files : Place(tree, f[1]) = n)]
Collected(tree) == [status |-> StatusOf(tree.overall), log |-> tree.log, tasks |-> Walk(tree)]

(* What it refuses: a row without its file, or of another task's; two rows *)
(* of a file; a directory beside no task file, or without a ledger. Two    *)
(* files of one ID are refused too, if only by the validation.             *)
RowsMatch(tree, k) == LET rows == Rows(tree, k) IN
  /\ \A i \in DOMAIN rows : rows[i].file \in FilesIn(tree, k) /\ rows[i].id = rows[i].file[1]
  /\ \A i, j \in DOMAIN rows : rows[i].file = rows[j].file => i = j
WellFormed(tree) ==
  /\ \A f, g \in tree.files : f[1] = g[1] => f = g
  /\ \A k \in tree.dirs : \E f \in tree.files : f[1] = k
  /\ \A k \in {Root} \cup tree.dirs : k \in DOMAIN tree.rows /\ RowsMatch(tree, k)
(* Every level of the document begins with its ledger's rows.              *)
Reproduces(doc, tree) == \A k \in {Root} \cup tree.dirs :
  LET level == Level(doc.tasks, k)
      rows == Rows(tree, k)
  IN Len(rows) <= Len(level) /\ \A i \in DOMAIN rows : level[i] = RowTask(rows[i])
(* As the disk is now: ledgers and frontmatter may be gone.                *)
Readable(c) ==
  /\ \A k \in {Root} \cup Tree(c).dirs : <<c, k>> \in ledgers
  /\ \A f \in Tree(c).files : <<c, f>> \in front
(* The worktree resolver looks up .lessmess/worktrees.json.                *)
Found(c) == c \in source.away => ~legacy
Collectable(c) == Found(c) /\ Readable(c) /\ WellFormed(Tree(c))

-----------------------------------------------------------------------------
(* The writes, in their order: state files, index, prose without its       *)
(* frontmatter, the ledgers with the root's first, .gitignore; in each, by *)
(* change and as the walk met them.                                        *)
Step(op, c, at) == [op |-> op, change |-> c, at |-> at]
Single(op) == Step(op, "all", Root)
(* A mutant: only the changes' own ledgers are removed.                    *)
StepsOwnLedgers ==
  {Single(op) : op \in {"mkdir", "index", "root", "ignore"}}
  \cup {Step("state", c, Root) : c \in Changes} \cup {Step("ledger", c, Root) : c \in Changes}
  \cup (UNION {{Step("prose", c, f[1]) : f \in Tree(c).files} : c \in Changes})
Steps ==
  {Single(op) : op \in {"mkdir", "index", "root", "ignore"}}
  \cup {Step("state", c, Root) : c \in Changes}
  \cup (UNION {{Step("prose", c, f[1]) : f \in Tree(c).files} : c \in Changes})
  \cup (UNION {{Step("ledger", c, k) : k \in {Root} \cup Tree(c).dirs} : c \in Changes})
(* A mutant: the prose before the index.                                   *)
StageProseFirst == [mkdir |-> 1, state |-> 2, prose |-> 3, index |-> 4, root |-> 5, ledger |-> 6, ignore |-> 7]
Stage == [mkdir |-> 1, state |-> 2, index |-> 3, prose |-> 4, root |-> 5, ledger |-> 6, ignore |-> 7]
ChangeAt(c) == IF c \in Changes THEN CHOOSE i \in DOMAIN source.order : source.order[i] = c ELSE 0
Met(step) == IF step.op \in {"prose", "ledger"} /\ step.at # Root THEN Place(Tree(step.change), step.at) ELSE 0
Sooner(s, t) ==
  \/ Stage[s.op] < Stage[t.op]
  \/ /\ Stage[s.op] = Stage[t.op]
     /\ \/ ChangeAt(s.change) < ChangeAt(t.change)
        \/ ChangeAt(s.change) = ChangeAt(t.change) /\ Met(s) < Met(t)
NextStep(todo) == CHOOSE s \in todo : \A t \in todo \ {s} : Sooner(s, t)

Proceed(m, label) == doing' = [doing EXCEPT ![m] = label]
Bounded == UNCHANGED <<starts, faults>>
Only(m, label) == Proceed(m, label) /\ UNCHANGED <<source, markdown, json, dirs>> /\ Bounded

(* A process starts: serve migrates if needed, migrate insists.            *)
Start(m) ==
  /\ doing[m] = "off" /\ starts < MaxStarts /\ starts' = starts + 1
  /\ Proceed(m, "dir")
  /\ UNCHANGED <<source, markdown, json, dirs, plan, faults>>

(* A mutant: the boot migrates first and renames the directory afterwards. *)
LookDirLater(m) ==
  /\ doing[m] = "dir" /\ Only(m, "look") /\ UNCHANGED plan
(* MigrateStateDir: what its two looks find, then the rename; whatever it  *)
(* returns, the process goes on.                                           *)
LookDir(m) ==
  /\ doing[m] = "dir"
  /\ Only(m, IF ~current /\ legacy THEN "rename" ELSE "look")
  /\ UNCHANGED plan
Rename(m) ==
  /\ doing[m] = "rename" /\ Proceed(m, "look")
  /\ IF legacy /\ ~current THEN legacy' = FALSE /\ current' = TRUE ELSE UNCHANGED <<legacy, current>>
  /\ UNCHANGED <<source, markdown, json, stuck, plan>> /\ Bounded
RenameFails(m) ==
  /\ doing[m] = "rename" /\ faults < MaxFaults /\ faults' = faults + 1
  /\ stuck' = TRUE /\ Proceed(m, "look")
  /\ UNCHANGED <<source, markdown, json, legacy, current, plan, starts>>
(* MigrateIfNeeded: an index, or no root ledger, and there is nothing to   *)
(* do but open the store; from the command line the run refuses instead.   *)
Look(m) ==
  /\ doing[m] = "look"
  /\ \/ (index \/ ~root) /\ Only(m, "open") /\ UNCHANGED plan
     \/ /\ ~index /\ root /\ Only(m, "collect")
        /\ plan' = [plan EXCEPT ![m] = NoPlan]
(* store.Open wants the index; migrate and validate end without it.        *)
Open(m) ==
  /\ doing[m] = "open" /\ UNCHANGED plan
  /\ \/ index /\ Only(m, "serving")
     \/ Only(m, "off")

(* One change after the other, from the disk as it is then.                *)
Collect(m) ==
  LET docs == plan[m].docs
      c == source.order[Len(docs) + 1]
  IN /\ doing[m] = "collect" /\ Len(docs) < Len(source.order)
     /\ IF Collectable(c) /\ Reproduces(Collected(Tree(c)), Tree(c))
        THEN /\ plan' = [plan EXCEPT ![m].docs = Append(docs, Collected(Tree(c)))]
             /\ Only(m, "collect")
        ELSE plan' = [plan EXCEPT ![m] = NoPlan] /\ Only(m, "off")

(* verifyMigration, which refuses a change listed twice; a dry run ends    *)
(* here.                                                                   *)
Verify(m) ==
  /\ doing[m] = "collect" /\ Len(plan[m].docs) = Len(source.order)
  /\ \/ /\ IsInjective(source.order) /\ \A i \in DOMAIN plan[m].docs : Valid(plan[m].docs[i])
        /\ plan' = [plan EXCEPT ![m].todo = Steps] /\ Only(m, "write")
     \/ plan' = [plan EXCEPT ![m] = NoPlan] /\ Only(m, "off")
DocOf(m, c) == plan[m].docs[CHOOSE i \in DOMAIN source.order : source.order[i] = c]
Gone(step) == (step.op = "root" /\ ~root) \/ (step.op = "ledger" /\ <<step.change, step.at>> \notin ledgers)
Effect(m, step) ==
  /\ states' = IF step.op = "state" THEN [states EXCEPT ![step.change] = DocOf(m, step.change)] ELSE states
  /\ index' = (index \/ step.op = "index")
  /\ front' = IF step.op = "prose" THEN {e \in front : ~(e[1] = step.change /\ e[2][1] = step.at)} ELSE front
  /\ root' = (root /\ step.op # "root")
  /\ ledgers' = IF step.op = "ledger" THEN ledgers \ {<<step.change, step.at>>} ELSE ledgers
  /\ hidden' = (hidden /\ step.op # "ignore")
  /\ current' = (current \/ step.op = "mkdir")
Write(m) == LET step == NextStep(plan[m].todo) IN
  /\ doing[m] = "write" /\ plan[m].todo # {} /\ ~Gone(step)
  /\ Effect(m, step)
  /\ plan' = [plan EXCEPT ![m].todo = @ \ {step}]
  /\ UNCHANGED <<source, doing, legacy, stuck, starts, faults>>
(* Somebody else has removed the ledger: the run ends there.               *)
WriteRefused(m) ==
  /\ doing[m] = "write" /\ plan[m].todo # {} /\ Gone(NextStep(plan[m].todo))
  /\ plan' = [plan EXCEPT ![m] = NoPlan] /\ Only(m, "off")
Finish(m) ==
  /\ doing[m] = "write" /\ plan[m].todo = {}
  /\ plan' = [plan EXCEPT ![m] = NoPlan] /\ Only(m, "open")

(* A read or write fails and the run with it, or the process dies.         *)
Stop(m) ==
  /\ doing[m] \in {"collect", "write"} /\ faults < MaxFaults /\ faults' = faults + 1
  /\ Proceed(m, "off") /\ plan' = [plan EXCEPT ![m] = NoPlan]
  /\ UNCHANGED <<source, markdown, json, dirs, starts>>
Exit(m) ==
  /\ doing[m] = "serving" /\ UNCHANGED plan /\ Only(m, "off")

MigrationNext == \E m \in Runs :
  \/ Start(m) \/ LookDir(m) \/ Rename(m) \/ RenameFails(m) \/ Look(m) \/ Open(m)
  \/ Collect(m) \/ Verify(m) \/ Write(m) \/ WriteRefused(m) \/ Finish(m) \/ Stop(m) \/ Exit(m)
MigrationSpec == MigrationInit /\ [][MigrationNext]_migrationVars
-----------------------------------------------------------------------------
MigrationTypeOK ==
  /\ source \in Sources
  /\ root \in BOOLEAN /\ ledgers \subseteq SourceLedgers /\ front \subseteq SourceFront
  /\ DOMAIN states = Changes /\ \A c \in Changes : states[c] # NoDoc => Valid(states[c])
  /\ index \in BOOLEAN /\ hidden \in BOOLEAN
  /\ legacy \in BOOLEAN /\ current \in BOOLEAN /\ stuck \in BOOLEAN
  /\ doing \in [Runs -> {"off", "dir", "rename", "look", "collect", "write", "open", "serving"}]
  /\ starts \in 0 .. MaxStarts /\ faults \in 0 .. MaxFaults

(* A state file says what the markdown said: every row of every ledger, in *)
(* its ledger's order before any other task of its container, every task   *)
(* file once, and of a file without a row that its task is not started.    *)
Says(doc, tree) ==
  /\ doc.status.value = tree.overall /\ doc.log = tree.log
  /\ {File(doc.tasks[i]) : i \in DOMAIN doc.tasks} = tree.files
  /\ Len(doc.tasks) = Cardinality(tree.files)
  /\ \A k \in DOMAIN tree.rows : \A i \in DOMAIN tree.rows[k] :
       Level(doc.tasks, k)[i] = RowTask(tree.rows[k][i])
  /\ \A i \in DOMAIN doc.tasks :
       \/ \E k \in DOMAIN tree.rows : File(doc.tasks[i]) \in RowFiles(tree, k)
       \/ doc.tasks[i].status = "Not started"

(* migrate.go, "verifies the collected state against the parsed source     *)
(* before writing or deleting anything": whatever fails, dies or runs at   *)
(* the same time, either the JSON store has its index and holds all that   *)
(* the markdown held, in documents the store accepts; or the markdown is   *)
(* as it was, and the next run migrates it or refuses it as this one did.  *)
Whole == \A c \in Changes : states[c] # NoDoc /\ Valid(states[c]) /\ Says(states[c], Tree(c))
NothingLost == IF index THEN Whole ELSE Intact

(* Boots go on when the tooling directory cannot be renamed. Only then may *)
(* the migration, which makes the new directory, leave sessions, queue and *)
(* worktrees behind in the old one for good.                               *)
LegacyAdopted == legacy /\ current => stuck

(* Once every process that ran has ended, and none failed, nothing of the  *)
(* markdown state remains beside the JSON store.                           *)
Idle(m) == doing[m] \in {"off", "serving"}
NothingLeftOver ==
  index /\ faults = 0 /\ (\A m \in Runs : Idle(m)) => ~root /\ ledgers = {} /\ front = {} /\ ~hidden
=============================================================================
