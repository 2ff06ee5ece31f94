----------------------- MODULE WorktreePipelineProofs -----------------------
(***************************************************************************)
(* Theorems about WorktreePipeline, for any changes, workers and bounds.   *)
(***************************************************************************)
EXTENDS WorktreePipeline, TLAPS

-----------------------------------------------------------------------------
(* Type correctness                                                        *)

(* What a worker holds fits the step it takes next. *)
WorkerOK(p) ==
  /\ (pc[p] = "idle") = (job[p] = None)
  /\ pc[p] \in Updates => loaded[p] \in {None} \cup [Changes -> Entries]
  /\ pc[p] = "list" => loaded[p] \in SUBSET Changes
  /\ pc[p] \notin Updates \cup {"list"} => loaded[p] = None

WorkersOK ==
  /\ pc \in [Workers -> Labels]
  /\ job \in [Workers -> Changes \cup {None}]
  /\ entry \in [Workers -> Entries]
  /\ loaded \in [Workers -> {None} \cup [Changes -> Entries] \cup SUBSET Changes]
  /\ \A p \in Workers : WorkerOK(p)

DataOK ==
  /\ file \in [Changes -> Entries]
  /\ index \subseteq Changes /\ done \subseteq Changes
  /\ branches \subseteq Changes /\ trees \subseteq Changes /\ prs \subseteq Changes
  /\ uncommitted \in [Changes -> SUBSET Parts] /\ committed \in [Changes -> SUBSET Parts]
  /\ clobbered \in BOOLEAN /\ interrupted \in BOOLEAN

TypeInv == WorkersOK /\ DataOK

Begin(p) == \E c \in Changes : BeginCreate(p, c) \/ BeginClose(p, c) \/ BeginRemove(p, c)

(* What the steps of one worker leave to the others. *)
Others(p) ==
  \A q \in Workers \ {p} :
    pc'[q] = pc[q] /\ job'[q] = job[q] /\ entry'[q] = entry[q] /\ loaded'[q] = loaded[q]

LEMMA InitTypeInv == Init => TypeInv
<1>1. SUFFICES ASSUME Init PROVE TypeInv
  OBVIOUS
<1>2. NoEntry \in Entries
  BY DEF NoEntry, Entries, Reviews
<1>3. WorkersOK
  <2>1. pc \in [Workers -> Labels] /\ job \in [Workers -> Changes \cup {None}]
    BY <1>1 DEF Init, Labels
  <2>2. entry \in [Workers -> Entries]
    BY <1>1, <1>2 DEF Init
  <2>3. loaded \in [Workers -> {None} \cup [Changes -> Entries] \cup SUBSET Changes]
    BY <1>1 DEF Init
  <2>4. \A p \in Workers : WorkerOK(p)
    BY <1>1 DEF Init, WorkerOK, Updates
  <2> QED
    BY <2>1, <2>2, <2>3, <2>4 DEF WorkersOK
<1>4. file \in [Changes -> Entries]
  <2>1. [NoEntry EXCEPT !.live = TRUE] \in Entries
    BY DEF NoEntry, Entries, Reviews
  <2> QED
    BY <1>1, <1>2, <2>1 DEF Init
<1>5. DataOK
  BY <1>1, <1>4, PipelineAssumption DEF Init, DataOK, Parts
<1> QED
  BY <1>3, <1>5 DEF TypeInv

(* A worker with no more data to hold goes on or ends. *)
LEMMA GotoType ==
  ASSUME WorkersOK, NEW p \in Workers, pc[p] # "idle",
         NEW label \in Labels \ {"list"}, Goto(p, label),
         label # "idle" => loaded[p] = None
  PROVE  /\ WorkersOK' /\ Others(p)
         /\ pc'[p] = label
         /\ label # "idle" => job'[p] = job[p] /\ entry'[p] = entry[p] /\ loaded'[p] = loaded[p]
         /\ label = "idle" => job'[p] = None /\ entry'[p] = NoEntry /\ loaded'[p] = None
<1>1. NoEntry \in Entries
  BY DEF NoEntry, Entries, Reviews
<1>2. pc' = [pc EXCEPT ![p] = label]
  BY DEF Goto
<1>3. CASE label = "idle"
  <2>1. /\ job' = [job EXCEPT ![p] = None]
        /\ entry' = [entry EXCEPT ![p] = NoEntry]
        /\ loaded' = [loaded EXCEPT ![p] = None]
    BY <1>3 DEF Goto
  <2>2. Others(p)
    BY <1>2, <2>1 DEF Others, WorkersOK
  <2>3. \A q \in Workers : WorkerOK(q)'
    BY <1>2, <1>3, <2>1 DEF WorkersOK, WorkerOK, Updates
  <2> QED
    BY <1>1, <1>2, <1>3, <2>1, <2>2, <2>3 DEF WorkersOK
<1>4. CASE label # "idle"
  <2>1. UNCHANGED <<job, entry, loaded>>
    BY <1>4 DEF Goto
  <2>2. Others(p)
    BY <1>2, <2>1 DEF Others, WorkersOK
  <2>3. \A q \in Workers : WorkerOK(q)'
    BY <1>2, <1>4, <2>1 DEF WorkersOK, WorkerOK, Updates
  <2> QED
    BY <1>2, <1>4, <2>1, <2>2, <2>3 DEF WorkersOK
<1> QED
  BY <1>3, <1>4

(* What a step of a worker's operation does to that worker. *)
Moved(p) ==
  /\ WorkersOK' /\ Others(p)
  /\ pc'[p] = "idle" => job'[p] = None /\ entry'[p] = NoEntry
  /\ pc'[p] # "idle" => job'[p] = job[p] /\ entry'[p] = entry[p]

(* Every step of a worker's operation that is neither an update nor a      *)
(* write of the index ends in a Goto.                                      *)
Plain(p) ==
  \/ CreateBranch(p) \/ AddTree(p) \/ RollbackTree(p) \/ RollbackBranch(p)
  \/ CheckClean(p) \/ Push(p) \/ OpenPR(p) \/ RunReviewer(p) \/ Finish(p)
  \/ RemoveTree(p)

LEMMA PlainMoves ==
  ASSUME WorkersOK, NEW p \in Workers, Plain(p)
  PROVE  Moved(p)
<1>1. pc[p] # "idle" /\ loaded[p] = None
  BY DEF WorkersOK, WorkerOK, Plain, CreateBranch, AddTree, RollbackTree, RollbackBranch,
         CheckClean, Push, OpenPR, RunReviewer, Finish, RemoveTree, At, Updates
<1>2. PICK label \in Labels \ {"list"} : Goto(p, label)
  BY DEF Plain, CreateBranch, AddTree, RollbackTree, RollbackBranch,
         CheckClean, Push, OpenPR, RunReviewer, Finish, RemoveTree, Labels, Updates
<1> QED
  BY <1>1, <1>2, GotoType DEF Moved

LEMMA UpdatedIsEntry ==
  ASSUME NEW update \in Updates, NEW e \in Entries
  PROVE  Updated(update, e) \in Entries
BY DEF Updates, Updated, Entries, NoEntry, Reviews

LEMMA UpdateMoves ==
  ASSUME WorkersOK, NEW p \in Workers, file \in [Changes -> Entries],
         LoadEntries(p) \/ SaveEntries(p) \/ UpdateFails(p)
  PROVE  /\ Moved(p)
         /\ LoadEntries(p) => pc'[p] \in {pc[p], "idle"} /\ loaded'[p] \in {file, None}
         /\ SaveEntries(p) => pc'[p] = AfterUpdate(pc[p])
         /\ UpdateFails(p) => pc'[p] = OnFailure(pc[p])
<1>1. pc[p] \in Updates /\ pc[p] # "idle"
  BY DEF LoadEntries, SaveEntries, UpdateFails, Updates
<1>2. NoEntry \in Entries
  BY DEF NoEntry, Entries, Reviews
<1>3. ASSUME LoadEntries(p)
      PROVE  Moved(p) /\ pc'[p] \in {pc[p], "idle"} /\ loaded'[p] \in {file, None}
  <2>1. CASE Goto(p, "idle")
    BY <1>1, <2>1, GotoType DEF Labels, Moved
  <2>2. CASE loaded' = [loaded EXCEPT ![p] = file] /\ UNCHANGED <<pc, job, entry>>
    <3>1. \A q \in Workers : WorkerOK(q)'
      BY <1>1, <2>2 DEF WorkersOK, WorkerOK, Updates
    <3>2. loaded' \in [Workers -> {None} \cup [Changes -> Entries] \cup SUBSET Changes]
      BY <2>2 DEF WorkersOK
    <3>3. WorkersOK' /\ Others(p)
      BY <2>2, <3>1, <3>2 DEF WorkersOK, Others
    <3> QED
      BY <1>1, <2>2, <3>3 DEF WorkersOK, WorkerOK, Moved
  <2> QED
    BY <1>3, <2>1, <2>2 DEF LoadEntries
<1>4. ASSUME SaveEntries(p) PROVE Moved(p) /\ pc'[p] = AfterUpdate(pc[p])
  <2>1. CASE AfterUpdate(pc[p]) = "idle" /\ Goto(p, "idle")
    BY <1>1, <2>1, GotoType DEF Labels, Moved
  <2>2. CASE /\ AfterUpdate(pc[p]) # "idle"
             /\ pc' = [pc EXCEPT ![p] = AfterUpdate(pc[p])]
             /\ loaded' = [loaded EXCEPT ![p] = None]
             /\ UNCHANGED <<job, entry>>
    <3>1. AfterUpdate(pc[p]) \in {"docs", "review", "done"}
      BY <1>1, <2>2 DEF AfterUpdate, Updates
    <3>2. \A q \in Workers : WorkerOK(q)'
      BY <1>1, <2>2, <3>1 DEF WorkersOK, WorkerOK, Updates
    <3> QED
      BY <1>1, <2>2, <3>1, <3>2 DEF WorkersOK, Others, Labels, Moved
  <2> QED
    BY <1>4, <2>1, <2>2 DEF SaveEntries
<1>5. ASSUME UpdateFails(p) PROVE Moved(p) /\ pc'[p] = OnFailure(pc[p])
  <2>1. OnFailure(pc[p]) \in {"untree", "idle"}
    BY DEF OnFailure
  <2>2. pc' = [pc EXCEPT ![p] = OnFailure(pc[p])] /\ loaded' = [loaded EXCEPT ![p] = None]
    BY <1>5 DEF UpdateFails
  <2>3. /\ OnFailure(pc[p]) = "idle" => job' = [job EXCEPT ![p] = None] /\ entry' = [entry EXCEPT ![p] = NoEntry]
        /\ OnFailure(pc[p]) # "idle" => UNCHANGED <<job, entry>>
    BY <1>5 DEF UpdateFails
  <2>4. \A q \in Workers : WorkerOK(q)'
    BY <1>1, <2>1, <2>2, <2>3 DEF WorkersOK, WorkerOK, Updates
  <2>5. Others(p)
    BY <2>1, <2>2, <2>3 DEF WorkersOK, Others
  <2>6. WorkersOK'
    BY <1>2, <2>1, <2>2, <2>3, <2>4 DEF WorkersOK, Labels
  <2> QED
    BY <1>1, <1>5, <2>1, <2>2, <2>3, <2>5, <2>6 DEF WorkersOK, Moved
<1> QED
  BY <1>3, <1>4, <1>5

LEMMA IndexMoves ==
  ASSUME WorkersOK, NEW p \in Workers, index \subseteq Changes,
         WriteDocs(p) \/ ListChange(p)
  PROVE  /\ Moved(p)
         /\ WriteDocs(p) => pc'[p] = "idle" \/ (pc'[p] = "list" /\ loaded'[p] = index)
         /\ ListChange(p) => pc'[p] = "idle"
<1>1. pc[p] # "idle"
  BY DEF WriteDocs, ListChange, At
<1>2. ASSUME Goto(p, "idle") PROVE Moved(p) /\ pc'[p] = "idle"
  BY <1>1, <1>2, GotoType DEF Labels, Moved
<1>3. ASSUME pc[p] = "docs", pc' = [pc EXCEPT ![p] = "list"],
             loaded' = [loaded EXCEPT ![p] = index], UNCHANGED <<job, entry>>
      PROVE  Moved(p) /\ pc'[p] = "list" /\ loaded'[p] = index
  <2>1. \A q \in Workers : WorkerOK(q)'
    BY <1>3 DEF WorkersOK, WorkerOK, Updates
  <2>2. loaded' \in [Workers -> {None} \cup [Changes -> Entries] \cup SUBSET Changes]
    BY <1>3 DEF WorkersOK
  <2>3. WorkersOK' /\ Others(p)
    BY <1>3, <2>1, <2>2 DEF WorkersOK, Others, Labels
  <2> QED
    BY <1>3, <2>3 DEF WorkersOK, Moved
<1>4. ASSUME WriteDocs(p)
      PROVE  Moved(p) /\ (pc'[p] = "idle" \/ (pc'[p] = "list" /\ loaded'[p] = index))
  <2>1. CASE Goto(p, "idle")
    BY <1>2, <2>1
  <2>2. CASE pc' = [pc EXCEPT ![p] = "list"] /\ loaded' = [loaded EXCEPT ![p] = index] /\ UNCHANGED <<job, entry>>
    <3>1. pc[p] = "docs"
      BY <1>4 DEF WriteDocs, At
    <3> QED
      BY <1>3, <2>2, <3>1
  <2> QED
    BY <1>4, <2>1, <2>2 DEF WriteDocs
<1>5. ASSUME ListChange(p) PROVE Moved(p) /\ pc'[p] = "idle"
  BY <1>2, <1>5 DEF ListChange
<1> QED
  BY <1>4, <1>5

LEMMA BeginMoves ==
  ASSUME TypeInv, NEW p \in Workers, Begin(p)
  PROVE  /\ WorkersOK' /\ Others(p)
         /\ pc[p] = "idle"
         /\ pc'[p] \in {"branch", "clean", "remove"}
<1>1. PICK c \in Changes : BeginCreate(p, c) \/ BeginClose(p, c) \/ BeginRemove(p, c)
  BY DEF Begin
<1>2. PICK label \in {"branch", "clean", "remove"} :
        /\ pc[p] = "idle" /\ pc' = [pc EXCEPT ![p] = label]
        /\ job' = [job EXCEPT ![p] = c]
        /\ entry' \in {entry, [entry EXCEPT ![p] = file[c]]}
        /\ loaded' = loaded
  BY <1>1 DEF BeginCreate, BeginClose, BeginRemove, At
<1>3. c # None /\ file[c] \in Entries
  BY PipelineAssumption DEF TypeInv, DataOK
<1>4. \A q \in Workers : WorkerOK(q)'
  BY <1>2, <1>3 DEF TypeInv, WorkersOK, WorkerOK, Updates
<1> QED
  BY <1>2, <1>3, <1>4 DEF TypeInv, WorkersOK, Others, Labels

LEMMA StepMoves ==
  ASSUME TypeInv, NEW p \in Workers, Step(p)
  PROVE  Moved(p)
BY PlainMoves, UpdateMoves, IndexMoves DEF Step, Plain, TypeInv, DataOK

LEMMA DataPreserved ==
  ASSUME TypeInv, [Next]_vars
  PROVE  DataOK'
<1> USE DEF TypeInv, DataOK
<1>1. ASSUME NEW p \in Workers, Begin(p) PROVE DataOK'
  BY <1>1 DEF Begin, BeginCreate, BeginClose, BeginRemove, files, git
<1>2. ASSUME NEW p \in Workers, Plain(p) PROVE DataOK'
  <2>1. pc[p] # "idle" /\ job[p] \in Changes
    BY <1>2 DEF WorkersOK, WorkerOK, Plain, CreateBranch, AddTree, RollbackTree, RollbackBranch,
                CheckClean, Push, OpenPR, RunReviewer, Finish, RemoveTree, At
  <2>2. CASE CreateBranch(p)
    BY <2>1, <2>2 DEF CreateBranch, files
  <2>3. CASE AddTree(p)
    BY <2>1, <2>3 DEF AddTree, files, Parts
  <2>4. CASE RollbackTree(p) \/ RollbackBranch(p)
    BY <2>1, <2>4 DEF RollbackTree, RollbackBranch, files
  <2>5. CASE CheckClean(p) \/ Push(p)
    BY <2>5 DEF CheckClean, Push, files, git
  <2>6. CASE OpenPR(p)
    BY <2>1, <2>6 DEF OpenPR, files, git
  <2>7. CASE RunReviewer(p)
    BY <2>1, <2>7 DEF RunReviewer, files, Parts
  <2>8. CASE Finish(p)
    BY <2>1, <2>8 DEF Finish, git
  <2>9. CASE RemoveTree(p)
    BY <2>9 DEF RemoveTree, files
  <2> QED
    BY <1>2, <2>2, <2>3, <2>4, <2>5, <2>6, <2>7, <2>8, <2>9 DEF Plain
<1>3. ASSUME NEW p \in Workers, LoadEntries(p) \/ SaveEntries(p) \/ UpdateFails(p) PROVE DataOK'
  <2>1. CASE LoadEntries(p) \/ UpdateFails(p)
    BY <2>1 DEF LoadEntries, UpdateFails, files, git
  <2>2. CASE SaveEntries(p)
    <3>1. pc[p] \in Updates /\ loaded[p] \in [Changes -> Entries]
      BY <2>2 DEF SaveEntries, WorkersOK, WorkerOK
    <3>2. file' \in [Changes -> Entries]
      BY <2>2, <3>1, UpdatedIsEntry DEF SaveEntries
    <3> QED
      BY <2>2, <3>2 DEF SaveEntries, git
  <2> QED
    BY <1>3, <2>1, <2>2
<1>4. ASSUME NEW p \in Workers, WriteDocs(p) \/ ListChange(p) PROVE DataOK'
  <2>1. pc[p] # "idle" /\ job[p] \in Changes /\ (pc[p] = "list" => loaded[p] \subseteq Changes)
    BY <1>4 DEF WriteDocs, ListChange, WorkersOK, WorkerOK, At
  <2>2. CASE WriteDocs(p)
    BY <2>1, <2>2 DEF WriteDocs, files, Parts
  <2>3. CASE ListChange(p)
    BY <2>1, <2>3 DEF ListChange, git, At
  <2> QED
    BY <1>4, <2>2, <2>3
<1>5. ASSUME NEW c \in Changes, Reopen(c) \/ Commit(c) \/ LoseTree(c) PROVE DataOK'
  BY <1>5 DEF Reopen, Commit, LoseTree, files, git
<1>6. ASSUME NEW c \in Changes, NEW part \in {"code", "review"}, Edit(c, part) PROVE DataOK'
  BY <1>6 DEF Edit, files, Parts
<1>7. CASE Restart
  BY <1>7 DEF Restart, files, git
<1>8. CASE UNCHANGED vars
  BY <1>8 DEF vars, files, git
<1> QED
  BY <1>1, <1>2, <1>3, <1>4, <1>5, <1>6, <1>7, <1>8 DEF Next, Step, Begin, Plain

LEMMA WorkersPreserved ==
  ASSUME TypeInv, [Next]_vars
  PROVE  WorkersOK'
<1>1. ASSUME NEW p \in Workers, Begin(p) \/ Step(p) PROVE WorkersOK'
  BY <1>1, BeginMoves, StepMoves DEF Moved
<1>2. ASSUME UNCHANGED <<pc, job, entry, loaded>> PROVE WorkersOK'
  BY <1>2 DEF TypeInv, WorkersOK, WorkerOK
<1>3. CASE Restart
  <2>1. NoEntry \in Entries
    BY DEF NoEntry, Entries, Reviews
  <2>2. \A p \in Workers : WorkerOK(p)'
    BY <1>3 DEF Restart, WorkerOK, Updates
  <2> QED
    BY <1>3, <2>1, <2>2 DEF Restart, WorkersOK, Labels
<1> QED
  BY <1>1, <1>2, <1>3 DEF Next, Begin, Reopen, Commit, LoseTree, Edit, vars

(* Every variable keeps its type, whatever overlaps, fails or stops: no    *)
(* operation writes back an entry or a review state the file's format does *)
(* not know, and a worker is idle exactly when it has no change.           *)
THEOREM PipelineTypeCorrect == Spec => []TypeOK
<1>1. TypeInv /\ [Next]_vars => TypeInv'
  BY DataPreserved, WorkersPreserved DEF TypeInv
<1>2. TypeInv => TypeOK
  BY DEF TypeInv, WorkersOK, WorkerOK, DataOK, TypeOK
<1> QED
  BY InitTypeInv, <1>1, <1>2, PTL DEF Spec

-----------------------------------------------------------------------------
(* Where worktrees may appear, and who may touch them                      *)

TreesHaveBranches == trees \subseteq branches
WorkHasTree == \A c \in Changes : uncommitted[c] # {} => c \in trees

(* A change being created is nobody else's business until it has a tree.   *)
CreationIsAlone ==
  \A p \in Workers :
    pc[p] \in {"branch", "tree"}
      => job[p] \notin trees /\ \A q \in Workers \ {p} : job[q] # job[p]
TreeAfterBranch == \A p \in Workers : pc[p] = "tree" => job[p] \in branches
ForgetAfterRemoval == \A p \in Workers : pc[p] = "forget" => job[p] \notin trees

Placed ==
  /\ TreesHaveBranches /\ WorkHasTree
  /\ CreationIsAlone /\ TreeAfterBranch /\ ForgetAfterRemoval

LEMMA InitPlaced == Init => Placed
<1>1. ASSUME Init PROVE Placed
  BY <1>1, PipelineAssumption DEF Init, Placed, TreesHaveBranches, WorkHasTree, CreationIsAlone,
     TreeAfterBranch, ForgetAfterRemoval
<1> QED
  BY <1>1

(* The steps that neither add a worktree nor drop a branch.                *)
LEMMA QuietStepPlaced ==
  ASSUME TypeInv, Placed, NEW p \in Workers, Moved(p),
         trees' \subseteq trees, branches \subseteq branches', WorkHasTree',
         pc'[p] \notin {"branch", "tree"},
         pc'[p] = "forget" => pc[p] = "forget" \/ job[p] \notin trees'
  PROVE  Placed'
<1> USE DEF Placed
<1>1. TreesHaveBranches'
  BY DEF TreesHaveBranches
<1>2. CreationIsAlone'
  BY DEF CreationIsAlone, Moved, Others, TypeInv, WorkersOK, WorkerOK
<1>3. TreeAfterBranch'
  BY DEF TreeAfterBranch, Moved, Others
<1>4. ForgetAfterRemoval'
  BY DEF ForgetAfterRemoval, Moved, Others
<1> QED
  BY <1>1, <1>2, <1>3, <1>4

LEMMA PlainPlaced ==
  ASSUME TypeInv, Placed, NEW p \in Workers, Plain(p)
  PROVE  Placed'
<1> USE DEF TypeInv, WorkersOK
<1>1. Moved(p)
  BY PlainMoves
<1>2. pc[p] # "idle" /\ job[p] \in Changes /\ job[p] # None
  BY PipelineAssumption DEF WorkerOK, Plain, CreateBranch, AddTree, RollbackTree, RollbackBranch,
                CheckClean, Push, OpenPR, RunReviewer, Finish, RemoveTree, At
<1>3. CASE CreateBranch(p)
  <2>1. /\ pc[p] = "branch" /\ trees' = trees /\ uncommitted' = uncommitted
        /\ branches \subseteq branches'
        /\ \/ pc'[p] = "tree" /\ job[p] \in branches'
           \/ pc'[p] = "idle"
    BY <1>3 DEF CreateBranch, Goto, At
  <2>2. TreesHaveBranches' /\ WorkHasTree'
    BY <2>1 DEF Placed, TreesHaveBranches, WorkHasTree
  <2>3. CreationIsAlone'
    BY <1>1, <1>2, <2>1 DEF Placed, CreationIsAlone, Moved, Others, WorkerOK
  <2>4. TreeAfterBranch' /\ ForgetAfterRemoval'
    BY <1>1, <2>1 DEF Placed, TreeAfterBranch, ForgetAfterRemoval, Moved, Others
  <2> QED
    BY <2>2, <2>3, <2>4 DEF Placed
<1>4. CASE AddTree(p)
  <2>1. /\ pc[p] = "tree" /\ branches' = branches
        /\ \/ /\ pc'[p] = "record" /\ trees' = trees \cup {job[p]}
              /\ uncommitted' \in {uncommitted, [uncommitted EXCEPT ![job[p]] = {"code"}]}
           \/ pc'[p] = "unbranch" /\ trees' = trees /\ uncommitted' = uncommitted
    BY <1>4 DEF AddTree, Goto, At
  <2>2. TreesHaveBranches' /\ WorkHasTree'
    BY <1>2, <2>1 DEF Placed, TreesHaveBranches, WorkHasTree, TreeAfterBranch, DataOK
  <2>3. \A q \in Workers \ {p} : job[q] # job[p]
    BY <2>1 DEF Placed, CreationIsAlone
  <2>4. CreationIsAlone'
    BY <1>1, <1>2, <2>1, <2>3 DEF Placed, CreationIsAlone, Moved, Others
  <2>5. TreeAfterBranch' /\ ForgetAfterRemoval'
    BY <1>1, <2>1, <2>3 DEF Placed, TreeAfterBranch, ForgetAfterRemoval, Moved, Others
  <2> QED
    BY <2>2, <2>4, <2>5 DEF Placed
<1>5. CASE RollbackBranch(p)
  <2>1. /\ trees' = trees /\ uncommitted' = uncommitted /\ pc'[p] = "idle" /\ pc[p] = "unbranch"
        /\ \/ job[p] \notin trees /\ branches' = branches \ {job[p]}
           \/ branches' = branches
    BY <1>5 DEF RollbackBranch, Goto, At
  <2>2. TreesHaveBranches' /\ WorkHasTree'
    BY <2>1 DEF Placed, TreesHaveBranches, WorkHasTree
  <2>3. CreationIsAlone'
    BY <1>1, <1>2, <2>1 DEF Placed, CreationIsAlone, Moved, Others, WorkerOK
  <2>4. TreeAfterBranch'
    BY <1>1, <2>1 DEF Placed, CreationIsAlone, TreeAfterBranch, Moved, Others
  <2>5. ForgetAfterRemoval'
    BY <1>1, <2>1 DEF Placed, ForgetAfterRemoval, Moved, Others
  <2> QED
    BY <2>2, <2>3, <2>4, <2>5 DEF Placed
<1>6. CASE RollbackTree(p)
  <2>1. /\ pc'[p] = "unbranch" /\ branches' = branches /\ uncommitted' = uncommitted
        /\ \/ uncommitted[job[p]] = {} /\ trees' = trees \ {job[p]}
           \/ trees' = trees
    BY <1>6 DEF RollbackTree, Goto
  <2>2. WorkHasTree'
    BY <2>1 DEF Placed, WorkHasTree
  <2> QED
    BY <1>1, <2>1, <2>2, QuietStepPlaced
<1>7. CASE RemoveTree(p)
  <2>1. /\ branches' = branches /\ uncommitted' = uncommitted
        /\ \/ uncommitted[job[p]] = {} /\ trees' = trees \ {job[p]} /\ pc'[p] = "forget"
           \/ trees' = trees /\ pc'[p] = "idle"
    BY <1>7 DEF RemoveTree, Goto
  <2>2. WorkHasTree'
    BY <2>1 DEF Placed, WorkHasTree
  <2> QED
    BY <1>1, <2>1, <2>2, QuietStepPlaced
<1>8. CASE RunReviewer(p)
  <2>1. /\ branches' = branches /\ trees' = trees /\ pc'[p] \in {"passed", "failed"}
        /\ \/ job[p] \in trees /\ uncommitted' = [uncommitted EXCEPT ![job[p]] = @ \cup {"review"}]
           \/ uncommitted' = uncommitted
    BY <1>8 DEF RunReviewer, Goto
  <2>2. WorkHasTree'
    BY <2>1 DEF Placed, WorkHasTree, DataOK
  <2> QED
    BY <1>1, <2>1, <2>2, QuietStepPlaced
<1>9. CASE CheckClean(p) \/ Push(p) \/ OpenPR(p) \/ Finish(p)
  <2>1. /\ branches' = branches /\ trees' = trees /\ uncommitted' = uncommitted
        /\ pc'[p] \in {"push", "pr", "pending", "idle"}
    BY <1>9 DEF CheckClean, Push, OpenPR, Finish, Goto, git
  <2>2. WorkHasTree'
    BY <2>1 DEF Placed, WorkHasTree
  <2> QED
    BY <1>1, <2>1, <2>2, QuietStepPlaced
<1> QED
  BY <1>3, <1>4, <1>5, <1>6, <1>7, <1>8, <1>9 DEF Plain

LEMMA PlacedPreserved ==
  ASSUME TypeInv, Placed, [Next]_vars
  PROVE  Placed'
<1> USE DEF TypeInv, WorkersOK
<1>1. ASSUME NEW p \in Workers, Begin(p) PROVE Placed'
  <2>1. PICK c \in Changes : BeginCreate(p, c) \/ BeginClose(p, c) \/ BeginRemove(p, c)
    BY <1>1 DEF Begin
  <2>2. /\ UNCHANGED <<trees, branches, uncommitted>>
        /\ job'[p] = c /\ Others(p)
        /\ \/ pc'[p] = "branch" /\ Minted(c)
           \/ pc'[p] \in {"clean", "remove"} /\ c \in trees
    BY <1>1, <2>1, BeginMoves
    DEF BeginCreate, BeginClose, BeginRemove, git, Resolved, Registered
  <2>3. TreesHaveBranches' /\ WorkHasTree'
    BY <2>2 DEF Placed, TreesHaveBranches, WorkHasTree
  <2>4. CreationIsAlone'
    BY <2>2 DEF Placed, TreesHaveBranches, CreationIsAlone, Others, Minted
  <2>5. TreeAfterBranch' /\ ForgetAfterRemoval'
    BY <2>2 DEF Placed, TreeAfterBranch, ForgetAfterRemoval, Others
  <2> QED
    BY <2>3, <2>4, <2>5 DEF Placed
<1>2. ASSUME NEW p \in Workers, LoadEntries(p) \/ SaveEntries(p) \/ UpdateFails(p) PROVE Placed'
  <2>1. Moved(p) /\ UNCHANGED git
    BY <1>2, UpdateMoves DEF LoadEntries, SaveEntries, UpdateFails, DataOK
  <2>2. pc'[p] \notin {"branch", "tree"} /\ (pc'[p] = "forget" => pc[p] = "forget")
    BY <1>2, UpdateMoves
    DEF LoadEntries, SaveEntries, UpdateFails, AfterUpdate, OnFailure, Updates, DataOK
  <2> QED
    BY <2>1, <2>2, QuietStepPlaced DEF git, Placed, WorkHasTree
<1>3. ASSUME NEW p \in Workers, WriteDocs(p) \/ ListChange(p) PROVE Placed'
  <2>1. Moved(p) /\ pc'[p] \in {"idle", "list"}
    BY <1>3, IndexMoves DEF DataOK
  <2>2. UNCHANGED <<branches, trees>> /\ WorkHasTree'
    BY <1>3 DEF WriteDocs, ListChange, git, Placed, WorkHasTree, DataOK
  <2> QED
    BY <2>1, <2>2, QuietStepPlaced
<1>4. ASSUME NEW p \in Workers, Step(p) PROVE Placed'
  BY <1>2, <1>3, <1>4, PlainPlaced DEF Step, Plain
<1>5. ASSUME UNCHANGED <<pc, job>>, trees' \subseteq trees, branches' = branches, WorkHasTree'
      PROVE  Placed'
  BY <1>5 DEF Placed, TreesHaveBranches, CreationIsAlone, TreeAfterBranch, ForgetAfterRemoval
<1>6. ASSUME NEW c \in Changes, Commit(c) \/ LoseTree(c) \/ \E part \in {"code", "review"} : Edit(c, part)
      PROVE  Placed'
  <2>1. WorkHasTree'
    BY <1>6 DEF Commit, LoseTree, Edit, Placed, WorkHasTree, DataOK
  <2> QED
    BY <1>6, <2>1, <1>5 DEF Commit, LoseTree, Edit
<1>7. ASSUME NEW c \in Changes, Reopen(c) PROVE Placed'
  BY <1>5, <1>7 DEF Reopen, git, Placed, WorkHasTree
<1>8. CASE Restart
  BY <1>8 DEF Restart, git, Placed, TreesHaveBranches, WorkHasTree, CreationIsAlone,
              TreeAfterBranch, ForgetAfterRemoval
<1>9. CASE UNCHANGED vars
  BY <1>5, <1>9 DEF vars, git, Placed, WorkHasTree
<1> QED
  BY <1>1, <1>4, <1>6, <1>7, <1>8, <1>9 DEF Next, Begin

(* The two invariants the others lean on: types, and worktrees only where  *)
(* a branch is and uncommitted work only where a worktree is, with nobody  *)
(* else near a change that is being created (setupWorktree).               *)
THEOREM PlacementInvariant == Spec => [](TypeInv /\ Placed)
<1>1. Init => TypeInv /\ Placed
  BY InitTypeInv, InitPlaced
<1>2. TypeInv /\ Placed /\ [Next]_vars => (TypeInv /\ Placed)'
  BY DataPreserved, WorkersPreserved, PlacedPreserved DEF TypeInv
<1> QED
  BY <1>1, <1>2, PTL DEF Spec

LEMMA StepKeepsWork ==
  ASSUME TypeInv, Placed, Next
  PROVE  WorkStays
<1> USE DEF TypeInv, WorkersOK, DataOK, Placed, WorkHasTree, WorkStays
<1>1. ASSUME UNCHANGED git PROVE WorkStays
  BY <1>1 DEF git
<1>2. ASSUME NEW p \in Workers, Begin(p) PROVE WorkStays
  BY <1>1, <1>2 DEF Begin, BeginCreate, BeginClose, BeginRemove
<1>3. ASSUME NEW p \in Workers, Step(p) PROVE WorkStays
  <2>1. CASE CreateBranch(p)
    BY <2>1 DEF CreateBranch
  <2>2. CASE AddTree(p)
    <3>1. uncommitted[job[p]] = {} \/ uncommitted' = uncommitted
      BY <2>2 DEF AddTree, At, CreationIsAlone, WorkerOK
    <3> QED
      BY <2>2, <3>1 DEF AddTree
  <2>3. CASE RollbackTree(p)
    BY <2>3 DEF RollbackTree
  <2>4. CASE RollbackBranch(p)
    BY <2>4 DEF RollbackBranch
  <2>5. CASE WriteDocs(p)
    BY <2>5 DEF WriteDocs
  <2>6. CASE RunReviewer(p)
    BY <2>6 DEF RunReviewer
  <2>7. CASE RemoveTree(p)
    BY <2>7 DEF RemoveTree
  <2>8. CASE ListChange(p) \/ LoadEntries(p) \/ SaveEntries(p) \/ UpdateFails(p)
             \/ CheckClean(p) \/ Push(p) \/ OpenPR(p) \/ Finish(p)
    BY <1>1, <2>8 DEF ListChange, LoadEntries, SaveEntries, UpdateFails, CheckClean, Push, OpenPR, Finish
  <2> QED
    BY <1>3, <2>1, <2>2, <2>3, <2>4, <2>5, <2>6, <2>7, <2>8 DEF Step
<1>4. ASSUME NEW c \in Changes, Commit(c) PROVE WorkStays
  BY <1>4 DEF Commit
<1>5. ASSUME NEW c \in Changes, LoseTree(c) PROVE WorkStays
  BY <1>5 DEF LoseTree
<1>6. ASSUME NEW c \in Changes, NEW part \in {"code", "review"}, Edit(c, part) PROVE WorkStays
  BY <1>6 DEF Edit
<1>7. ASSUME NEW c \in Changes, Reopen(c) PROVE WorkStays
  BY <1>1, <1>7 DEF Reopen
<1>8. CASE Restart
  BY <1>1, <1>8 DEF Restart
<1> QED
  BY <1>2, <1>3, <1>4, <1>5, <1>6, <1>7, <1>8 DEF Next, Begin

(* WorkIsKept for every instance: removal, rollback, the reviewer's        *)
(* writing and every failure between them leave all work in place.         *)
THEOREM WorkIsNeverLost == Spec => WorkIsKept
<1>1. TypeInv /\ Placed /\ [Next]_vars => [WorkStays]_git
  <2>1. SUFFICES ASSUME TypeInv, Placed, [Next]_vars PROVE [WorkStays]_git
    OBVIOUS
  <2>2. CASE Next
    BY <2>1, <2>2, StepKeepsWork
  <2>3. CASE UNCHANGED vars
    BY <2>3 DEF vars
  <2> QED
    BY <2>1, <2>2, <2>3
<1> QED
  BY <1>1, PlacementInvariant, PTL DEF Spec, WorkIsKept

-----------------------------------------------------------------------------
(* Done means a pull request and a review                                  *)

InReview == {"pending", "review", "passed", "done", "failed"}

(* Whoever remembers a pull request, in the file, in a copy of it or as    *)
(* what a close found, remembers one that exists.                          *)
PRsExist ==
  /\ \A c \in Changes : file[c].pr => c \in prs
  /\ \A p \in Workers : pc[p] \in Updates /\ loaded[p] # None
       => \A c \in Changes : loaded[p][c].pr => c \in prs
  /\ \A p \in Workers : pc[p] \in {"clean", "push", "pr"} /\ entry[p].pr => job[p] \in prs
  /\ \A p \in Workers : pc[p] \in InReview => job[p] \in prs

HasReview(c) == "review" \in uncommitted[c] \cup committed[c] \/ c \in lost
ReviewWritten == \A p \in Workers : pc[p] \in {"passed", "done"} => HasReview(job[p])

Reviewed == PRsExist /\ ReviewWritten /\ DoneWasReviewed

LEMMA InitReviewed == Init => Reviewed
<1>1. ASSUME Init PROVE Reviewed
  <2>1. \A c \in Changes : ~file[c].pr
    BY <1>1 DEF Init, NoEntry
  <2> QED
    BY <1>1, <2>1 DEF Init, Reviewed, PRsExist, ReviewWritten, DoneWasReviewed, InReview, Updates
<1> QED
  BY <1>1

(* Pull requests and reviews are never taken back, and no step but Finish  *)
(* marks a change Done.                                                    *)
LEMMA EvidenceStays ==
  ASSUME TypeInv, Placed, Next
  PROVE  /\ prs \subseteq prs'
         /\ \A c \in Changes : HasReview(c) => HasReview(c)'
         /\ \A c \in Changes : committed[c] \subseteq committed'[c]
<1>1. WorkStays
  BY StepKeepsWork
<1>2. lost \subseteq lost' /\ \A c \in Changes : committed[c] \subseteq committed'[c]
  <2> DEFINE Kept == lost \subseteq lost' /\ \A c \in Changes : committed[c] \subseteq committed'[c]
  <2>1. ASSUME UNCHANGED <<committed, lost>> PROVE Kept
    BY <2>1
  <2>2. ASSUME NEW p \in Workers, Begin(p) \/ Step(p) PROVE UNCHANGED <<committed, lost>>
    BY <2>2 DEF Begin, BeginCreate, BeginClose, BeginRemove, Step, git,
         CreateBranch, AddTree, RollbackTree, RollbackBranch, WriteDocs, ListChange, LoadEntries,
         SaveEntries, UpdateFails, CheckClean, Push, OpenPR, RunReviewer, Finish, RemoveTree
  <2>3. ASSUME NEW c \in Changes, Commit(c) PROVE Kept
    BY <2>3 DEF Commit, TypeInv, DataOK
  <2>4. ASSUME NEW c \in Changes, LoseTree(c) PROVE Kept
    BY <2>4 DEF LoseTree
  <2>5. ASSUME NEW c \in Changes, Reopen(c) \/ \E part \in {"code", "review"} : Edit(c, part)
        PROVE  UNCHANGED <<committed, lost>>
    BY <2>5 DEF Reopen, Edit, git
  <2>6. CASE Restart
    BY <2>1, <2>6 DEF Restart, git
  <2> QED
    BY <2>1, <2>2, <2>3, <2>4, <2>5, <2>6 DEF Next, Begin
<1>3. prs \subseteq prs'
  <2>1. ASSUME NEW p \in Workers, Step(p) PROVE prs \subseteq prs'
    BY <2>1 DEF Step, CreateBranch, AddTree, RollbackTree, RollbackBranch, WriteDocs, ListChange,
         LoadEntries, SaveEntries, UpdateFails, CheckClean, Push, OpenPR, RunReviewer, Finish, RemoveTree
  <2> QED
    BY <2>1 DEF Next, BeginCreate, BeginClose, BeginRemove, Reopen, Commit, LoseTree, Edit, Restart
<1> QED
  BY <1>1, <1>2, <1>3 DEF WorkStays, HasReview

(* A step that changes neither the file nor done, and lets its worker in   *)
(* among those that must have seen a pull request or a review only by the  *)
(* way the code takes.                                                     *)
LEMMA WorkerStepReviewed ==
  ASSUME TypeInv, Placed, Reviewed, Next, NEW p \in Workers, Moved(p),
         file' = file, done' = done,
         pc'[p] \in Updates => loaded'[p] \in {None, loaded[p], file} /\ (loaded'[p] = loaded[p] => pc[p] \in Updates \/ loaded[p] = None),
         pc'[p] \in {"clean", "push", "pr"} => pc[p] \in {"clean", "push", "pr"},
         pc'[p] \in InReview => pc[p] \in InReview \/ job[p] \in prs',
         pc'[p] \in {"passed", "done"} => pc[p] \in {"passed", "done"} \/ HasReview(job[p])'
  PROVE  Reviewed'
<1> USE DEF Moved, Others, Reviewed, TypeInv, WorkersOK
<1>1. prs \subseteq prs' /\ \A c \in Changes : HasReview(c) => HasReview(c)'
  BY EvidenceStays
<1>2. \A q \in Workers : pc[q] # "idle" => job[q] \in Changes
  BY DEF WorkerOK
<1>3. PRsExist'
  <2>1. \A c \in Changes : file'[c].pr => c \in prs'
    BY <1>1 DEF PRsExist
  <2>2. ASSUME NEW q \in Workers, pc'[q] \in Updates, loaded'[q] # None, NEW c \in Changes, loaded'[q][c].pr
        PROVE  c \in prs'
    <3>1. CASE q = p
      BY <1>1, <2>2, <3>1 DEF PRsExist
    <3>2. CASE q # p
      BY <1>1, <2>2, <3>2 DEF PRsExist
    <3> QED
      BY <3>1, <3>2
  <2>3. ASSUME NEW q \in Workers, pc'[q] \in {"clean", "push", "pr"}, entry'[q].pr PROVE job'[q] \in prs'
    BY <1>1, <2>3 DEF PRsExist
  <2>4. ASSUME NEW q \in Workers, pc'[q] \in InReview PROVE job'[q] \in prs'
    BY <1>1, <2>4 DEF PRsExist, InReview
  <2> QED
    BY <2>1, <2>2, <2>3, <2>4 DEF PRsExist
<1>4. ReviewWritten'
  <2>1. ASSUME NEW q \in Workers, pc'[q] \in {"passed", "done"} PROVE HasReview(job[q])' /\ job'[q] = job[q]
    BY <1>1, <1>2, <2>1 DEF ReviewWritten
  <2> QED
    BY <2>1 DEF ReviewWritten, HasReview
<1>5. DoneWasReviewed'
  BY <1>1 DEF DoneWasReviewed, HasReview, DataOK
<1> QED
  BY <1>3, <1>4, <1>5

LEMMA PlainReviewed ==
  ASSUME TypeInv, Placed, Reviewed, NEW p \in Workers, Plain(p)
  PROVE  Reviewed'
<1> USE DEF TypeInv, WorkersOK
<1>1. Moved(p) /\ Next
  BY PlainMoves DEF Next, Step, Plain
<1>2. pc[p] # "idle" /\ loaded[p] = None /\ job[p] \in Changes
  BY DEF WorkerOK, Plain, CreateBranch, AddTree, RollbackTree, RollbackBranch,
         CheckClean, Push, OpenPR, RunReviewer, Finish, RemoveTree, At, Updates
<1>3. ASSUME NEW label \in Labels, Goto(p, label) PROVE pc'[p] = label /\ loaded'[p] = None
  BY <1>2, <1>3 DEF Goto
<1>4. CASE CreateBranch(p) \/ AddTree(p) \/ RollbackTree(p) \/ RollbackBranch(p) \/ RemoveTree(p)
  <2>1. UNCHANGED <<file, done>> /\ pc'[p] \in {"tree", "record", "unbranch", "forget", "idle"} /\ loaded'[p] = None
    BY <1>3, <1>4 DEF CreateBranch, AddTree, RollbackTree, RollbackBranch, RemoveTree, files, Labels, Updates
  <2> QED
    BY <1>1, <1>2, <2>1, WorkerStepReviewed DEF InReview
<1>5. CASE CheckClean(p) \/ Push(p)
  <2>1. /\ UNCHANGED <<file, done>> /\ pc[p] \in {"clean", "push"}
        /\ pc'[p] \in {"push", "pr", "idle"} /\ loaded'[p] = None
    BY <1>3, <1>5 DEF CheckClean, Push, files, At, Labels
  <2> QED
    BY <1>1, <1>2, <2>1, WorkerStepReviewed DEF InReview
<1>6. CASE OpenPR(p)
  <2>1. /\ UNCHANGED <<file, done>> /\ pc[p] = "pr"
        /\ pc'[p] \in {"pending", "idle"} /\ loaded'[p] = None
        /\ pc'[p] = "pending" => entry[p].pr \/ job[p] \in prs'
    BY <1>3, <1>6 DEF OpenPR, files, At, Labels, Updates
  <2>2. pc'[p] = "pending" => job[p] \in prs'
    BY <1>1, <2>1, EvidenceStays DEF Reviewed, PRsExist
  <2> QED
    BY <1>1, <1>2, <2>1, <2>2, WorkerStepReviewed DEF InReview
<1>7. CASE RunReviewer(p)
  <2>1. /\ UNCHANGED <<file, done>> /\ pc[p] = "review"
        /\ pc'[p] \in {"passed", "failed"} /\ loaded'[p] = None
        /\ pc'[p] = "passed" => HasReview(job[p])'
    BY <1>1, <1>3, <1>7 DEF RunReviewer, files, At, Labels, Updates, HasReview, Moved
  <2> QED
    BY <1>1, <1>2, <2>1, WorkerStepReviewed DEF InReview
<1>8. CASE Finish(p)
  <2>1. /\ file' = file /\ UNCHANGED git /\ lost' = lost /\ prs' = prs
        /\ pc[p] = "done" /\ pc'[p] = "idle"
        /\ done' = done \/ done' = done \cup {job[p]}
    BY <1>3, <1>8 DEF Finish, At, Labels
  <2>2. job[p] \in prs /\ HasReview(job[p])
    BY <2>1 DEF Reviewed, PRsExist, ReviewWritten, InReview
  <2>3. DoneWasReviewed'
    BY <2>1, <2>2 DEF Reviewed, DoneWasReviewed, HasReview, git
  <2>4. PRsExist'
    BY <1>1, <2>1 DEF Reviewed, PRsExist, Moved, Others, InReview, Updates
  <2>5. ReviewWritten'
    BY <1>1, <2>1 DEF Reviewed, ReviewWritten, Moved, Others, HasReview, git
  <2> QED
    BY <2>3, <2>4, <2>5 DEF Reviewed
<1> QED
  BY <1>4, <1>5, <1>6, <1>7, <1>8 DEF Plain

LEMMA UpdateReviewed ==
  ASSUME TypeInv, Placed, Reviewed, NEW p \in Workers,
         LoadEntries(p) \/ SaveEntries(p) \/ UpdateFails(p)
  PROVE  Reviewed'
<1> USE DEF TypeInv, WorkersOK, DataOK
<1>1. Moved(p) /\ Next
  BY UpdateMoves DEF Next, Step
<1>2. pc[p] \in Updates /\ pc[p] # "idle" /\ job[p] \in Changes
  BY DEF WorkerOK, LoadEntries, SaveEntries, UpdateFails, Updates
<1>3. CASE LoadEntries(p)
  <2>1. UNCHANGED <<file, done>> /\ pc'[p] \in {pc[p], "idle"} /\ loaded'[p] \in {file, None}
    BY <1>1, <1>3, UpdateMoves DEF LoadEntries, files
  <2> QED
    BY <1>1, <1>2, <2>1, WorkerStepReviewed DEF InReview, Updates
<1>4. CASE UpdateFails(p)
  <2>1. UNCHANGED <<file, done>> /\ pc'[p] \in {"untree", "idle"}
    BY <1>1, <1>4, UpdateMoves DEF UpdateFails, files, OnFailure
  <2> QED
    BY <1>1, <1>2, <2>1, WorkerStepReviewed DEF InReview, Updates
<1>5. CASE SaveEntries(p)
  <2>1. /\ loaded[p] \in [Changes -> Entries] /\ loaded[p] # None
        /\ file' = [loaded[p] EXCEPT ![job[p]] = Updated(pc[p], loaded[p][job[p]])]
        /\ UNCHANGED <<done, prs, lost, uncommitted, committed>>
        /\ pc'[p] = AfterUpdate(pc[p])
    BY <1>1, <1>5, UpdateMoves DEF SaveEntries, WorkerOK, git
  <2>2. \A c \in Changes : loaded[p][c].pr => c \in prs
    BY <1>2, <2>1 DEF Reviewed, PRsExist
  <2>3. Updated(pc[p], loaded[p][job[p]]).pr => loaded[p][job[p]].pr \/ pc[p] = "pending"
    BY <1>2, <2>1 DEF Updated, Updates, NoEntry, Entries
  <2>4. \A c \in Changes : file'[c].pr => c \in prs'
    BY <1>2, <2>1, <2>2, <2>3 DEF Reviewed, PRsExist, InReview
  <2>5. /\ pc'[p] \in {"docs", "review", "done", "idle"}
        /\ pc'[p] = "review" => pc[p] = "pending"
        /\ pc'[p] = "done" => pc[p] = "passed"
    BY <1>2, <2>1 DEF AfterUpdate, Updates
  <2>6. PRsExist'
    BY <1>1, <2>1, <2>4, <2>5 DEF Reviewed, PRsExist, Moved, Others, InReview, Updates
  <2>7. ReviewWritten'
    BY <1>1, <2>1, <2>5 DEF Reviewed, ReviewWritten, Moved, Others, HasReview
  <2>8. DoneWasReviewed'
    BY <2>1 DEF Reviewed, DoneWasReviewed
  <2> QED
    BY <2>6, <2>7, <2>8 DEF Reviewed
<1> QED
  BY <1>3, <1>4, <1>5

LEMMA ReviewedPreserved ==
  ASSUME TypeInv, Placed, Reviewed, [Next]_vars
  PROVE  Reviewed'
<1> USE DEF TypeInv, WorkersOK, DataOK
<1>1. ASSUME NEW p \in Workers, Begin(p) PROVE Reviewed'
  <2>1. PICK c \in Changes : BeginCreate(p, c) \/ BeginClose(p, c) \/ BeginRemove(p, c)
    BY <1>1 DEF Begin
  <2>2. /\ UNCHANGED <<file, done, prs, lost, uncommitted, committed>>
        /\ job'[p] = c /\ Others(p)
        /\ \/ pc'[p] \in {"branch", "remove"}
           \/ pc'[p] = "clean" /\ entry'[p] = file[c]
    BY <1>1, <2>1, BeginMoves DEF BeginCreate, BeginClose, BeginRemove, git, files
  <2>3. PRsExist'
    BY <2>2 DEF Reviewed, PRsExist, Others, InReview, Updates
  <2>4. ReviewWritten' /\ DoneWasReviewed'
    BY <2>2 DEF Reviewed, ReviewWritten, DoneWasReviewed, HasReview, Others
  <2> QED
    BY <2>3, <2>4 DEF Reviewed
<1>2. ASSUME NEW p \in Workers, WriteDocs(p) \/ ListChange(p) PROVE Reviewed'
  <2>1. /\ Moved(p) /\ Next /\ UNCHANGED <<file, done>> /\ pc'[p] \in {"idle", "list"}
    BY <1>2, IndexMoves DEF Next, Step, WriteDocs, ListChange, files
  <2> QED
    BY <2>1, WorkerStepReviewed DEF InReview, Updates
<1>3. ASSUME NEW p \in Workers, Step(p) PROVE Reviewed'
  BY <1>2, <1>3, PlainReviewed, UpdateReviewed DEF Step, Plain
<1>4. ASSUME Next, UNCHANGED <<file, pc, job, entry, loaded>>, done' \subseteq done PROVE Reviewed'
  <2>1. prs \subseteq prs' /\ \A c \in Changes : HasReview(c) => HasReview(c)'
    BY <1>4, EvidenceStays
  <2>2. PRsExist'
    BY <1>4, <2>1 DEF Reviewed, PRsExist
  <2>3. ReviewWritten'
    <3>1. ASSUME NEW p \in Workers, pc[p] \in {"passed", "done"} PROVE HasReview(job[p])'
      <4>1. job[p] \in Changes /\ HasReview(job[p])
        BY <3>1 DEF Reviewed, ReviewWritten, WorkerOK
      <4> QED
        BY <1>4, <2>1, <4>1 DEF HasReview
    <3> QED
      BY <1>4, <3>1 DEF ReviewWritten, HasReview
  <2>4. DoneWasReviewed'
    BY <1>4, <2>1 DEF Reviewed, DoneWasReviewed, HasReview
  <2> QED
    BY <2>2, <2>3, <2>4 DEF Reviewed
<1>5. ASSUME NEW c \in Changes,
             Reopen(c) \/ Commit(c) \/ LoseTree(c) \/ \E part \in {"code", "review"} : Edit(c, part)
      PROVE  Reviewed'
  <2>1. Next
    BY <1>5 DEF Next
  <2>2. UNCHANGED <<file, pc, job, entry, loaded>> /\ done' \subseteq done
    BY <1>5 DEF Reopen, Commit, LoseTree, Edit, files
  <2> QED
    BY <1>4, <2>1, <2>2
<1>6. CASE Restart
  <2>1. /\ UNCHANGED <<file, done, prs, lost, uncommitted, committed>>
        /\ \A p \in Workers : pc'[p] = "idle" /\ loaded'[p] = None
    BY <1>6 DEF Restart, files, git
  <2> QED
    BY <2>1 DEF Reviewed, PRsExist, ReviewWritten, DoneWasReviewed, HasReview, InReview, Updates
<1>7. CASE UNCHANGED vars
  BY <1>7 DEF vars, files, git, Reviewed, PRsExist, ReviewWritten, DoneWasReviewed, HasReview
<1> QED
  BY <1>1, <1>3, <1>5, <1>6, <1>7 DEF Next, Begin

(* DoneWasReviewed for every instance: no interleaving of closes, removals *)
(* and work in the worktrees marks a change Done without its pull request  *)
(* and its review.                                                         *)
THEOREM DoneMeansReviewed == Spec => []DoneWasReviewed
<1>1. TypeInv /\ Placed /\ Reviewed /\ [Next]_vars => Reviewed'
  BY ReviewedPreserved
<1>2. Reviewed => DoneWasReviewed
  BY DEF Reviewed
<1> QED
  BY InitReviewed, PlacementInvariant, <1>1, <1>2, PTL DEF Spec

-----------------------------------------------------------------------------
(* A listed change is found                                                *)

HasRecord(c) == "record" \in uncommitted[c] \cup committed[c]

(* As long as nothing was clobbered: what is listed is recorded, what is   *)
(* being created is not listed yet, and what is about to be listed is      *)
(* recorded and has its documents.                                         *)
ListedHaveEntry == \A c \in index \cap trees : file[c].live /\ HasRecord(c)
UnlistedWhileNew == \A p \in Workers : pc[p] \in {"branch", "tree"} => job[p] \notin index
EntryBeforeDocs == \A p \in Workers : pc[p] \in {"docs", "list"} /\ job[p] \in trees => file[job[p]].live
DocsBeforeList == \A p \in Workers : pc[p] = "list" /\ job[p] \in trees => HasRecord(job[p])

Listing ==
  clobbered \/ (ListedHaveEntry /\ UnlistedWhileNew /\ EntryBeforeDocs /\ DocsBeforeList)

LEMMA InitListing == Init => Listing
<1>1. ASSUME Init PROVE Listing
  <2>1. ListedHaveEntry
    BY <1>1, PipelineAssumption DEF Init, ListedHaveEntry, HasRecord, NoEntry
  <2> QED
    BY <1>1, <2>1 DEF Init, Listing, UnlistedWhileNew, EntryBeforeDocs, DocsBeforeList
<1> QED
  BY <1>1

(* A step that adds no worktree, leaves the index and the file alone and   *)
(* does not bring its worker to a place that asks for more.                *)
LEMMA QuietStepListing ==
  ASSUME TypeInv, Placed, Listing, Next, NEW p \in Workers, Moved(p),
         UNCHANGED <<file, index, clobbered>>, trees' \subseteq trees,
         pc'[p] \notin {"branch", "docs", "list"},
         pc'[p] = "tree" => pc[p] = "branch"
  PROVE  Listing'
<1> USE DEF TypeInv, WorkersOK, DataOK, Moved, Others
<1>1. SUFFICES ASSUME ~clobbered PROVE Listing'
  BY DEF Listing
<1>2. \A c \in trees' : HasRecord(c) => HasRecord(c)'
  BY StepKeepsWork, EvidenceStays DEF WorkStays, HasRecord
<1>3. ListedHaveEntry'
  BY <1>1, <1>2 DEF Listing, ListedHaveEntry
<1>4. UnlistedWhileNew' /\ EntryBeforeDocs'
  BY <1>1 DEF Listing, UnlistedWhileNew, EntryBeforeDocs
<1>5. DocsBeforeList'
  <2>1. ASSUME NEW q \in Workers, pc'[q] = "list", job'[q] \in trees' PROVE HasRecord(job[q])' /\ job'[q] = job[q]
    <3>1. q # p /\ job'[q] = job[q] /\ HasRecord(job[q])
      BY <1>1, <2>1 DEF Listing, DocsBeforeList
    <3> QED
      BY <1>2, <2>1, <3>1 DEF HasRecord
  <2> QED
    BY <2>1 DEF DocsBeforeList, HasRecord
<1> QED
  BY <1>3, <1>4, <1>5 DEF Listing

LEMMA PlainListing ==
  ASSUME TypeInv, Placed, Listing, NEW p \in Workers, Plain(p)
  PROVE  Listing'
<1> USE DEF TypeInv, WorkersOK, DataOK
<1>1. Moved(p) /\ Next
  BY PlainMoves DEF Next, Step, Plain
<1>2. CASE AddTree(p)
  <2>1. /\ pc[p] = "tree" /\ UNCHANGED <<file, index, clobbered, committed>>
        /\ \/ pc'[p] = "record" /\ trees' = trees \cup {job[p]}
           \/ pc'[p] = "unbranch" /\ trees' = trees
        /\ uncommitted' \in {uncommitted, [uncommitted EXCEPT ![job[p]] = {"code"}]}
    BY <1>2 DEF AddTree, At, Goto, files
  <2>2. \A q \in Workers \ {p} : job[q] # job[p]
    BY <2>1 DEF Placed, CreationIsAlone
  <2>3. SUFFICES ASSUME ~clobbered PROVE Listing'
    BY <2>1 DEF Listing
  <2>4. ListedHaveEntry'
    BY <2>1, <2>3 DEF Listing, ListedHaveEntry, UnlistedWhileNew, HasRecord
  <2>5. UnlistedWhileNew' /\ EntryBeforeDocs'
    BY <1>1, <2>1, <2>2, <2>3 DEF Listing, UnlistedWhileNew, EntryBeforeDocs, Moved, Others
  <2>6. DocsBeforeList'
    BY <1>1, <2>1, <2>2, <2>3 DEF Listing, DocsBeforeList, HasRecord, Moved, Others
  <2> QED
    BY <2>4, <2>5, <2>6 DEF Listing
<1>3. CASE ~AddTree(p)
  <2>1. /\ UNCHANGED <<file, index, clobbered>> /\ trees' \subseteq trees
        /\ pc'[p] \notin {"branch", "docs", "list"}
        /\ pc'[p] = "tree" => pc[p] = "branch"
    <3>1. pc'[p] \in {"tree", "unbranch", "push", "pr", "pending", "passed", "failed", "forget", "idle"}
      BY <1>3 DEF Plain, CreateBranch, RollbackTree, RollbackBranch, Goto,
         CheckClean, Push, OpenPR, RunReviewer, Finish, RemoveTree
    <3>2. pc'[p] = "tree" => pc[p] = "branch"
      BY <1>3 DEF Plain, CreateBranch, RollbackTree, RollbackBranch, Goto, At,
         CheckClean, Push, OpenPR, RunReviewer, Finish, RemoveTree
    <3>3. UNCHANGED <<file, index, clobbered>> /\ trees' \subseteq trees
      BY <1>3 DEF Plain, CreateBranch, RollbackTree, RollbackBranch, files, git,
         CheckClean, Push, OpenPR, RunReviewer, Finish, RemoveTree
    <3> QED
      BY <3>1, <3>2, <3>3
  <2> QED
    BY <1>1, <2>1, QuietStepListing
<1> QED
  BY <1>2, <1>3

(* A write back that clobbers nothing changes one entry.                   *)
LEMMA SaveEffect ==
  ASSUME TypeInv, NEW p \in Workers, SaveEntries(p), ~clobbered'
  PROVE  /\ pc[p] \in Updates /\ job[p] \in Changes
         /\ file' = [file EXCEPT ![job[p]] = Updated(pc[p], file[job[p]])]
         /\ ~clobbered
         /\ UNCHANGED <<index, trees, uncommitted, committed, interrupted>>
         /\ pc'[p] = AfterUpdate(pc[p])
BY UpdateMoves DEF TypeInv, WorkersOK, WorkerOK, DataOK, SaveEntries, git, Updates

LEMMA UpdateListing ==
  ASSUME TypeInv, Placed, Listing, NEW p \in Workers,
         LoadEntries(p) \/ SaveEntries(p) \/ UpdateFails(p)
  PROVE  Listing'
<1> USE DEF TypeInv, WorkersOK, DataOK
<1>1. Moved(p) /\ Next
  BY UpdateMoves DEF Next, Step
<1>2. CASE LoadEntries(p) \/ UpdateFails(p)
  <2>1. /\ UNCHANGED <<file, index, clobbered, trees>>
        /\ pc[p] \in Updates /\ pc'[p] \in {pc[p], "untree", "idle"}
    BY <1>2, UpdateMoves DEF LoadEntries, UpdateFails, files, git, OnFailure
  <2> QED
    BY <1>1, <2>1, QuietStepListing DEF Updates
<1>3. CASE SaveEntries(p)
  <2>1. SUFFICES ASSUME ~clobbered' PROVE Listing'
    BY DEF Listing
  <2>2. /\ pc[p] \in Updates /\ job[p] \in Changes
        /\ file' = [file EXCEPT ![job[p]] = Updated(pc[p], file[job[p]])]
        /\ ~clobbered
        /\ UNCHANGED <<index, trees, uncommitted, committed>>
        /\ pc'[p] = AfterUpdate(pc[p])
    BY <1>3, <2>1, SaveEffect
  <2>3. /\ pc[p] = "record" => Updated(pc[p], file[job[p]]).live
        /\ pc[p] # "forget" /\ file[job[p]].live => Updated(pc[p], file[job[p]]).live
    BY <2>2 DEF Updated, Updates, Entries
  <2>4. pc[p] = "forget" => job[p] \notin trees
    BY DEF Placed, ForgetAfterRemoval
  <2>5. \A c \in trees : file[c].live => file'[c].live
    BY <2>2, <2>3, <2>4
  <2>6. pc'[p] \in {"docs", "review", "done", "idle"} /\ (pc'[p] = "docs" => pc[p] = "record")
    BY <2>2 DEF AfterUpdate, Updates
  <2>7. ListedHaveEntry'
    BY <2>2, <2>5 DEF Listing, ListedHaveEntry, HasRecord
  <2>8. UnlistedWhileNew' /\ DocsBeforeList'
    BY <1>1, <2>2, <2>6 DEF Listing, UnlistedWhileNew, DocsBeforeList, HasRecord, Moved, Others
  <2>9. EntryBeforeDocs'
    <3>1. ASSUME NEW q \in Workers, pc'[q] \in {"docs", "list"}, job'[q] \in trees' PROVE file'[job'[q]].live
      <4>1. CASE q = p
        BY <1>1, <2>2, <2>3, <2>6, <3>1, <4>1 DEF Moved
      <4>2. CASE q # p
        BY <1>1, <2>2, <2>5, <3>1, <4>2 DEF Moved, Others, Listing, EntryBeforeDocs
      <4> QED
        BY <4>1, <4>2
    <3> QED
      BY <3>1 DEF EntryBeforeDocs
  <2> QED
    BY <2>7, <2>8, <2>9 DEF Listing
<1> QED
  BY <1>2, <1>3

LEMMA IndexListing ==
  ASSUME TypeInv, Placed, Listing, NEW p \in Workers, WriteDocs(p) \/ ListChange(p)
  PROVE  Listing'
<1> USE DEF TypeInv, WorkersOK, DataOK
<1>1. Moved(p) /\ Next
  BY IndexMoves DEF Next, Step
<1>2. SUFFICES ASSUME ~clobbered' PROVE Listing'
  BY DEF Listing
<1>3. ~clobbered
  BY <1>2 DEF WriteDocs, ListChange
<1>4. CASE WriteDocs(p)
  <2>1. /\ pc[p] = "docs" /\ job[p] \in Changes
        /\ UNCHANGED <<file, index, trees, committed>>
        /\ uncommitted' = IF job[p] \in trees
                    THEN [uncommitted EXCEPT ![job[p]] = @ \cup {"record"}] ELSE uncommitted
        /\ pc'[p] \in {"idle", "list"}
    BY <1>4, IndexMoves DEF WriteDocs, At, files, WorkerOK
  <2>2. \A c \in Changes : HasRecord(c) => HasRecord(c)'
    BY <2>1 DEF HasRecord
  <2>3. ListedHaveEntry'
    BY <1>3, <2>1, <2>2 DEF Listing, ListedHaveEntry
  <2>4. UnlistedWhileNew' /\ EntryBeforeDocs'
    BY <1>1, <1>3, <2>1 DEF Listing, UnlistedWhileNew, EntryBeforeDocs, Moved, Others
  <2>5. DocsBeforeList'
    <3>1. ASSUME NEW q \in Workers, pc'[q] = "list", job'[q] \in trees'
          PROVE  "record" \in uncommitted'[job'[q]] \cup committed'[job'[q]]
      <4>1. CASE q = p
        BY <1>1, <2>1, <3>1, <4>1 DEF Moved
      <4>2. CASE q # p
        BY <1>1, <1>3, <2>1, <3>1, <4>2 DEF Moved, Others, Listing, DocsBeforeList, HasRecord
      <4> QED
        BY <4>1, <4>2
    <3> QED
      BY <3>1 DEF DocsBeforeList, HasRecord
  <2> QED
    BY <2>3, <2>4, <2>5 DEF Listing
<1>5. CASE ListChange(p)
  <2>1. /\ pc[p] = "list" /\ pc'[p] = "idle"
        /\ UNCHANGED <<file, trees, uncommitted, committed>>
        /\ index' = index \/ index' = index \cup {job[p]}
    BY <1>2, <1>3, <1>5, IndexMoves DEF ListChange, At, git
  <2>2. ListedHaveEntry'
    BY <1>3, <2>1 DEF Listing, ListedHaveEntry, EntryBeforeDocs, DocsBeforeList, HasRecord
  <2>3. UnlistedWhileNew'
    BY <1>1, <1>3, <2>1 DEF Listing, UnlistedWhileNew, Placed, CreationIsAlone, Moved, Others
  <2>4. EntryBeforeDocs' /\ DocsBeforeList'
    BY <1>1, <1>3, <2>1 DEF Listing, EntryBeforeDocs, DocsBeforeList, Moved, Others, HasRecord
  <2> QED
    BY <2>2, <2>3, <2>4 DEF Listing
<1> QED
  BY <1>4, <1>5

LEMMA ListingPreserved ==
  ASSUME TypeInv, Placed, Listing, [Next]_vars
  PROVE  Listing'
<1> USE DEF TypeInv, WorkersOK, DataOK
<1>1. ASSUME NEW p \in Workers, Begin(p) PROVE Listing'
  <2>1. PICK c \in Changes : BeginCreate(p, c) \/ BeginClose(p, c) \/ BeginRemove(p, c)
    BY <1>1 DEF Begin
  <2>2. /\ UNCHANGED <<file, index, clobbered, trees, uncommitted, committed>>
        /\ job'[p] = c /\ Others(p)
        /\ \/ pc'[p] = "branch" /\ c \notin index
           \/ pc'[p] \in {"clean", "remove"}
    BY <1>1, <2>1, BeginMoves DEF BeginCreate, BeginClose, BeginRemove, git, files, Minted
  <2>3. SUFFICES ASSUME ~clobbered PROVE Listing'
    BY <2>2 DEF Listing
  <2>4. ListedHaveEntry' /\ UnlistedWhileNew'
    BY <2>2, <2>3 DEF Listing, ListedHaveEntry, UnlistedWhileNew, HasRecord, Others
  <2>5. EntryBeforeDocs' /\ DocsBeforeList'
    BY <2>2, <2>3 DEF Listing, EntryBeforeDocs, DocsBeforeList, HasRecord, Others
  <2> QED
    BY <2>4, <2>5 DEF Listing
<1>2. ASSUME NEW p \in Workers, Step(p) PROVE Listing'
  BY <1>2, PlainListing, UpdateListing, IndexListing DEF Step, Plain
<1>3. ASSUME Next, UNCHANGED <<file, index, clobbered, pc, job>>, trees' \subseteq trees PROVE Listing'
  <2>1. SUFFICES ASSUME ~clobbered PROVE Listing'
    BY <1>3 DEF Listing
  <2>2. \A c \in trees' : HasRecord(c) => HasRecord(c)'
    BY <1>3, StepKeepsWork, EvidenceStays DEF WorkStays, HasRecord
  <2>3. ListedHaveEntry' /\ UnlistedWhileNew' /\ EntryBeforeDocs'
    BY <1>3, <2>1, <2>2 DEF Listing, ListedHaveEntry, UnlistedWhileNew, EntryBeforeDocs
  <2>4. DocsBeforeList'
    BY <1>3, <2>1, <2>2 DEF Listing, DocsBeforeList, HasRecord
  <2> QED
    BY <2>3, <2>4 DEF Listing
<1>4. ASSUME NEW c \in Changes,
             Reopen(c) \/ Commit(c) \/ LoseTree(c) \/ \E part \in {"code", "review"} : Edit(c, part)
      PROVE  Listing'
  <2>1. Next
    BY <1>4 DEF Next
  <2>2. UNCHANGED <<file, index, clobbered, pc, job>> /\ trees' \subseteq trees
    BY <1>4 DEF Reopen, Commit, LoseTree, Edit, files, git
  <2> QED
    BY <1>3, <2>1, <2>2
<1>5. CASE Restart
  BY <1>5 DEF Restart, files, git, Listing, ListedHaveEntry, UnlistedWhileNew, EntryBeforeDocs,
     DocsBeforeList, HasRecord
<1>6. CASE UNCHANGED vars
  BY <1>6 DEF vars, files, git, Listing, ListedHaveEntry, UnlistedWhileNew, EntryBeforeDocs,
     DocsBeforeList, HasRecord
<1> QED
  BY <1>1, <1>2, <1>4, <1>5, <1>6 DEF Next, Begin

(* ListedIsResolved for every instance: the order of git's commands, the   *)
(* record, the documents and the index entry survives stops and failures;  *)
(* only a stale write back hides a listed change from the store.           *)
THEOREM ListedChangesAreFound == Spec => []ListedIsResolved
<1>1. TypeInv /\ Placed /\ Listing /\ [Next]_vars => Listing'
  BY ListingPreserved
<1>2. Listing => ListedIsResolved
  BY DEF Listing, ListedHaveEntry, HasRecord, ListedIsResolved, Resolved, Registered
<1> QED
  BY InitListing, PlacementInvariant, <1>1, <1>2, PTL DEF Spec

-----------------------------------------------------------------------------
(* A pending review is being worked on                                     *)

Reviewing(c) == \E p \in Workers : job[p] = c /\ pc[p] \in {"review", "passed", "failed"}

LEMMA PendingPreserved ==
  ASSUME TypeInv, PendingHasReviewer, [Next]_vars
  PROVE  PendingHasReviewer'
<1> USE DEF TypeInv, WorkersOK, DataOK
<1>1. SUFFICES ASSUME NEW c \in Changes, file'[c].review = "pending", ~clobbered', ~interrupted'
               PROVE  Reviewing(c)'
  BY DEF PendingHasReviewer, Reviewing
<1>2. ASSUME ~clobbered, ~interrupted, file[c].review = "pending" PROVE Reviewing(c)
  BY <1>2 DEF PendingHasReviewer, Reviewing
<1>3. ASSUME NEW p \in Workers, Others(p), Reviewing(c),
             pc[p] \in {"review", "passed", "failed"}
               => job'[p] = job[p] /\ pc'[p] \in {"review", "passed", "failed"}
      PROVE  Reviewing(c)'
  BY <1>3 DEF Reviewing, Others
<1>4. ASSUME UNCHANGED <<file, pc, job, clobbered, interrupted>> PROVE Reviewing(c)'
  BY <1>1, <1>2, <1>4 DEF Reviewing
<1>5. ASSUME NEW p \in Workers, Begin(p) PROVE Reviewing(c)'
  <2>1. UNCHANGED <<file, clobbered, interrupted>>
    BY <1>5 DEF Begin, BeginCreate, BeginClose, BeginRemove, files
  <2> QED
    BY <1>1, <1>2, <1>3, <1>5, <2>1, BeginMoves
<1>6. ASSUME NEW p \in Workers, Plain(p) PROVE Reviewing(c)'
  <2>1. Moved(p) /\ UNCHANGED <<file, interrupted, clobbered>>
    BY <1>6, PlainMoves DEF Plain, CreateBranch, AddTree, RollbackTree, RollbackBranch,
         CheckClean, Push, OpenPR, RunReviewer, Finish, RemoveTree, files
  <2>2. pc[p] \in {"review", "passed", "failed"} => pc'[p] \in {"passed", "failed"}
    BY <1>6 DEF Plain, CreateBranch, AddTree, RollbackTree, RollbackBranch, Goto, At,
         CheckClean, Push, OpenPR, RunReviewer, Finish, RemoveTree
  <2> QED
    BY <1>1, <1>2, <1>3, <2>1, <2>2 DEF Moved
<1>7. ASSUME NEW p \in Workers, LoadEntries(p) PROVE Reviewing(c)'
  <2>1. /\ Moved(p) /\ UNCHANGED <<file, interrupted, clobbered>>
        /\ pc[p] \in Updates
        /\ pc'[p] = pc[p] \/ (pc[p] = "forget" /\ pc'[p] = "idle")
    BY <1>7, UpdateMoves DEF LoadEntries, files, Goto, At
  <2> QED
    BY <1>1, <1>2, <1>3, <2>1 DEF Moved, Updates
<1>8. ASSUME NEW p \in Workers, SaveEntries(p) PROVE Reviewing(c)'
  <2>1. /\ pc[p] \in Updates /\ job[p] \in Changes
        /\ file' = [file EXCEPT ![job[p]] = Updated(pc[p], file[job[p]])]
        /\ ~clobbered /\ ~interrupted
        /\ pc'[p] = AfterUpdate(pc[p]) /\ Moved(p)
    BY <1>1, <1>8, SaveEffect, UpdateMoves
  <2>2. CASE c = job[p]
    <3>1. Updated(pc[p], file[c]).review = "pending"
      BY <1>1, <2>1, <2>2
    <3>2. pc[p] = "pending" \/ (pc[p] = "record" /\ file[c].review = "pending")
      BY <2>1, <3>1 DEF Updated, Updates, NoEntry, Entries
    <3>3. CASE pc[p] = "pending"
      BY <2>1, <2>2, <3>3 DEF AfterUpdate, Reviewing, Moved
    <3>4. CASE pc[p] = "record" /\ file[c].review = "pending"
      BY <1>2, <1>3, <2>1, <3>4 DEF Moved
    <3> QED
      BY <3>2, <3>3, <3>4
  <2>3. CASE c # job[p]
    <3>1. file[c].review = "pending"
      BY <1>1, <2>1, <2>3
    <3>2. PICK q \in Workers : job[q] = c /\ pc[q] \in {"review", "passed", "failed"}
      BY <1>2, <2>1, <3>1 DEF Reviewing
    <3> QED
      BY <2>1, <2>3, <3>2 DEF Reviewing, Moved, Others
  <2> QED
    BY <2>2, <2>3
<1>9. ASSUME NEW p \in Workers, WriteDocs(p) \/ ListChange(p) PROVE Reviewing(c)'
  <2>1. /\ Moved(p) /\ UNCHANGED <<file, interrupted>> /\ ~clobbered
        /\ pc[p] \in {"docs", "list"}
    BY <1>1, <1>9, IndexMoves DEF WriteDocs, ListChange, At, files
  <2> QED
    BY <1>1, <1>2, <1>3, <2>1 DEF Moved
<1>10. CASE Restart \/ \E p \in Workers : UpdateFails(p)
  BY <1>1, <1>10 DEF Restart, UpdateFails
<1>11. CASE \E d \in Changes :
              Reopen(d) \/ Commit(d) \/ LoseTree(d) \/ \E part \in {"code", "review"} : Edit(d, part)
  BY <1>4, <1>11 DEF Reopen, Commit, LoseTree, Edit, files
<1>12. CASE UNCHANGED vars
  BY <1>4, <1>12 DEF vars, files
<1> QED
  BY <1>5, <1>6, <1>7, <1>8, <1>9, <1>10, <1>11, <1>12 DEF Next, Step, Begin, Plain

(* PendingHasReviewer for every instance: every way a close ends, short of *)
(* a stop or a failed update, records its verdict.                         *)
THEOREM PendingReviewsEnd == Spec => []PendingHasReviewer
<1>1. Init => PendingHasReviewer
  <2>1. Init => \A c \in Changes : file[c].review # "pending"
    BY DEF Init, NoEntry
  <2> QED
    BY <2>1 DEF PendingHasReviewer
<1>2. TypeInv /\ PendingHasReviewer /\ [Next]_vars => PendingHasReviewer'
  BY PendingPreserved
<1> QED
  BY PlacementInvariant, <1>1, <1>2, PTL DEF Spec
=============================================================================
