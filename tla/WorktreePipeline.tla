-------------------------- MODULE WorktreePipeline --------------------------
(***************************************************************************)
(* The optional worktree pipeline (internal/server/worktree.go,            *)
(* closepipeline.go, internal/gitops): a branch and a worktree for each    *)
(* change, recorded in worktrees.json; a close that pushes, opens a pull   *)
(* request, has it reviewed and only then marks the change Done; and the   *)
(* removal of a worktree.                                                  *)
(*                                                                         *)
(* Every operation is one HTTP handler's goroutine, a sequence of external *)
(* commands and file updates under no lock. UpdateState reads the whole of *)
(* worktrees.json and writes it back: two steps here. git and gh are the   *)
(* environment: their commands are atomic and any of them may fail.        *)
(***************************************************************************)
EXTENDS Naturals, FiniteSets

CONSTANTS
  Changes,    \* change IDs, those yet to be minted among them
  Existing,   \* the changes that have their worktree already
  Workers,    \* goroutines serving requests
  None,
  MaxOps, MaxEdits, MaxRestarts   \* bounds of the model

Parts == {"record", "code", "review"}   \* what is in changes/<id>/, review.md apart, and what is not
Reviews == {"none", "pending", "done", "failed"}

(* "live" stands for the branch, base and path of an entry. An absent      *)
(* entry and an empty one read the same.                                   *)
Entries == [live : BOOLEAN, pr : BOOLEAN, review : Reviews]
NoEntry == [live |-> FALSE, pr |-> FALSE, review |-> "none"]

ASSUME PipelineAssumption ==
  /\ Existing \subseteq Changes
  /\ None \notin Changes /\ None \notin [Changes -> Entries]
  /\ MaxOps \in Nat /\ MaxEdits \in Nat /\ MaxRestarts \in Nat

VARIABLES
  file,         \* worktrees.json
  index,        \* the changes the workflow index lists
  done,         \* the changes whose status is Done
  branches,     \* the changes whose branch exists
  trees,        \* the changes whose worktree exists and is registered with git
  uncommitted,  \* what a worktree holds that its branch does not
  committed,    \* what is committed on the branch
  prs,          \* the branches with a pull request
  pc,           \* pc[p]: the step worker p takes next
  job,          \* job[p]: the change it works on
  entry,        \* entry[p]: the entry a close found when it began
  loaded,       \* loaded[p]: what p read in order to write it back
  clobbered,    \* some write back was of a stale copy
  interrupted,  \* an operation was cut short: a failed update of worktrees.json, a stop
  lost,         \* the changes whose worktree the user deleted by hand
  ops, edits, restarts

files == <<file, index, done>>
git == <<branches, trees, uncommitted, committed>>
counters == <<ops, edits, restarts>>
vars == <<files, git, prs, pc, job, entry, loaded, clobbered, interrupted, lost, counters>>

(* The updates of worktrees.json are named for what they write.            *)
Updates == {"record", "pending", "passed", "failed", "forget"}
Labels == Updates \cup
  {"idle", "branch", "tree", "untree", "unbranch", "docs", "list",
   "clean", "push", "pr", "review", "done", "remove"}

Init ==
  /\ file = [c \in Changes |-> IF c \in Existing THEN [NoEntry EXCEPT !.live = TRUE] ELSE NoEntry]
  /\ index = Existing /\ done = {}
  /\ branches = Existing /\ trees = Existing
  /\ uncommitted = [c \in Changes |-> {}]
  /\ committed = [c \in Changes |-> IF c \in Existing THEN {"record"} ELSE {}]
  /\ prs = {}
  /\ pc = [p \in Workers |-> "idle"]
  /\ job = [p \in Workers |-> None]
  /\ entry = [p \in Workers |-> NoEntry]
  /\ loaded = [p \in Workers |-> None]
  /\ clobbered = FALSE /\ interrupted = FALSE /\ lost = {}
  /\ ops = 0 /\ edits = 0 /\ restarts = 0

At(p, label) == pc[p] = label

(* A worker that ends forgets what it was doing. *)
Goto(p, label) ==
  /\ pc' = [pc EXCEPT ![p] = label]
  /\ IF label = "idle"
     THEN /\ job' = [job EXCEPT ![p] = None]
          /\ entry' = [entry EXCEPT ![p] = NoEntry]
          /\ loaded' = [loaded EXCEPT ![p] = None]
     ELSE UNCHANGED <<job, entry, loaded>>

(* worktreeEntry: the recorded entry, if git confirms the worktree. *)
Registered(c) == file[c].live /\ c \in trees

(* The store's scan finds a worktree-backed change through that entry.     *)
Resolved(c) == c \in index /\ Registered(c) /\ "record" \in uncommitted[c] \cup committed[c]

-----------------------------------------------------------------------------
(* Creating a change                                                       *)

(* A minted ID is random: nobody else uses it. *)
Minted(c) == c \notin index \cup branches /\ \A p \in Workers : job[p] # c

BeginCreate(p, c) ==
  /\ At(p, "idle") /\ ops < MaxOps /\ ops' = ops + 1
  /\ Minted(c)
  /\ pc' = [pc EXCEPT ![p] = "branch"]
  /\ job' = [job EXCEPT ![p] = c]
  /\ UNCHANGED <<files, git, prs, entry, loaded, clobbered, interrupted, lost, edits, restarts>>

CreateBranch(p) ==
  /\ At(p, "branch")
  /\ \/ Goto(p, "tree") /\ branches' = branches \cup {job[p]}
     \/ Goto(p, "idle") /\ UNCHANGED branches
  /\ UNCHANGED <<files, trees, uncommitted, committed, prs, clobbered, interrupted, lost, counters>>

(* The new worktree may hold a copy of opencode.json git does not know.    *)
AddTree(p) ==
  /\ At(p, "tree")
  /\ \/ /\ Goto(p, "record") /\ trees' = trees \cup {job[p]}
        /\ uncommitted' \in {uncommitted, [uncommitted EXCEPT ![job[p]] = {"code"}]}
     \/ Goto(p, "unbranch") /\ UNCHANGED <<trees, uncommitted>>
  /\ UNCHANGED <<files, branches, committed, prs, clobbered, interrupted, lost, counters>>

(* The rollback: git's refusals and failures are only logged. *)
RollbackTree(p) ==
  /\ At(p, "untree")
  /\ Goto(p, "unbranch")
  /\ \/ uncommitted[job[p]] = {} /\ trees' = trees \ {job[p]}
     \/ UNCHANGED trees
  /\ UNCHANGED <<files, branches, uncommitted, committed, prs, clobbered, interrupted, lost, counters>>

RollbackBranch(p) ==
  /\ At(p, "unbranch")
  /\ \/ /\ job[p] \notin trees /\ committed[job[p]] = {}
        /\ branches' = branches \ {job[p]}
     \/ UNCHANGED branches
  /\ Goto(p, "idle")
  /\ UNCHANGED <<files, trees, uncommitted, committed, prs, clobbered, interrupted, lost, counters>>

(* CreateChangeAt: the prose and the state file, then the index, read and  *)
(* written back. A failure rolls nothing back.                             *)
WriteDocs(p) ==
  /\ At(p, "docs")
  /\ uncommitted' = IF job[p] \in trees
                    THEN [uncommitted EXCEPT ![job[p]] = @ \cup {"record"}] ELSE uncommitted
  /\ \/ /\ pc' = [pc EXCEPT ![p] = "list"]
        /\ loaded' = [loaded EXCEPT ![p] = index]
        /\ UNCHANGED <<job, entry>>
     \/ Goto(p, "idle")
  /\ UNCHANGED <<files, branches, trees, committed, prs, clobbered, interrupted, lost, counters>>

ListChange(p) ==
  /\ At(p, "list")
  /\ \/ index' = loaded[p] \cup {job[p]} /\ clobbered' = (clobbered \/ loaded[p] # index)
     \/ UNCHANGED <<index, clobbered>>
  /\ Goto(p, "idle")
  /\ UNCHANGED <<file, done, git, prs, interrupted, lost, counters>>

-----------------------------------------------------------------------------
(* UpdateState and DeleteStateEntry: the whole file is read, one entry     *)
(* changed, the whole file written.                                        *)

Updated(update, e) ==
  CASE update = "record"  -> [e EXCEPT !.live = TRUE]
    [] update = "pending" -> [e EXCEPT !.pr = TRUE, !.review = "pending"]
    [] update = "passed"  -> [e EXCEPT !.review = "done"]
    [] update = "failed"  -> [e EXCEPT !.review = "failed"]
    [] update = "forget"  -> NoEntry

(* What an operation goes on to, and what it does when the update fails.   *)
AfterUpdate(update) ==
  CASE update = "record"  -> "docs"
    [] update = "pending" -> "review"
    [] update = "passed"  -> "done"
    [] OTHER              -> "idle"

(* Mutant: a worktree that could not be recorded is only logged. *)
OnFailureLogged(update) == IF update = "record" THEN "docs" ELSE "idle"

OnFailure(update) == IF update = "record" THEN "untree" ELSE "idle"

(* An entry that is not there need not be deleted. *)
LoadEntries(p) ==
  /\ pc[p] \in Updates /\ loaded[p] = None
  /\ IF At(p, "forget") /\ file[job[p]] = NoEntry
     THEN Goto(p, "idle")
     ELSE /\ loaded' = [loaded EXCEPT ![p] = file]
          /\ UNCHANGED <<pc, job, entry>>
  /\ UNCHANGED <<files, git, prs, clobbered, interrupted, lost, counters>>

SaveEntries(p) ==
  /\ pc[p] \in Updates /\ loaded[p] # None
  /\ file' = [loaded[p] EXCEPT ![job[p]] = Updated(pc[p], @)]
  /\ clobbered' = (clobbered \/ loaded[p] # file)
  /\ IF AfterUpdate(pc[p]) = "idle"
     THEN Goto(p, "idle")
     ELSE /\ pc' = [pc EXCEPT ![p] = AfterUpdate(pc[p])]
          /\ loaded' = [loaded EXCEPT ![p] = None]
          /\ UNCHANGED <<job, entry>>
  /\ UNCHANGED <<index, done, git, prs, interrupted, lost, counters>>

UpdateFails(p) ==
  /\ pc[p] \in Updates
  /\ pc' = [pc EXCEPT ![p] = OnFailure(pc[p])]
  /\ loaded' = [loaded EXCEPT ![p] = None]
  /\ IF OnFailure(pc[p]) = "idle"
     THEN job' = [job EXCEPT ![p] = None] /\ entry' = [entry EXCEPT ![p] = NoEntry]
     ELSE UNCHANGED <<job, entry>>
  /\ interrupted' = TRUE
  /\ UNCHANGED <<files, git, prs, clobbered, lost, counters>>

-----------------------------------------------------------------------------
(* Closing a change                                                        *)

BeginClose(p, c) ==
  /\ At(p, "idle") /\ ops < MaxOps /\ ops' = ops + 1
  /\ Resolved(c)
  /\ pc' = [pc EXCEPT ![p] = "clean"]
  /\ job' = [job EXCEPT ![p] = c]
  /\ entry' = [entry EXCEPT ![p] = file[c]]
  /\ UNCHANGED <<files, git, prs, loaded, clobbered, interrupted, lost, edits, restarts>>

(* Uncommitted code blocks the close, the change's own record does not.    *)
CheckClean(p) ==
  /\ At(p, "clean")
  /\ \/ job[p] \in trees /\ "code" \notin uncommitted[job[p]] /\ Goto(p, "push")
     \/ Goto(p, "idle")
  /\ UNCHANGED <<files, git, prs, clobbered, interrupted, lost, counters>>

(* What is pushed is the branch; no property here tells its versions apart. *)
Push(p) ==
  /\ At(p, "push")
  /\ Goto(p, "pr") \/ Goto(p, "idle")
  /\ UNCHANGED <<files, git, prs, clobbered, interrupted, lost, counters>>

(* A recorded pull request is reused. Otherwise gh opens one, refuses a    *)
(* second one for the branch, or fails, maybe after it was opened.         *)
OpenPR(p) ==
  /\ At(p, "pr")
  /\ \/ entry[p].pr /\ Goto(p, "pending") /\ UNCHANGED prs
     \/ ~entry[p].pr /\ job[p] \notin prs /\ Goto(p, "pending") /\ prs' = prs \cup {job[p]}
     \/ ~entry[p].pr /\ Goto(p, "idle") /\ prs' \in {prs, prs \cup {job[p]}}
  /\ UNCHANGED <<files, git, clobbered, interrupted, lost, counters>>

(* Mutant: the session's end is taken for a review. *)
RunReviewerTrusting(p) ==
  /\ At(p, "review")
  /\ \/ job[p] \in trees /\ uncommitted' = [uncommitted EXCEPT ![job[p]] = @ \cup {"review"}]
     \/ UNCHANGED uncommitted
  /\ Goto(p, "passed") \/ Goto(p, "failed")
  /\ UNCHANGED <<files, branches, trees, committed, prs, clobbered, interrupted, lost, counters>>

(* Mutant: a failed review is returned and not recorded. *)
RunReviewerSilent(p) ==
  /\ At(p, "review")
  /\ \/ job[p] \in trees /\ uncommitted' = [uncommitted EXCEPT ![job[p]] = @ \cup {"review"}]
     \/ UNCHANGED uncommitted
  /\ \/ /\ job[p] \in trees /\ "review" \in uncommitted'[job[p]] \cup committed[job[p]]
        /\ Goto(p, "passed")
     \/ Goto(p, "idle")
  /\ UNCHANGED <<files, branches, trees, committed, prs, clobbered, interrupted, lost, counters>>

(* The reviewer's session ends or runs out of time, having written         *)
(* review.md or not; the file must be there, whenever it was written.      *)
RunReviewer(p) ==
  /\ At(p, "review")
  /\ \/ job[p] \in trees /\ uncommitted' = [uncommitted EXCEPT ![job[p]] = @ \cup {"review"}]
     \/ UNCHANGED uncommitted
  /\ \/ /\ job[p] \in trees /\ "review" \in uncommitted'[job[p]] \cup committed[job[p]]
        /\ Goto(p, "passed")
     \/ Goto(p, "failed")
  /\ UNCHANGED <<files, branches, trees, committed, prs, clobbered, interrupted, lost, counters>>

(* The store must still find the change. Commenting on the pull request is *)
(* best effort and comes before.                                           *)
Finish(p) ==
  /\ At(p, "done")
  /\ \/ job[p] \in index /\ done' = done \cup {job[p]}
     \/ UNCHANGED done
  /\ Goto(p, "idle")
  /\ UNCHANGED <<file, index, git, prs, clobbered, interrupted, lost, counters>>

Reopen(c) ==
  /\ c \in done /\ Resolved(c)
  /\ done' = done \ {c}
  /\ UNCHANGED <<file, index, git, prs, pc, job, entry, loaded, clobbered, interrupted, lost, counters>>

-----------------------------------------------------------------------------
(* Removing a worktree                                                     *)

BeginRemove(p, c) ==
  /\ At(p, "idle") /\ ops < MaxOps /\ ops' = ops + 1
  /\ Registered(c)
  /\ pc' = [pc EXCEPT ![p] = "remove"]
  /\ job' = [job EXCEPT ![p] = c]
  /\ UNCHANGED <<files, git, prs, entry, loaded, clobbered, interrupted, lost, edits, restarts>>

(* Mutant: git worktree remove --force, with no look at the worktree. *)
RemoveTreeForced(p) ==
  /\ At(p, "remove")
  /\ \/ /\ job[p] \in trees
        /\ trees' = trees \ {job[p]} /\ Goto(p, "forget")
        /\ uncommitted' = [uncommitted EXCEPT ![job[p]] = {}]
     \/ Goto(p, "idle") /\ UNCHANGED <<trees, uncommitted>>
  /\ UNCHANGED <<files, branches, committed, prs, clobbered, interrupted, lost, counters>>

(* Git itself refuses to remove a worktree that is not clean. *)
RemoveTree(p) ==
  /\ At(p, "remove")
  /\ \/ /\ job[p] \in trees /\ uncommitted[job[p]] = {}
        /\ trees' = trees \ {job[p]} /\ Goto(p, "forget")
     \/ Goto(p, "idle") /\ UNCHANGED trees
  /\ UNCHANGED <<files, branches, uncommitted, committed, prs, clobbered, interrupted, lost, counters>>

-----------------------------------------------------------------------------
(* The environment: sessions and the user work in the worktrees, commit,   *)
(* or delete one by hand; the server stops at any step.                    *)

Edit(c, part) ==
  /\ edits < MaxEdits /\ edits' = edits + 1
  /\ c \in trees
  /\ uncommitted' = [uncommitted EXCEPT ![c] = @ \cup {part}]
  /\ UNCHANGED <<files, branches, trees, committed, prs, pc, job, entry, loaded, clobbered, interrupted, lost, ops, restarts>>

Commit(c) ==
  /\ c \in trees /\ uncommitted[c] # {}
  /\ committed' = [committed EXCEPT ![c] = @ \cup uncommitted[c]]
  /\ uncommitted' = [uncommitted EXCEPT ![c] = {}]
  /\ UNCHANGED <<files, branches, trees, prs, pc, job, entry, loaded, clobbered, interrupted, lost, counters>>

LoseTree(c) ==
  /\ edits < MaxEdits /\ edits' = edits + 1
  /\ c \in trees
  /\ trees' = trees \ {c} /\ lost' = lost \cup {c}
  /\ uncommitted' = [uncommitted EXCEPT ![c] = {}]
  /\ UNCHANGED <<files, branches, committed, prs, pc, job, entry, loaded, clobbered, interrupted, ops, restarts>>

Restart ==
  /\ restarts < MaxRestarts /\ restarts' = restarts + 1
  /\ pc' = [p \in Workers |-> "idle"]
  /\ job' = [p \in Workers |-> None]
  /\ entry' = [p \in Workers |-> NoEntry]
  /\ loaded' = [p \in Workers |-> None]
  /\ interrupted' = TRUE
  /\ UNCHANGED <<files, git, prs, clobbered, lost, ops, edits>>

-----------------------------------------------------------------------------
Step(p) ==
  \/ CreateBranch(p) \/ AddTree(p) \/ RollbackTree(p) \/ RollbackBranch(p)
  \/ WriteDocs(p) \/ ListChange(p)
  \/ LoadEntries(p) \/ SaveEntries(p) \/ UpdateFails(p)
  \/ CheckClean(p) \/ Push(p) \/ OpenPR(p) \/ RunReviewer(p) \/ Finish(p)
  \/ RemoveTree(p)

Next ==
  \/ \E p \in Workers :
       \/ \E c \in Changes : BeginCreate(p, c) \/ BeginClose(p, c) \/ BeginRemove(p, c)
       \/ Step(p)
  \/ \E c \in Changes :
       Reopen(c) \/ Commit(c) \/ LoseTree(c) \/ \E part \in {"code", "review"} : Edit(c, part)
  \/ Restart

Spec == Init /\ [][Next]_vars

-----------------------------------------------------------------------------
(* Properties                                                              *)

TypeOK ==
  /\ file \in [Changes -> Entries]
  /\ index \subseteq Changes /\ done \subseteq Changes
  /\ branches \subseteq Changes /\ trees \subseteq Changes /\ prs \subseteq Changes
  /\ uncommitted \in [Changes -> SUBSET Parts] /\ committed \in [Changes -> SUBSET Parts]
  /\ pc \in [Workers -> Labels]
  /\ \A p \in Workers : (pc[p] = "idle") = (job[p] = None)
  /\ entry \in [Workers -> Entries]

(* A change is marked Done only when its pull request was opened and a     *)
(* review written, however two closes, a removal and work in the worktree  *)
(* interleave; only the user's own deletion takes the review away          *)
(* (closeWorktreePipeline, worktreeRemove).                                *)
DoneWasReviewed ==
  \A c \in done : c \in prs /\ ("review" \in uncommitted[c] \cup committed[c] \/ c \in lost)

(* No operation of the server loses work: what is uncommitted stays in its *)
(* worktree until it is committed or the user deletes the worktree, and a  *)
(* branch with commits stays (worktreeRemove, the rollback of              *)
(* setupWorktree).                                                         *)
WorkStays ==
  \A c \in Changes :
    /\ uncommitted[c] \subseteq uncommitted'[c] \cup committed'[c] \/ c \in lost' \ trees'
    /\ uncommitted[c] # {} => c \in trees' \/ c \in lost'
    /\ c \in branches /\ committed[c] # {} => c \in branches'

WorkIsKept == [][WorkStays]_git

(* A listed change whose worktree exists is found by the store, wherever   *)
(* the server stopped and whatever failed, as long as no write back of a   *)
(* stale copy intervened (setupWorktree, CreateChangeAt, worktreeRemove).  *)
ListedIsResolved == \A c \in index \cap trees : Resolved(c) \/ clobbered

(* A review is shown as pending only while a close works on it; a stop, a  *)
(* failed update and a stale write back excepted (closeWorktreePipeline).  *)
PendingHasReviewer ==
  \A c \in Changes :
    file[c].review = "pending"
      => \/ clobbered \/ interrupted
         \/ \E p \in Workers : job[p] = c /\ pc[p] \in {"review", "passed", "failed"}

-----------------------------------------------------------------------------
(* What the documentation says of the program                              *)

(* "one entry per change with a worktree" (gitops.WorktreesState): without *)
(* it the store does not find the change.                                  *)
OneEntryPerWorktree == \A c \in index \cap trees : file[c].live

(* "A close attempt that fails after the PR was created reuses that PR on  *)
(* the next attempt" (README.md): no close, alone on its change, asks for  *)
(* a second pull request.                                                  *)
CloseReusesPR ==
  \A p \in Workers :
    At(p, "pr") /\ ~entry[p].pr /\ job[p] \in prs
      => \E q \in Workers \ {p} : job[q] = job[p]
=============================================================================
