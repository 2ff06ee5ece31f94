--------------------------- MODULE WorkflowStore ---------------------------
(***************************************************************************)
(* The lessmess workflow store (internal/store) for one change: its state  *)
(* file on disk, the cache the server answers from, the HTTP calls that    *)
(* mutate it, each in a goroutine of its own, the fsnotify watcher that    *)
(* rescans it, the editors and git operations that write the file behind   *)
(* the server's back. What the events announce is not modelled here.       *)
(*                                                                         *)
(* No lock spans a call. A call reads the state file afresh, applies its   *)
(* mutation, validates, renames the new file over the old one, rescans     *)
(* without a lock and swaps the cache under one, and then re-derives the   *)
(* overall status by a second, equally unlocked, read and write. Each of   *)
(* those is a step here, so calls interleave between them.                 *)
(***************************************************************************)
EXTENDS TaskTree

CONSTANTS
  Clients,       \* goroutines serving mutating HTTP calls
  Watcher,       \* the watcher's goroutine
  None,          \* "no value"
  Unreadable,    \* a state file that does not parse
  Calls,         \* the calls clients may make
  ExternalDocs,  \* what editors and git may leave in the state file
  InitDocs,      \* the state files the server may start on
  PromptReload,  \* TRUE: a call's scan-to-swap takes less than the debounce delay
  MaxCalls, MaxExternal, MaxRestarts   \* bounds of the model

Procs == Clients \cup {Watcher}
Files == Docs \cup {Unreadable}

SyncingOps == {"create", "status", "move"}

ASSUME StoreAssumption ==
  /\ Watcher \notin Clients
  /\ Unreadable \notin Docs
  /\ InitDocs \subseteq Docs
  /\ Calls \subseteq AllCalls
  /\ ExternalDocs \subseteq Files
  /\ None \notin Files
  /\ PromptReload \in BOOLEAN
  /\ MaxCalls \in Nat /\ MaxExternal \in Nat /\ MaxRestarts \in Nat

VARIABLES
  disk,        \* the change's state file
  prose,       \* the task prose files on disk
  containers,  \* the tasks whose container directory exists
  cache,       \* the server's parsed copy of the state file
  pc,          \* pc[p]: the step process p takes next
  call,        \* call[p]: the call client p is serving
  work,        \* work[p]: the document p last read afresh, mutated
  base,        \* base[p]: what p had read when it mutated it (history)
  snap,        \* snap[p]: what p's scan read, or the cached change its sync looks at
  dirty,       \* a filesystem event waits for the watcher's debounce
  excused,     \* a status may have drifted: a start, or a logged sync failure, since the last rescan
  calls, edits, restarts   \* how many calls, external edits and restarts there were

stored == <<disk, prose, containers>>
counters == <<calls, edits, restarts>>
held == <<work, base>>
vars == <<stored, cache, pc, call, held, snap, dirty, excused, counters>>

Labels == {"idle", "read", "save", "scan", "swap",
           "sync", "syncRead", "syncSave", "scan2", "swap2"}

(* A process that ends forgets its call. *)
Goto(p, label) ==
  /\ pc' = [pc EXCEPT ![p] = label]
  /\ call' = IF label = "idle" THEN [call EXCEPT ![p] = None] ELSE call
At(p, label) == pc[p] = label

AllIdle == \A p \in Procs : At(p, "idle")

FilesOf(doc) == IF doc = Unreadable THEN {} ELSE {File(doc.tasks[i]) : i \in DOMAIN doc.tasks}
CachedIds == IF cache = Unreadable THEN {} ELSE Ids(cache)

Init ==
  /\ disk \in InitDocs
  /\ prose = FilesOf(disk)
  /\ containers = {}
  /\ cache = disk
  /\ pc = [p \in Procs |-> "idle"]
  /\ call = [p \in Procs |-> None]
  /\ work = [p \in Procs |-> None] /\ base = [p \in Procs |-> None]
  /\ snap = [p \in Procs |-> None]
  /\ dirty = FALSE
  /\ excused = TRUE
  /\ calls = 0 /\ edits = 0 /\ restarts = 0

-----------------------------------------------------------------------------
(* A client's call                                                         *)

(* What a handler checks before it reads the state file: the caller's      *)
(* identity for Done, the cached tree and the container directory for a    *)
(* subtask, the cached tree for a decomposition and for closing a change,  *)
(* and that a reordering names some task.                                  *)
(* (A worktree-backed close runs WorktreePipeline's steps between this     *)
(* gate and the read, however long they take.)                             *)
Admitted(c) ==
  CASE c.op \in {"status", "move"} -> c.to = "Done" => c.ui
    [] c.op = "create"    -> c.parent = Root \/ (c.parent \in CachedIds /\ c.parent \in containers)
    [] c.op = "decompose" -> c.task \in CachedIds /\ c.task \notin containers
    [] c.op = "reorder"   -> c.ordered # <<>>
    [] c.op = "close"     -> cache # Unreadable => CloseOutReady(cache)
    [] OTHER              -> TRUE

Begin(p, c) ==
  /\ At(p, "idle")
  /\ calls < MaxCalls /\ calls' = calls + 1
  /\ Admitted(c)
  /\ call' = [call EXCEPT ![p] = c]
  /\ IF c.op = "decompose"
     THEN /\ containers' = containers \cup {c.task}
          /\ dirty' = TRUE
          /\ pc' = [pc EXCEPT ![p] = "scan"]
     ELSE /\ pc' = [pc EXCEPT ![p] = "read"]
          /\ UNCHANGED <<containers, dirty>>
  /\ UNCHANGED <<disk, prose, cache, held, snap, excused, edits, restarts>>

(* Mutant: the operation is applied to the cached copy. *)
ReadCached(p) ==
  /\ At(p, "read")
  /\ cache # Unreadable /\ Accepts(call[p], cache)
  /\ work' = [work EXCEPT ![p] = Result(call[p], cache)]
  /\ base' = [base EXCEPT ![p] = disk]
  /\ IF call[p].op = "create"
     THEN /\ prose' = prose \cup {File(NewTask(cache, call[p].parent, call[p].slug))}
          /\ dirty' \in {dirty, TRUE}
     ELSE UNCHANGED <<prose, dirty>>
  /\ Goto(p, "save")
  /\ UNCHANGED <<disk, containers, cache, snap, excused, counters>>

(* Mutant: the task is listed before its prose file is written. *)
ReadWithoutProse(p) ==
  /\ At(p, "read")
  /\ disk # Unreadable /\ Accepts(call[p], disk)
  /\ work' = [work EXCEPT ![p] = Result(call[p], disk)]
  /\ base' = [base EXCEPT ![p] = disk]
  /\ Goto(p, "save")
  /\ UNCHANGED <<stored, cache, snap, dirty, excused, counters>>

(* freshState and the mutation in memory. CreateTask writes the prose file *)
(* before the state that lists it, in a directory that is not watched      *)
(* before the next round when it is new.                                   *)
Read(p) ==
  /\ At(p, "read")
  /\ disk # Unreadable /\ Accepts(call[p], disk)
  /\ work' = [work EXCEPT ![p] = Result(call[p], disk)]
  /\ base' = [base EXCEPT ![p] = disk]
  /\ IF call[p].op = "create"
     THEN /\ prose' = prose \cup {File(NewTask(disk, call[p].parent, call[p].slug))}
          /\ dirty' \in {dirty, TRUE}
     ELSE UNCHANGED <<prose, dirty>>
  /\ Goto(p, "save")
  /\ UNCHANGED <<disk, containers, cache, snap, excused, counters>>

(* The file does not parse, or does not admit the call, or a new task's    *)
(* prose file cannot be written: an error reply.                           *)
Refuse(p) ==
  /\ At(p, "read")
  /\ call[p].op = "create" \/ ~(disk # Unreadable /\ Accepts(call[p], disk))
  /\ Goto(p, "idle")
  /\ UNCHANGED <<stored, cache, held, snap, dirty, excused, counters>>

(* Mutant: the watcher takes the rename for a temporary file's event. *)
SaveUnseen(p) ==
  /\ At(p, "save")
  /\ Valid(work[p])
  /\ disk' = work[p]
  /\ work' = [work EXCEPT ![p] = None] /\ base' = [base EXCEPT ![p] = None]
  /\ Goto(p, "scan")
  /\ UNCHANGED <<prose, containers, cache, snap, dirty, excused, counters>>

(* writeState up to the rename. *)
Save(p) ==
  /\ At(p, "save")
  /\ Valid(work[p])
  /\ disk' = work[p]
  /\ dirty' = TRUE
  /\ work' = [work EXCEPT ![p] = None] /\ base' = [base EXCEPT ![p] = None]
  /\ Goto(p, "scan")
  /\ UNCHANGED <<prose, containers, cache, snap, excused, counters>>

(* Validation or the write itself fails: an error reply, the disk as it was. *)
SaveFails(p) ==
  /\ At(p, "save")
  /\ work' = [work EXCEPT ![p] = None] /\ base' = [base EXCEPT ![p] = None]
  /\ Goto(p, "idle")
  /\ UNCHANGED <<stored, cache, snap, dirty, excused, counters>>

-----------------------------------------------------------------------------
(* Reload: an unlocked scan, then a locked swap. These serve the call's    *)
(* own write and the watcher's round ("scan"), and the write of            *)
(* syncOverall ("scan2").                                                  *)

Scan(p) ==
  /\ \/ At(p, "scan") /\ Goto(p, "swap")
     \/ At(p, "scan2") /\ Goto(p, "swap2")
  /\ snap' = [snap EXCEPT ![p] = disk]
  /\ UNCHANGED <<stored, cache, held, dirty, excused, counters>>

(* Mutant: the watcher reloads and does not converge the statuses. *)
AfterSwapCallsOnly(p) ==
  IF p # Watcher /\ call[p].op \in SyncingOps THEN "sync" ELSE "idle"

(* The watcher's round and the calls on tasks go on to syncOverall. *)
AfterSwap(p) ==
  IF p = Watcher \/ call[p].op \in SyncingOps THEN "sync" ELSE "idle"

Swap(p) ==
  /\ \/ At(p, "swap") /\ Goto(p, AfterSwap(p))
     \/ At(p, "swap2") /\ Goto(p, "idle")
  /\ cache' = snap[p]
  /\ snap' = [snap EXCEPT ![p] = None]
  /\ UNCHANGED <<stored, held, dirty, excused, counters>>

-----------------------------------------------------------------------------
(* syncOverall                                                             *)

(* Mutant: the status is rewritten even when it is the derived one. *)
SyncAlways(p) ==
  /\ At(p, "sync")
  /\ IF ~(cache # Unreadable /\ cache.status.derived)
     THEN /\ Goto(p, "idle")
          /\ UNCHANGED snap
     ELSE /\ Goto(p, "syncRead")
          /\ snap' = [snap EXCEPT ![p] = cache]
  /\ UNCHANGED <<stored, cache, held, dirty, excused, counters>>

(* It looks at the cached change and keeps the pointer. *)
Sync(p) ==
  /\ At(p, "sync")
  /\ IF ~(cache # Unreadable /\ ~Settled(cache))
     THEN /\ Goto(p, "idle")
          /\ UNCHANGED snap
     ELSE /\ Goto(p, "syncRead")
          /\ snap' = [snap EXCEPT ![p] = cache]
  /\ UNCHANGED <<stored, cache, held, dirty, excused, counters>>

(* It re-reads the file, leaves a user-set status alone, and otherwise     *)
(* writes the status derived from the cached tree onto what it read.       *)
SyncRead(p) ==
  /\ At(p, "syncRead")
  /\ IF ~(disk # Unreadable /\ disk.status.derived)
     THEN /\ Goto(p, "idle")
          /\ UNCHANGED held
     ELSE /\ work' = [work EXCEPT ![p] = Converged(disk, snap[p])]
          /\ base' = [base EXCEPT ![p] = disk]
          /\ Goto(p, "syncSave")
  /\ snap' = [snap EXCEPT ![p] = None]
  /\ UNCHANGED <<stored, cache, dirty, excused, counters>>

SyncSave(p) ==
  /\ At(p, "syncSave")
  /\ Valid(work[p])
  /\ disk' = work[p]
  /\ dirty' = TRUE
  /\ work' = [work EXCEPT ![p] = None] /\ base' = [base EXCEPT ![p] = None]
  /\ Goto(p, "scan2")
  /\ UNCHANGED <<prose, containers, cache, snap, excused, counters>>

(* The write is refused or fails; the code logs a warning and goes on.     *)
SyncFails(p) ==
  /\ At(p, "syncSave")
  /\ excused' = TRUE
  /\ work' = [work EXCEPT ![p] = None] /\ base' = [base EXCEPT ![p] = None]
  /\ Goto(p, "idle")
  /\ UNCHANGED <<stored, cache, snap, dirty, counters>>

-----------------------------------------------------------------------------
(* The environment                                                         *)

(* The debounce timer fires 150 ms after the last event. Under             *)
(* PromptReload a scan that began before that event has been swapped in.   *)
Fire ==
  /\ At(Watcher, "idle")
  /\ dirty
  /\ PromptReload => \A p \in Clients : pc[p] \notin {"swap", "swap2"}
  /\ dirty' = FALSE
  /\ excused' = FALSE
  /\ Goto(Watcher, "scan")
  /\ UNCHANGED <<stored, cache, held, snap, counters>>

(* An editor, an agent or git replaces the state file, with the prose      *)
(* files its tasks name.                                                   *)
External(doc) ==
  /\ edits < MaxExternal /\ edits' = edits + 1
  /\ disk' = doc
  /\ prose' = prose \cup FilesOf(doc)
  /\ dirty' = TRUE
  /\ UNCHANGED <<containers, cache, pc, call, held, snap, excused, calls, restarts>>

(* The server stops at any step and is started again: Open reads the file  *)
(* into a new cache, and reloads it (New, SetChangeRoot) once the watcher  *)
(* has started, so no edit falls between the two.                          *)
Restart ==
  /\ restarts < MaxRestarts /\ restarts' = restarts + 1
  /\ pc' = [p \in Procs |-> "idle"]
  /\ call' = [p \in Procs |-> None]
  /\ work' = [p \in Procs |-> None] /\ base' = [p \in Procs |-> None]
  /\ snap' = [p \in Procs |-> None]
  /\ cache' = disk
  /\ dirty' = FALSE
  /\ excused' = TRUE
  /\ UNCHANGED <<stored, calls, edits>>

-----------------------------------------------------------------------------
CallStep(p) == Read(p) \/ Refuse(p) \/ Save(p) \/ SaveFails(p)
ReloadStep(p) == Scan(p) \/ Swap(p)
SyncStep(p) == Sync(p) \/ SyncRead(p) \/ SyncSave(p) \/ SyncFails(p)

Next ==
  \/ \E p \in Clients : (\E c \in Calls : Begin(p, c)) \/ CallStep(p)
  \/ \E p \in Procs : ReloadStep(p) \/ SyncStep(p)
  \/ Fire
  \/ \E doc \in ExternalDocs : External(doc)
  \/ Restart

Spec == Init /\ [][Next]_vars

(* A goroutine that is started runs to its end, and the debounce timer     *)
(* fires. Calls, edits and restarts need never happen.                     *)
Fairness ==
  /\ \A p \in Clients : WF_vars(CallStep(p))
  /\ \A p \in Procs : WF_vars(ReloadStep(p)) /\ WF_vars(SyncStep(p))
  /\ WF_vars(Fire)

FairSpec == Spec /\ Fairness

-----------------------------------------------------------------------------
(* Properties                                                              *)

TypeOK ==
  /\ disk \in Files /\ cache \in Files
  /\ pc \in [Procs -> Labels]
  /\ call \in [Procs -> Calls \cup {None}]
  /\ snap \in [Procs -> Files \cup {None}]
  /\ containers \subseteq TaskIds
  /\ dirty \in BOOLEAN /\ excused \in BOOLEAN
  /\ calls \in Nat /\ edits \in Nat /\ restarts \in Nat

Resting == AllIdle /\ ~dirty

(* However calls, external edits and rescans interleave, once nothing runs *)
(* and no filesystem event waits, the server answers from exactly what is  *)
(* on disk: a stale scan swapped in late has been followed by a rescan     *)
(* (Store.Reload, Store.Watch).                                            *)
CacheFollowsDisk == Resting => cache = disk

(* At rest a derived overall status is the one its task tree derives, even *)
(* after a sync that combined a stale cached tree with a fresh file; the   *)
(* exceptions are a start and a sync failure that was logged               *)
(* (syncOverall, SyncOverallStatuses).                                     *)
StatusFollowsTasks ==
  Resting /\ ~excused /\ disk # Unreadable => Settled(disk)

(* What makes the two properties above inductive: whatever is stale has    *)
(* somebody left to notice it. A scan that has gone stale before its swap, *)
(* and a cache that lags the disk, wait for a round of the watcher; so     *)
(* does a derived status that no longer fits, unless its sync was excused  *)
(* (Store.Reload, Store.Watch, syncOverall).                               *)
InSwap(p) == pc[p] \in {"swap", "swap2"}
StaleScanPending == \A p \in Procs : InSwap(p) /\ snap[p] # disk => dirty
StaleCachePending == cache # disk => dirty \/ pc[Watcher] \in {"scan", "swap"}
DriftPending ==
  disk # Unreadable /\ ~Settled(disk)
    => \/ dirty \/ excused
       \/ pc[Watcher] \in {"scan", "swap", "sync", "syncRead", "syncSave"}
StalenessPending == StaleScanPending /\ StaleCachePending /\ DriftPending

(* CreateTask writes the prose file before the state that lists it, so no  *)
(* restart between the two and no lost write leaves a listed task without  *)
(* its file.                                                               *)
ListedTasksHaveProse == FilesOf(disk) \subseteq prose

(* The watcher's rounds write the file they watch, and so wake themselves: *)
(* still the store always comes to rest.                                   *)
ComesToRest == <>[]Resting

(* However calls, rescans, edits and restarts overlap, the state file goes *)
(* through whole operations, each applied to what its call has read of the *)
(* file itself, never to the cached copy, and a sync touches nothing but   *)
(* the overall status. So what a call overwrites, it has read, except what *)
(* was written between its read and its rename (freshState, writeState,    *)
(* syncOverall).                                                           *)
Atomic == INSTANCE AtomicStore WITH Writers <- Procs, disk <- disk, base <- base,
  Accepts <- Accepts, Result <- Result, Valid <- Valid, Derivable <- DerivableStatuses
AppliesToFreshRead == Atomic!Spec

-----------------------------------------------------------------------------
(* What the documentation says of the program                              *)

(* "External edits are therefore never clobbered: mutations apply on top   *)
(* of the latest on-disk state" (writeState): what a write replaces is     *)
(* what it was computed from.                                              *)
ClobbersNothing ==
  [][\A p \in Procs : (At(p, "save") \/ At(p, "syncSave")) /\ disk' # disk /\ pc'[p] # pc[p]
                       => base[p] = disk]_vars

(* "A task added to a closed change reopens it implicitly" (CreateTask):   *)
(* at rest a change that is Done has no unfinished task.                   *)
ClosedMeansFinished ==
  Resting /\ ~excused /\ disk # Unreadable
    => (disk.status.value = "Done" => CloseOutReady(disk))
=============================================================================
