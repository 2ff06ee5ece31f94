------------------------------ MODULE DocsQueue ------------------------------
(***************************************************************************)
(* The queue of documentation jobs (internal/server/docsqueue.go) and the  *)
(* part of the gardener it sees (docssession.go, RunDocsJob): closing a    *)
(* change or asking for a refresh enqueues jobs, in chunks; one worker     *)
(* runs them in order; a job that fails leaves its directories flagged     *)
(* stale. Queue and flags are one file, so that they survive a stop.       *)
(*                                                                         *)
(* A directory is a number: their order is the sorted order of the paths.  *)
(***************************************************************************)
EXTENDS Naturals, FiniteSets, Sequences

CONSTANTS
  Dirs,       \* the covered directories
  Above,      \* Above[d]: the covered ancestors of d (coveredAncestors)
  MaxDirs,    \* docsJobMaxDirs
  Clients,    \* goroutines serving requests
  Touched,    \* the sets of directories a closed change may have touched
  Found,      \* those that docs.StaleDirs and the reference lint may report
  None,
  MaxRequests, MaxRestarts   \* bounds of the model

Jobs == [dirs : SUBSET Dirs, ancestors : SUBSET Dirs]

ASSUME QueueAssumption ==
  /\ Dirs \subseteq Nat /\ IsFiniteSet(Dirs)
  /\ Above \in [Dirs -> SUBSET Dirs]
  /\ MaxDirs \in Nat \ {0}
  /\ Touched \subseteq SUBSET Dirs /\ Found \subseteq SUBSET Dirs
  /\ None \notin Jobs
  /\ MaxRequests \in Nat /\ MaxRestarts \in Nat

VARIABLES
  pending,    \* docsQueueState in memory: the queue
  stale,      \* and the flagged directories
  disk,       \* docs-queue.json
  wake,       \* the token in the channel of capacity one
  runner,     \* a gardener is attached
  stopping,   \* stopCh is closed
  pc, job,    \* the worker: its next step, the job it runs
  ask,        \* ask[p]: what request p does next
  batch,      \* batch[p]: the jobs it has still to enqueue
  owed,       \* the directories whose docs a closed change has outdated
  again,      \* those outdated since the running job began
  lost,       \* those whose job a stop cut short
  unsaved,    \* some write of docs-queue.json failed
  requests, restarts

memory == <<pending, stale>>
duties == <<owed, again, lost>>
counters == <<requests, restarts>>
vars == <<memory, disk, wake, runner, stopping, pc, job, ask, batch, duties, unsaved, counters>>

-----------------------------------------------------------------------------
(* Chunks                                                                  *)

Covers(j) == j.dirs \cup j.ancestors
AllCovered(jobs) == UNION {Covers(jobs[i]) : i \in DOMAIN jobs}
Ancestors(S) == UNION {Above[d] : d \in S}

(* chunkDirs: consecutive runs of MaxDirs in sorted order. *)
Rank(S, d) == Cardinality({e \in S : e <= d})
Chunk(S, k) == {d \in S : (Rank(S, d) - 1) \div MaxDirs = k - 1}
NumChunks(S) == (Cardinality(S) + MaxDirs - 1) \div MaxDirs

(* Mutant: an ancestor goes with every chunk below it. *)
ClaimedEverywhere(S, k) == Ancestors(Chunk(S, k)) \ S

(* An ancestor goes with the first chunk below it, and only if the change  *)
(* did not touch it itself.                                                *)
Claimed(S, k) == (Ancestors(Chunk(S, k)) \ S) \ UNION {Ancestors(Chunk(S, i)) : i \in 1..(k - 1)}

CloseJobs(S) == [k \in 1..NumChunks(S) |-> [dirs |-> Chunk(S, k), ancestors |-> Claimed(S, k)]]
ManualJobs(S) == [k \in 1..NumChunks(S) |-> [dirs |-> Chunk(S, k), ancestors |-> {}]]

-----------------------------------------------------------------------------
Init ==
  /\ pending = <<>> /\ stale = {}
  /\ disk = [pending |-> <<>>, stale |-> {}]
  /\ wake = FALSE /\ runner = FALSE /\ stopping = FALSE
  /\ pc = "pop" /\ job = None
  /\ ask = [p \in Clients |-> "idle"]
  /\ batch = [p \in Clients |-> <<>>]
  /\ owed = {} /\ again = {} /\ lost = {}
  /\ unsaved = FALSE
  /\ requests = 0 /\ restarts = 0

(* persistLocked: a failure is only logged. *)
Persist ==
  \/ disk' = [pending |-> pending', stale |-> stale'] /\ UNCHANGED unsaved
  \/ UNCHANGED disk /\ unsaved' = TRUE

-----------------------------------------------------------------------------
(* Requests                                                                *)

(* The end of closeChange: enqueueDocsRefresh. *)
Close(p, S) ==
  /\ ask[p] = "idle" /\ requests < MaxRequests /\ requests' = requests + 1
  /\ S # {}
  /\ batch' = [batch EXCEPT ![p] = CloseJobs(S)]
  /\ ask' = [ask EXCEPT ![p] = "enqueue"]
  /\ owed' = owed \cup S \cup Ancestors(S)
  /\ again' = again \cup S \cup Ancestors(S)
  /\ UNCHANGED <<memory, disk, wake, runner, stopping, pc, job, lost, unsaved, restarts>>

(* POST /docs/refresh: the flagged, and what the two checks of the files    *)
(* find.                                                                   *)
Refresh(p, found) ==
  /\ ask[p] = "idle" /\ requests < MaxRequests /\ requests' = requests + 1
  /\ stale \cup found # {}
  /\ batch' = [batch EXCEPT ![p] = ManualJobs(stale \cup found)]
  /\ ask' = [ask EXCEPT ![p] = "enqueue"]
  /\ UNCHANGED <<memory, disk, wake, runner, stopping, pc, job, duties, unsaved, restarts>>

Enqueue(p) ==
  /\ ask[p] = "enqueue"
  /\ pending' = Append(pending, Head(batch[p])) /\ UNCHANGED stale
  /\ Persist
  /\ batch' = [batch EXCEPT ![p] = Tail(@)]
  /\ ask' = [ask EXCEPT ![p] = "signal"]
  /\ UNCHANGED <<wake, runner, stopping, pc, job, duties, counters>>

(* Mutant: the channel has no room, only a worker that waits gets a token. *)
SignalUnbuffered(p) ==
  /\ ask[p] = "signal"
  /\ wake' = (wake \/ pc = "wait")
  /\ ask' = [ask EXCEPT ![p] = IF batch[p] = <<>> THEN "idle" ELSE "enqueue"]
  /\ UNCHANGED <<memory, disk, runner, stopping, pc, job, batch, duties, unsaved, counters>>

(* The token is sent outside of the lock, and dropped if there is one. *)
Signal(p) ==
  /\ ask[p] = "signal"
  /\ wake' = TRUE
  /\ ask' = [ask EXCEPT ![p] = IF batch[p] = <<>> THEN "idle" ELSE "enqueue"]
  /\ UNCHANGED <<memory, disk, runner, stopping, pc, job, batch, duties, unsaved, counters>>

SetRunner ==
  /\ ~runner /\ runner' = TRUE
  /\ wake' = TRUE
  /\ UNCHANGED <<memory, disk, stopping, pc, job, ask, batch, duties, unsaved, counters>>

-----------------------------------------------------------------------------
(* The worker                                                              *)

Goto(label) ==
  /\ pc' = label
  /\ UNCHANGED <<disk, memory, wake, runner, stopping, job, ask, batch, duties, unsaved, counters>>

(* The job leaves the file before it has run. *)
Pop ==
  /\ pc = "pop" /\ pending # <<>>
  /\ job' = Head(pending) /\ pending' = Tail(pending) /\ UNCHANGED stale
  /\ Persist
  /\ pc' = "fetch"
  /\ again' = {}
  /\ UNCHANGED <<wake, runner, stopping, ask, batch, owed, lost, counters>>

FindEmpty == pc = "pop" /\ pending = <<>> /\ Goto("empty")

(* The lock is released before the worker waits. *)
Wait == pc = "empty" /\ Goto("wait")

(* The select: either of its cases when both are ready. *)
WakeUp ==
  /\ pc = "wait" /\ wake
  /\ wake' = FALSE /\ pc' = "pop"
  /\ UNCHANGED <<memory, disk, runner, stopping, job, ask, batch, duties, unsaved, counters>>

(* Mutant: a stop is noticed when a token wakes the worker. *)
EndOnToken == pc = "wait" /\ stopping /\ wake /\ Goto("off")

(* stopCh is closed and the worker has nothing to run. *)
End == pc = "wait" /\ stopping /\ Goto("off")

Fetch == pc = "fetch" /\ Goto(IF runner THEN "garden" ELSE "fail")

(* RunDocsJob: the skeletons of the whole tree, then the session with its   *)
(* snapshot, verification and restoration, then the skeletons again. Any   *)
(* of them can fail, and the time allowed can run out.                     *)
Garden == pc = "garden" /\ (Goto("clear") \/ Goto("fail"))

Clear ==
  /\ pc = "clear"
  /\ stale' = stale \ Covers(job) /\ UNCHANGED pending
  /\ Persist
  /\ owed' = owed \ (Covers(job) \ again)
  /\ pc' = "pop" /\ job' = None
  /\ UNCHANGED <<wake, runner, stopping, ask, batch, again, lost, counters>>

(* Mutant: only the directories to update are flagged. *)
FailUpdatesOnly ==
  /\ pc = "fail"
  /\ stale' = stale \cup job.dirs /\ UNCHANGED pending
  /\ Persist
  /\ pc' = "pop" /\ job' = None
  /\ UNCHANGED <<wake, runner, stopping, ask, batch, duties, counters>>

Fail ==
  /\ pc = "fail"
  /\ stale' = stale \cup Covers(job) /\ UNCHANGED pending
  /\ Persist
  /\ pc' = "pop" /\ job' = None
  /\ UNCHANGED <<wake, runner, stopping, ask, batch, duties, counters>>

-----------------------------------------------------------------------------
(* The environment                                                         *)

Stop ==
  /\ ~stopping /\ stopping' = TRUE
  /\ UNCHANGED <<memory, disk, wake, runner, pc, job, ask, batch, duties, unsaved, counters>>

Asked(p) == AllCovered(batch[p])
Running == IF job = None THEN {} ELSE Covers(job)

(* The process ends, at any step, and starts again from the file. *)
Restart ==
  /\ restarts < MaxRestarts /\ restarts' = restarts + 1
  /\ pending' = disk.pending /\ stale' = disk.stale
  /\ wake' = FALSE /\ runner' = FALSE /\ stopping' = FALSE
  /\ pc' = "pop" /\ job' = None
  /\ ask' = [p \in Clients |-> "idle"]
  /\ batch' = [p \in Clients |-> <<>>]
  /\ lost' = lost \cup Running \cup UNION {Asked(p) : p \in Clients}
  /\ UNCHANGED <<disk, owed, again, unsaved, requests>>

-----------------------------------------------------------------------------
Worker ==
  \/ Pop \/ FindEmpty \/ Wait \/ WakeUp \/ End
  \/ Fetch \/ Garden \/ Clear \/ Fail

Request(p) == Enqueue(p) \/ Signal(p)

Next ==
  \/ Worker
  \/ \E p \in Clients :
       \/ Request(p)
       \/ \E S \in Touched : Close(p, S)
       \/ \E found \in Found : Refresh(p, found)
  \/ SetRunner
  \/ Stop \/ Restart

Spec == Init /\ [][Next]_vars

(* Goroutines that can take a step are scheduled; a select does not choose *)
(* the token for ever.                                                     *)
Fairness == WF_vars(Worker) /\ WF_vars(End) /\ \A p \in Clients : WF_vars(Request(p))
FairSpec == Spec /\ Fairness

-----------------------------------------------------------------------------
(* Properties                                                              *)

Labels == {"pop", "empty", "wait", "off", "fetch", "garden", "clear", "fail"}

TypeOK ==
  /\ pending \in Seq(Jobs) /\ stale \subseteq Dirs
  /\ disk \in [pending : Seq(Jobs), stale : SUBSET Dirs]
  /\ wake \in BOOLEAN /\ runner \in BOOLEAN /\ stopping \in BOOLEAN
  /\ pc \in Labels /\ job \in Jobs \cup {None}
  /\ (job = None) = (pc \in {"pop", "empty", "wait", "off"})
  /\ ask \in [Clients -> {"idle", "enqueue", "signal"}]
  /\ batch \in [Clients -> Seq(Jobs)]
  /\ \A p \in Clients : ask[p] = "enqueue" => batch[p] # <<>>

(* A directory a closed change has outdated is queued, worked on or        *)
(* flagged, until a job that began after the close has refreshed it; a     *)
(* stop loses the running job and the requests under way, and no other     *)
(* (enqueue, pop, run, failStale, load).                                   *)
Queued == AllCovered(pending) \cup UNION {Asked(p) : p \in Clients}
OutdatedIsAccounted ==
  unsaved \/ (owed \subseteq Queued \cup (Running \ again) \cup stale \cup lost)

(* The worker does not sleep on a job: whenever it waits or is about to,    *)
(* and the queue is not empty, a token is there or about to be sent        *)
(* (start, enqueue).                                                       *)
NoLostWakeup ==
  pc \in {"empty", "wait"} /\ pending # <<>> => wake \/ \E p \in Clients : ask[p] = "signal"

(* "every directory is updated or reviewed exactly once across the         *)
(* change's jobs": no two jobs of a request share one, nor the two lists   *)
(* of a job; that none is left out is OutdatedIsAccounted                  *)
(* (enqueueDocsRefresh, chunkDirs).                                        *)
Disjoint(jobs) ==
  \A i \in DOMAIN jobs :
    /\ jobs[i].dirs \cap jobs[i].ancestors = {}
    /\ \A j \in DOMAIN jobs \ {i} : Covers(jobs[i]) \cap Covers(jobs[j]) = {}

HandledOnce == \A p \in Clients : Disjoint(batch[p])

(* Jobs do not wait for ever, whatever becomes of the earlier ones (start, *)
(* run).                                                                   *)
QueueDrains == pending # <<>> ~> pending = <<>> \/ pc = "off"

(* stop returns: it waits for the worker, which first empties the queue.   *)
StopReturns == stopping ~> pc = "off" \/ ~stopping
=============================================================================
