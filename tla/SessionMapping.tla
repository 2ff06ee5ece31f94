--------------------------- MODULE SessionMapping ---------------------------
(***************************************************************************)
(* Which change owns which agent session (internal/server/mapping.go,      *)
(* autosession.go, changesession.go, sessionlifecycle.go and the handlers  *)
(* that open a session). The sessions themselves live in the opencode      *)
(* service; the server keeps sessions.json, the tasks whose session was    *)
(* opened automatically, and, in memory only, what each session scaffolded.*)
(*                                                                         *)
(* A handler is a sequence of calls to opencode and of critical sections   *)
(* on the mapping. Nothing spans them but two mutexes: sessionOps, which a *)
(* scaffold holds, and autoSpawnMu, which a sweep holds.                   *)
(***************************************************************************)
EXTENDS Naturals, FiniteSets

CONSTANTS
  Sessions,    \* session IDs of opencode, those yet to be handed out among them
  Changes,     \* change IDs, those yet to be minted among them
  Tasks,       \* the decomposed tasks of every change
  Procs,       \* goroutines serving requests
  Old,         \* the change there is at first
  Work, Chat,  \* its session, and that of a discussion
  Unassigned,  \* unassignedKey: the bucket of sessions without a change
  None,
  MaxCalls, MaxFaults, MaxRestarts   \* bounds of the model

Owners == Changes \cup {Unassigned}

(* Two entries that differ in nothing but their time of creation are told  *)
(* apart by the goroutine that made them. Titles and kinds are left out.   *)
Rows == [session : Sessions, owner : Owners, task : Tasks \cup {None},
         parent : Sessions \cup {None}, by : Procs \cup {None}]

(* A sweep opens at most three sessions: no change here has more tasks.    *)
ASSUME MappingAssumption ==
  /\ Old \in Changes /\ Work \in Sessions /\ Chat \in Sessions /\ Work # Chat
  /\ Unassigned \notin Changes
  /\ None \notin Sessions \cup Owners \cup Tasks \cup Procs
  /\ IsFiniteSet(Tasks) /\ Cardinality(Tasks) <= 3
  /\ MaxCalls \in Nat /\ MaxFaults \in Nat /\ MaxRestarts \in Nat

VARIABLES
  up,          \* up[s]: what opencode knows of session s
  parent,      \* parent[s]: the session it is a child of
  names,       \* names[s]: the task its title begins with
  rows,        \* the mapping in memory
  disk,        \* sessions.json
  changes,     \* the changes there are
  scaffolded,  \* scaffolded[s]: the change it scaffolded, in memory
  marks,       \* the tasks marked as having had their session, in memory
  marksDisk,   \* autosession.json
  opsHolder,   \* who holds sessionOps
  sweeper,     \* who holds autoSpawnMu
  pc, call,    \* pc[p], call[p]: the step p takes next, the request it serves
  calls, faults, restarts,
  \* history:
  made,        \* the sessions lessmess opened
  adrift,      \* those a stop, a failed compensation or a reviewer's failed add left behind
  released,    \* those a user unlinked or forked from an unmapped session
  stale,       \* those deleted while another request knew them
  cut,         \* those whose deletion was cut short
  minted,      \* minted[s]: the changes it scaffolded since the start
  autos,       \* the sessions opened automatically, with change and task
  lapsed,      \* the tasks whose mark a stop lost
  ahead        \* a merge is in memory only

service == <<up, parent, names>>
mapping == <<rows, disk, ahead>>
markers == <<marks, marksDisk>>
locks == <<opsHolder, sweeper>>
history == <<made, adrift, released, stale, cut, minted, autos, lapsed>>
bounds == <<calls, faults, restarts>>
vars == <<service, mapping, changes, scaffolded, markers, locks, pc, call, bounds, history>>

NoCall == [op |-> "none", owner |-> None, task |-> None, session |-> None,
           seen |-> {}, roots |-> {}, todo |-> {}, bound |-> {}]
Ops == {"none", "open", "commit", "review", "handoff", "auto", "bind", "scaffold", "fork", "reconcile", "delete"}
Labels == {"idle", "spawn", "prime", "mark", "add", "drop", "marked", "node", "listed", "elsewhere",
           "mint", "move", "look", "walk", "select", "merge", "delete", "closure", "cleanup"}
Calls == [op : Ops, owner : Owners \cup {None}, task : Tasks \cup {None}, session : Sessions \cup {None},
          seen : SUBSET Sessions, roots : SUBSET Sessions, todo : SUBSET Tasks, bound : SUBSET Tasks]

Entry(s, o) == [session |-> s, owner |-> o, task |-> None, parent |-> None, by |-> None]
First == {Entry(Work, Old), Entry(Chat, Unassigned)}

Init ==
  /\ up = [s \in Sessions |-> IF s \in {Work, Chat} THEN "live" ELSE "unborn"]
  /\ parent = [s \in Sessions |-> None] /\ names = [s \in Sessions |-> None]
  /\ rows = First /\ disk = First /\ ahead = FALSE
  /\ changes = {Old} /\ scaffolded = [s \in Sessions |-> None]
  /\ marks = {} /\ marksDisk = {}
  /\ opsHolder = None /\ sweeper = None
  /\ pc = [p \in Procs |-> "idle"] /\ call = [p \in Procs |-> NoCall]
  /\ calls = 0 /\ faults = 0 /\ restarts = 0
  /\ made = {Work, Chat} /\ adrift = {} /\ released = {} /\ stale = {} /\ cut = {}
  /\ minted = [s \in Sessions |-> {}] /\ autos = {} /\ lapsed = {}

-----------------------------------------------------------------------------
(* The mapping and the service, as the handlers look at them.              *)

RowsOf(s) == {r \in rows : r.session = s}
Mapped(s) == RowsOf(s) # {}
InBucket(s) == {r \in RowsOf(s) : r.owner = Unassigned}
ChangesOf(s) == {r.owner : r \in RowsOf(s)} \ {Unassigned}
BoundTo(c) == {r \in rows : r.owner = c}

(* What opencode deletes with s: the live sessions of its tree.            *)
IsTree(T, s) == s \in T /\ \A d \in Sessions : parent[d] \in T => d \in T
Tree(s) == {d \in Sessions : up[d] = "live" /\ \A T \in SUBSET Sessions : IsTree(T, s) => d \in T}

(* mappingClosure: what the parents recorded in the mapping connect to s.  *)
Closure(s) == {d \in Sessions : \A T \in SUBSET Sessions :
  (s \in T /\ \A r \in rows : r.parent \in T => r.session \in T) => d \in T}

(* The sessions a reconciliation of change c would add: descendants whose  *)
(* title names a task, reached through sessions the change owns. "entry"   *)
(* is the row the code finds for a mapped session.                         *)
OwnedBy(c, roots, seen, entry) ==
  {d \in Sessions : \A T \in SUBSET Sessions :
    (/\ roots \subseteq T
     /\ \A x \in seen :
          /\ parent[x] \in T
          /\ IF entry[x] = None THEN names[x] # None
             ELSE entry[x].owner = c /\ (entry[x].parent = None \/ entry[x].task # None)
          => x \in T)
    => d \in T}
Claims(c, roots, seen, entry) ==
  {d \in seen : /\ entry[d] = None /\ names[d] # None
                /\ parent[d] \in OwnedBy(c, roots, seen, entry)}
Entries(S) == {f \in [S -> rows \cup {None}] :
  \A s \in S : IF Mapped(s) THEN f[s] \in RowsOf(s) ELSE f[s] = None}

(* mapping.save: the new content is kept and written, or, when the write   *)
(* fails, undone.                                                          *)
Save(new) == rows' = new /\ disk' = new /\ ahead' = FALSE /\ UNCHANGED faults
Fault == faults < MaxFaults /\ faults' = faults + 1
Undo == Fault /\ UNCHANGED mapping

(* autosession.mark: kept in memory even when the write fails.             *)
Mark(c, t) ==
  /\ marks' = marks \cup {<<c, t>>}
  /\ IF <<c, t>> \in marks THEN UNCHANGED <<marksDisk, faults>>
     ELSE \/ marksDisk' = marks' /\ UNCHANGED faults
          \/ Fault /\ UNCHANGED marksDisk

-----------------------------------------------------------------------------
(* Requests.                                                               *)

At(p, label) == pc[p] = label
Goto(p, label) == pc' = [pc EXCEPT ![p] = label] /\ UNCHANGED call
Serve(p, label, request) ==
  /\ At(p, "idle") /\ calls < MaxCalls /\ calls' = calls + 1
  /\ pc' = [pc EXCEPT ![p] = label]
  /\ call' = [call EXCEPT ![p] = request]
  /\ UNCHANGED <<faults, restarts>>

(* A handler returns; the opening of a session by a sweep goes on with the *)
(* next task.                                                              *)
Ends(p) ==
  /\ pc' = [pc EXCEPT ![p] = IF call[p].op = "auto" THEN "node" ELSE "idle"]
  /\ call' = [call EXCEPT ![p] = IF call[p].op = "auto"
                THEN [@ EXCEPT !.session = None, !.task = None] ELSE NoCall]
  /\ opsHolder' = IF opsHolder = p THEN None ELSE opsHolder
  /\ UNCHANGED sweeper

Fresh(s) == up[s] = "unborn"
Deleted(D) == up' = [s \in Sessions |-> IF s \in D THEN "gone" ELSE up[s]]
Aware(p) == {s \in Sessions : \E q \in Procs \ {p} : s \in call[q].seen \cup {call[q].session}}

(* createChangeSession, and those of unassigned sessions: a discussion, a  *)
(* chat, an explorer, a settings discussion. The session is opened and     *)
(* primed, then mapped.                                                    *)
Open(p) ==
  /\ \E c \in changes, t \in Tasks \cup {None} :
       Serve(p, "spawn", [NoCall EXCEPT !.op = "open", !.owner = c, !.task = t])
  /\ UNCHANGED <<service, mapping, changes, scaffolded, markers, locks, history>>
Discuss(p) ==
  /\ Serve(p, "spawn", [NoCall EXCEPT !.op = "open", !.owner = Unassigned])
  /\ UNCHANGED <<service, mapping, changes, scaffolded, markers, locks, history>>

(* commitChange and commitAll map the session before priming it, and keep  *)
(* it when the prime fails.                                                *)
OpenCommit(p) ==
  /\ \E o \in changes \cup {Unassigned} :
       Serve(p, "spawn", [NoCall EXCEPT !.op = "commit", !.owner = o])
  /\ UNCHANGED <<service, mapping, changes, scaffolded, markers, locks, history>>

(* runReviewer: the server itself opens one, for a change being closed.    *)
OpenReview(p) ==
  /\ \E c \in changes : Serve(p, "spawn", [NoCall EXCEPT !.op = "review", !.owner = c])
  /\ UNCHANGED <<service, mapping, changes, scaffolded, markers, locks, history>>

(* spawnChange: a new change, then a session for it.                       *)
Handoff(p) ==
  /\ Serve(p, "mint", [NoCall EXCEPT !.op = "handoff"])
  /\ UNCHANGED <<service, mapping, changes, scaffolded, markers, locks, history>>

Spawn(p, s) ==
  /\ At(p, "spawn") /\ Fresh(s)
  /\ up' = [up EXCEPT ![s] = "live"] /\ made' = made \cup {s}
  /\ call' = [call EXCEPT ![p].session = s]
  /\ pc' = [pc EXCEPT ![p] = IF call[p].op = "commit" THEN "add" ELSE "prime"]
  /\ UNCHANGED <<parent, names, mapping, changes, scaffolded, markers, locks, bounds,
                 adrift, released, stale, cut, minted, autos, lapsed>>
SpawnFails(p) ==
  /\ At(p, "spawn") /\ Fault /\ Ends(p)
  /\ UNCHANGED <<service, mapping, changes, scaffolded, markers, calls, restarts, history>>

Prime(p) ==
  /\ At(p, "prime")
  /\ Goto(p, IF call[p].op = "open" /\ call[p].task # None THEN "mark" ELSE "add")
  /\ UNCHANGED <<service, mapping, changes, scaffolded, markers, locks, bounds, history>>
PrimeFails(p) ==
  /\ At(p, "prime") /\ Fault /\ Goto(p, "drop")
  /\ UNCHANGED <<service, mapping, changes, scaffolded, markers, locks, calls, restarts, history>>

(* A session a user opens for a task satisfies the sweep.                  *)
MarkOpened(p) ==
  /\ At(p, "mark") /\ Mark(call[p].owner, call[p].task) /\ Goto(p, "add")
  /\ UNCHANGED <<service, mapping, changes, scaffolded, locks, calls, restarts, history>>

(* mapping.add, for every request that ends in it.                         *)
RowOf(p) ==
  [session |-> call[p].session, owner |-> call[p].owner, task |-> call[p].task, by |-> p,
   parent |-> IF call[p].op \in {"bind", "fork"} THEN parent[call[p].session] ELSE None]
Add(p) ==
  /\ At(p, "add") /\ Save(rows \cup {RowOf(p)})
  /\ IF call[p].op = "auto"
       THEN /\ Goto(p, "marked")
            /\ autos' = autos \cup {<<call[p].owner, call[p].task, call[p].session>>}
            /\ UNCHANGED locks
       ELSE Ends(p) /\ UNCHANGED autos
  /\ UNCHANGED <<service, changes, scaffolded, markers, calls, restarts,
                 made, adrift, released, stale, cut, minted, lapsed>>

(* Mutant: the session stays. *)
AddFailsKept(p) ==
  /\ At(p, "add") /\ Undo /\ Ends(p)
  /\ UNCHANGED <<service, changes, scaffolded, markers, calls, restarts, history>>

(* A request that opened the session deletes it again. The reviewer goes   *)
(* on without an entry, as it does when sessions.json could not be loaded  *)
(* (mapErr), which stops the other requests before they open anything.     *)
AddFails(p) ==
  /\ At(p, "add") /\ Undo
  /\ IF call[p].op \in {"bind", "scaffold", "review"} THEN Ends(p)
     ELSE Goto(p, "drop") /\ UNCHANGED locks
  /\ adrift' = IF call[p].op = "review" THEN adrift \cup {call[p].session} ELSE adrift
  /\ UNCHANGED <<service, changes, scaffolded, markers, calls, restarts,
                 made, released, stale, cut, minted, autos, lapsed>>
Drop(p) ==
  /\ At(p, "drop") /\ Ends(p)
  /\ Deleted(Tree(call[p].session)) /\ stale' = stale \cup Tree(call[p].session)
  /\ UNCHANGED <<parent, names, mapping, changes, scaffolded, markers, bounds,
                 made, adrift, released, cut, minted, autos, lapsed>>
DropFails(p) ==
  /\ At(p, "drop") /\ Ends(p)
  /\ adrift' = adrift \cup {call[p].session}
  /\ UNCHANGED <<service, mapping, changes, scaffolded, markers, bounds,
                 made, released, stale, cut, minted, autos, lapsed>>

-----------------------------------------------------------------------------
(* Mutant: without TryLock. *)
SweepUnlocked(p) ==
  /\ sweeper' = p
  /\ \E c \in changes :
       Serve(p, "node", [NoCall EXCEPT !.op = "auto", !.owner = c, !.todo = Tasks,
                           !.bound = {r.task : r \in BoundTo(c)} \ {None}])
  /\ UNCHANGED <<service, mapping, changes, scaffolded, markers, opsHolder, history>>

(* autospawnChange: for each decomposed task without a mark, mark it when  *)
(* the change has a session for it, or open one, map it and then mark it.  *)

Sweep(p) ==
  /\ sweeper = None /\ sweeper' = p
  /\ \E c \in changes :
       Serve(p, "node", [NoCall EXCEPT !.op = "auto", !.owner = c, !.todo = Tasks,
                           !.bound = {r.task : r \in BoundTo(c)} \ {None}])
  /\ UNCHANGED <<service, mapping, changes, scaffolded, markers, opsHolder, history>>

Considered(p, t) == call' = [call EXCEPT ![p].todo = @ \ {t}]
Marked(p, t) == <<call[p].owner, t>> \in marks
SkipTask(p, t) ==
  /\ At(p, "node") /\ t \in call[p].todo /\ Marked(p, t)
  /\ Considered(p, t)
  /\ UNCHANGED <<pc, service, mapping, changes, scaffolded, markers, locks, bounds, history>>
MarkBound(p, t) ==
  /\ At(p, "node") /\ t \in call[p].todo /\ ~Marked(p, t) /\ t \in call[p].bound
  /\ Mark(call[p].owner, t) /\ Considered(p, t)
  /\ UNCHANGED <<pc, service, mapping, changes, scaffolded, locks, calls, restarts, history>>
SpawnFor(p, t) ==
  /\ At(p, "node") /\ t \in call[p].todo /\ ~Marked(p, t) /\ t \notin call[p].bound
  /\ pc' = [pc EXCEPT ![p] = "spawn"]
  /\ call' = [call EXCEPT ![p].todo = @ \ {t}, ![p].task = t]
  /\ UNCHANGED <<service, mapping, changes, scaffolded, markers, locks, bounds, history>>
MarkSpawned(p) ==
  /\ At(p, "marked") /\ Mark(call[p].owner, call[p].task) /\ Ends(p)
  /\ UNCHANGED <<service, mapping, changes, scaffolded, calls, restarts, history>>
EndSweep(p) ==
  /\ At(p, "node") /\ call[p].todo = {}
  /\ pc' = [pc EXCEPT ![p] = "idle"] /\ call' = [call EXCEPT ![p] = NoCall]
  /\ sweeper' = None
  /\ UNCHANGED <<service, mapping, changes, scaffolded, markers, opsHolder, bounds, history>>

-----------------------------------------------------------------------------
(* bindTaskSession: is the session alive, is it in the list of the change, *)
(* is it in another change, add it.                                        *)

Bind(p, s) ==
  /\ up[s] = "live"
  /\ \E c \in changes, t \in Tasks :
       Serve(p, "listed", [NoCall EXCEPT !.op = "bind", !.owner = c, !.task = t, !.session = s])
  /\ UNCHANGED <<service, mapping, changes, scaffolded, markers, locks, history>>
CheckList(p) ==
  /\ At(p, "listed")
  /\ IF \E r \in BoundTo(call[p].owner) : r.session = call[p].session
       THEN Ends(p) ELSE Goto(p, "elsewhere") /\ UNCHANGED locks
  /\ UNCHANGED <<service, mapping, changes, scaffolded, markers, bounds, history>>
(* changeOf answers with any of the changes that have it.                  *)
BoundElsewhere(p) ==
  /\ At(p, "elsewhere") /\ ChangesOf(call[p].session) \ {call[p].owner} # {}
  /\ Ends(p)
  /\ UNCHANGED <<service, mapping, changes, scaffolded, markers, bounds, history>>
NotElsewhere(p) ==
  /\ At(p, "elsewhere")
  /\ ChangesOf(call[p].session) = {} \/ call[p].owner \in ChangesOf(call[p].session)
  /\ Goto(p, "add")
  /\ UNCHANGED <<service, mapping, changes, scaffolded, markers, locks, bounds, history>>

(* Mutant: the mapping alone decides. *)
MayScaffoldUnbound(s) == ChangesOf(s) = {}

(* scaffoldChange, under sessionOps, called by the agent of session s.     *)
MayScaffold(s) == ChangesOf(s) = {} /\ scaffolded[s] = None
Scaffold(p, s) ==
  /\ up[s] = "live" /\ opsHolder = None /\ MayScaffold(s)
  /\ opsHolder' = p
  /\ Serve(p, "mint", [NoCall EXCEPT !.op = "scaffold", !.session = s])
  /\ UNCHANGED <<service, mapping, changes, scaffolded, markers, sweeper, history>>

(* createChangeRecord. Only a scaffold remembers the change it made.       *)
Mint(p, c) ==
  /\ At(p, "mint") /\ c \in Changes \ changes /\ changes' = changes \cup {c}
  /\ call' = [call EXCEPT ![p].owner = c]
  /\ IF call[p].op = "scaffold"
       THEN /\ pc' = [pc EXCEPT ![p] = "move"]
            /\ scaffolded' = [scaffolded EXCEPT ![call[p].session] = c]
            /\ minted' = [minted EXCEPT ![call[p].session] = @ \cup {c}]
       ELSE pc' = [pc EXCEPT ![p] = "spawn"] /\ UNCHANGED <<scaffolded, minted>>
  /\ UNCHANGED <<service, mapping, markers, locks, bounds,
                 made, adrift, released, stale, cut, autos, lapsed>>
MintFails(p) ==
  /\ At(p, "mint") /\ Fault /\ Ends(p)
  /\ UNCHANGED <<service, mapping, changes, scaffolded, markers, calls, restarts, history>>

(* Mutant: the move is not undone. *)
MoveFailsKept(p) ==
  /\ At(p, "move") /\ Fault /\ Ends(p)
  /\ \E r \in InBucket(call[p].session) : rows' = (rows \ {r}) \cup {[r EXCEPT !.owner = call[p].owner]}
  /\ UNCHANGED <<disk, ahead, service, changes, scaffolded, markers, calls, restarts, history>>

(* moveToChange, or add when the session is not in the bucket.             *)
Move(p) ==
  /\ At(p, "move")
  /\ \E r \in InBucket(call[p].session) : Save((rows \ {r}) \cup {[r EXCEPT !.owner = call[p].owner]})
  /\ Ends(p)
  /\ UNCHANGED <<service, changes, scaffolded, markers, calls, restarts, history>>
MoveFails(p) ==
  /\ At(p, "move") /\ InBucket(call[p].session) # {} /\ Undo /\ Ends(p)
  /\ UNCHANGED <<service, changes, scaffolded, markers, calls, restarts, history>>
LinkInstead(p) ==
  /\ At(p, "move") /\ InBucket(call[p].session) = {} /\ Goto(p, "add")
  /\ UNCHANGED <<service, mapping, changes, scaffolded, markers, locks, bounds, history>>

-----------------------------------------------------------------------------
(* sessionFork: a child of s, mapped like s when s is mapped. The copy's   *)
(* title may name a task.                                                  *)

Fork(p, s, d) ==
  /\ up[s] = "live" /\ Fresh(d)
  /\ up' = [up EXCEPT ![d] = "live"] /\ parent' = [parent EXCEPT ![d] = s]
  /\ names' = [names EXCEPT ![d] = names[s]] /\ made' = made \cup {d}
  /\ Serve(p, "look", [NoCall EXCEPT !.op = "fork", !.session = d])
  /\ UNCHANGED <<mapping, changes, scaffolded, markers, locks,
                 adrift, released, stale, cut, minted, autos, lapsed>>
Inherit(p) ==
  /\ At(p, "look")
  /\ \E r \in RowsOf(parent[call[p].session]) :
       call' = [call EXCEPT ![p].owner = r.owner, ![p].task = r.task]
  /\ pc' = [pc EXCEPT ![p] = "add"]
  /\ UNCHANGED <<service, mapping, changes, scaffolded, markers, locks, bounds, history>>
ForkOfUnmapped(p) ==
  /\ At(p, "look") /\ ~Mapped(parent[call[p].session]) /\ Ends(p)
  /\ released' = released \cup {call[p].session}
  /\ UNCHANGED <<service, mapping, changes, scaffolded, markers, bounds,
                 made, adrift, stale, cut, minted, autos, lapsed>>

(* reconcileTaskSessions: the change's sessions, then their descendants in *)
(* opencode, then their entries, then addAll, which drops the sessions     *)
(* mapped meanwhile and does not undo a failed save.                       *)
Reconcile(p) ==
  /\ \E c \in {c \in changes : BoundTo(c) # {}} :
       Serve(p, "walk", [NoCall EXCEPT !.op = "reconcile", !.owner = c,
         !.roots = {r.session : r \in {r \in BoundTo(c) : r.parent = None \/ r.task # None}}])
  /\ UNCHANGED <<service, mapping, changes, scaffolded, markers, locks, history>>
Walk(p) ==
  /\ At(p, "walk")
  /\ call' = [call EXCEPT ![p].seen = UNION {Tree(s) : s \in call[p].roots} \ call[p].roots]
  /\ pc' = [pc EXCEPT ![p] = "select"]
  /\ UNCHANGED <<service, mapping, changes, scaffolded, markers, locks, bounds, history>>
Select(p) ==
  /\ At(p, "select")
  /\ pc' = [pc EXCEPT ![p] = "merge"]
  /\ \E entry \in Entries(call[p].seen) :
       call' = [call EXCEPT ![p].seen = Claims(call[p].owner, call[p].roots, @, entry), ![p].roots = {}]
  /\ UNCHANGED <<service, mapping, changes, scaffolded, markers, locks, bounds, history>>
NewRows(p) ==
  {[session |-> s, owner |-> call[p].owner, task |-> names[s], parent |-> parent[s], by |-> p] :
     s \in {s \in call[p].seen : ~Mapped(s)}}
Merge(p) ==
  /\ At(p, "merge")
  /\ \/ NewRows(p) # {} /\ Save(rows \cup NewRows(p))
     \/ NewRows(p) = {} /\ UNCHANGED <<mapping, faults>>
  /\ Ends(p)
  /\ UNCHANGED <<service, changes, scaffolded, markers, calls, restarts, history>>
MergeFails(p) ==
  /\ At(p, "merge") /\ NewRows(p) # {}
  /\ Fault /\ rows' = rows \cup NewRows(p) /\ ahead' = TRUE /\ UNCHANGED disk
  /\ Ends(p)
  /\ UNCHANGED <<service, changes, scaffolded, markers, calls, restarts, history>>

-----------------------------------------------------------------------------
(* unlinkChangeSession and unlinkDiscussion remove one entry, sessionUnlink*)
(* all of them. A failed save undoes the removal, which is no step.        *)

Unlink(s) ==
  /\ calls < MaxCalls /\ calls' = calls + 1
  /\ \/ \E r \in RowsOf(s) : Save(rows \ {r})
     \/ Mapped(s) /\ Save(rows \ RowsOf(s))
  /\ released' = released \cup {s}
  /\ UNCHANGED <<service, changes, scaffolded, markers, locks, pc, call, restarts,
                 made, adrift, stale, cut, minted, autos, lapsed>>

(* sessionDelete: the tree the user confirmed is read again, deleted in    *)
(* opencode and then removed from the mapping. A retry that finds the      *)
(* session gone removes what the mapping itself connects to it.            *)
Delete(p, s) ==
  /\ up[s] \in {"live", "gone"}
  /\ IF up[s] = "live"
       THEN Serve(p, "delete", [NoCall EXCEPT !.op = "delete", !.session = s, !.seen = Tree(s)])
       ELSE Serve(p, "closure", [NoCall EXCEPT !.op = "delete", !.session = s])
  /\ UNCHANGED <<service, mapping, changes, scaffolded, markers, locks, history>>
DeleteTree(p) ==
  /\ At(p, "delete") /\ up[call[p].session] = "live"
  /\ LET D == Tree(call[p].session) IN
       /\ Deleted(D)
       /\ stale' = stale \cup (D \cap Aware(p)) \cup (D \ call[p].seen)
       /\ \/ Goto(p, "cleanup") /\ UNCHANGED <<locks, cut, faults>>
          \/ Ends(p) /\ cut' = cut \cup D /\ Fault   \* the answer is lost
  /\ UNCHANGED <<parent, names, mapping, changes, scaffolded, markers, calls, restarts,
                 made, adrift, released, minted, autos, lapsed>>
DeleteFails(p) ==
  /\ At(p, "delete") /\ Ends(p)
  /\ IF up[call[p].session] = "live" THEN Fault ELSE UNCHANGED faults
  /\ UNCHANGED <<service, mapping, changes, scaffolded, markers, calls, restarts, history>>
FindClosure(p) ==
  /\ At(p, "closure")
  /\ call' = [call EXCEPT ![p].seen = Closure(call[p].session)]
  /\ pc' = [pc EXCEPT ![p] = "cleanup"]
  /\ UNCHANGED <<service, mapping, changes, scaffolded, markers, locks, bounds, history>>

(* Mutant: the descendants keep their entries. *)
DoomedRoot(p) == RowsOf(call[p].session)

Doomed(p) == {r \in rows : r.session \in call[p].seen}
Cleanup(p) ==
  /\ At(p, "cleanup") /\ Ends(p)
  /\ \/ Doomed(p) # {} /\ Save(rows \ Doomed(p))
     \/ Doomed(p) = {} /\ UNCHANGED <<mapping, faults>>
  /\ UNCHANGED <<service, changes, scaffolded, markers, calls, restarts, history>>
CleanupFails(p) ==
  /\ At(p, "cleanup") /\ Doomed(p) # {} /\ Undo /\ Ends(p)
  /\ cut' = cut \cup call[p].seen
  /\ UNCHANGED <<service, changes, scaffolded, markers, calls, restarts,
                 made, adrift, released, stale, minted, autos, lapsed>>

-----------------------------------------------------------------------------
(* The environment: an agent delegates to a child session, whose title may *)
(* name a task; the server stops and starts again.                         *)

Delegate(s, d) ==
  /\ up[s] = "live" /\ Fresh(d)
  /\ calls < MaxCalls /\ calls' = calls + 1
  /\ up' = [up EXCEPT ![d] = "live"] /\ parent' = [parent EXCEPT ![d] = s]
  /\ \E t \in Tasks \cup {None} : names' = [names EXCEPT ![d] = t]
  /\ UNCHANGED <<mapping, changes, scaffolded, markers, locks, pc, call, faults, restarts, history>>

(* The sessions a request has opened and not yet mapped.                   *)
Holding(p) ==
  IF pc[p] \in {"prime", "mark", "add", "drop", "look"} /\ call[p].op \notin {"bind", "scaffold"}
    THEN {call[p].session} ELSE {}
Unmarked == {<<call[p].owner, call[p].task>> : p \in {p \in Procs : At(p, "marked")}}

Restart ==
  /\ restarts < MaxRestarts /\ restarts' = restarts + 1
  /\ rows' = disk /\ ahead' = FALSE /\ marks' = marksDisk
  /\ scaffolded' = [s \in Sessions |-> None] /\ minted' = [s \in Sessions |-> {}]
  /\ opsHolder' = None /\ sweeper' = None
  /\ pc' = [p \in Procs |-> "idle"] /\ call' = [p \in Procs |-> NoCall]
  /\ adrift' = adrift \cup UNION {Holding(p) : p \in Procs}
  /\ cut' = cut \cup UNION {call[p].seen : p \in {p \in Procs : At(p, "cleanup")}}
  /\ lapsed' = lapsed \cup (marks \ marksDisk) \cup Unmarked
  /\ UNCHANGED <<service, disk, changes, marksDisk, calls, faults, made, released, stale, autos>>

Step(p) ==
  \/ Open(p) \/ Discuss(p) \/ OpenCommit(p) \/ OpenReview(p) \/ Handoff(p)
  \/ \E s \in Sessions : Spawn(p, s)
  \/ SpawnFails(p) \/ Prime(p) \/ PrimeFails(p) \/ MarkOpened(p)
  \/ Add(p) \/ AddFails(p) \/ Drop(p) \/ DropFails(p)
  \/ Sweep(p) \/ MarkSpawned(p) \/ EndSweep(p)
  \/ \E t \in Tasks : SkipTask(p, t) \/ MarkBound(p, t) \/ SpawnFor(p, t)
  \/ \E s \in Sessions : Bind(p, s) \/ Scaffold(p, s) \/ Delete(p, s)
  \/ CheckList(p) \/ BoundElsewhere(p) \/ NotElsewhere(p)
  \/ \E c \in Changes : Mint(p, c)
  \/ MintFails(p) \/ Move(p) \/ MoveFails(p) \/ LinkInstead(p)
  \/ \E s, d \in Sessions : Fork(p, s, d)
  \/ Inherit(p) \/ ForkOfUnmapped(p)
  \/ Reconcile(p) \/ Walk(p) \/ Select(p) \/ Merge(p) \/ MergeFails(p)
  \/ DeleteTree(p) \/ DeleteFails(p) \/ FindClosure(p) \/ Cleanup(p) \/ CleanupFails(p)

Next ==
  \/ \E p \in Procs : Step(p)
  \/ \E s \in Sessions : Unlink(s)
  \/ \E s, d \in Sessions : Delegate(s, d)
  \/ Restart

Spec == Init /\ [][Next]_vars

-----------------------------------------------------------------------------
TypeOK ==
  /\ up \in [Sessions -> {"unborn", "live", "gone"}]
  /\ parent \in [Sessions -> Sessions \cup {None}] /\ names \in [Sessions -> Tasks \cup {None}]
  /\ rows \subseteq Rows /\ disk \subseteq Rows /\ ahead \in BOOLEAN
  /\ changes \subseteq Changes /\ scaffolded \in [Sessions -> Changes \cup {None}]
  /\ marks \subseteq Changes \X Tasks /\ marksDisk \subseteq marks
  /\ opsHolder \in Procs \cup {None} /\ sweeper \in Procs \cup {None}
  /\ pc \in [Procs -> Labels] /\ call \in [Procs -> Calls]
  /\ calls \in Nat /\ faults \in Nat /\ restarts \in Nat
  /\ made \subseteq Sessions /\ adrift \subseteq Sessions /\ released \subseteq Sessions
  /\ stale \subseteq Sessions /\ cut \subseteq Sessions
  /\ minted \in [Sessions -> SUBSET Changes]
  /\ autos \subseteq Changes \X Tasks \X Sessions /\ lapsed \subseteq Changes \X Tasks

(* A session lessmess opened for somebody is mapped, deleted, in the hands *)
(* of the request that opened it, or unlinked by a user: "don't leak an    *)
(* unmapped session" (mapping.go:661). A stop leaves one behind, and a     *)
(* compensating delete that itself fails. So does a reviewer's add that    *)
(* fails: the code only logs it (closepipeline.go:172-178).                *)
NothingLeaks ==
  \A s \in made : up[s] = "live" =>
    \/ Mapped(s) \/ s \in released \/ s \in adrift
    \/ \E p \in Procs : s \in Holding(p)

(* A session scaffolds at most one change while the server runs, whatever  *)
(* happens to its entry meanwhile: it may be unlinked, or fail to be moved *)
(* (changesession.go:248-263, server.go:45).                               *)
ScaffoldsOnce == \A s \in Sessions : \A c, d \in minted[s] : c = d

(* A task gets one automatic session, also when that session is unlinked   *)
(* and the sweep comes by again, or two sweeps start together              *)
(* (autosession.go:17-21), unless a stop lost its mark.                    *)
SpawnedOnce ==
  \A a, b \in autos : a[1] = b[1] /\ a[2] = b[2] /\ <<a[1], a[2]>> \notin lapsed => a[3] = b[3]

(* An entry of a deleted session is being removed or waits for the retry   *)
(* of a deletion cut short, unless another request knew the session when   *)
(* it was deleted or it was born during the deletion                       *)
(* (sessionlifecycle.go:837-875).                                          *)
NoGhosts ==
  \A r \in rows : up[r.session] = "gone" =>
    \/ r.session \in stale \cup cut
    \/ \E p \in Procs : At(p, "cleanup") /\ r.session \in call[p].seen

(* sessions.json holds what memory holds, whichever save failed, but for a *)
(* merge of reconciled sessions, which is kept in memory until the next    *)
(* save (mapping.go:98-135, 209-253).                                      *)
MemoryIsSaved == ahead \/ rows = disk
=============================================================================
