-------------------------------- MODULE Hub --------------------------------
(***************************************************************************)
(* One process that serves every registered project                        *)
(* (internal/server/hub.go, internal/registry, the wizard of setup.go).    *)
(* The registry file is shared with other hubs; the table of mounted       *)
(* projects is this hub's. A mounted project has a server of its own, with *)
(* its watchers and its docs worker, which must be closed exactly when the *)
(* project leaves the table.                                               *)
(*                                                                         *)
(* Three mutexes: mountMu, which a mount and a landing hold throughout, mu,*)
(* which every access to the table takes for itself, and the one of a      *)
(* wizard, held while it boots.                                            *)
(***************************************************************************)
EXTENDS Naturals, Sequences, FiniteSets

CONSTANTS
  Paths,       \* directories
  Slugs,
  Candidate,   \* Candidate[d]: the slugs tried for d, in order
  Slots,       \* numbers for slot objects
  Procs,       \* goroutines serving requests
  Unreadable,  \* a registry file that cannot be read or parsed
  None,
  MaxCalls, MaxEdits, MaxFaults   \* bounds of the model

(* The registry: at most one directory for a slug (registry.go:28-29).     *)
Configs == [Slugs -> Paths \cup {None}]
Empty == [s \in Slugs |-> None]

ASSUME HubAssumption ==
  /\ Candidate \in [Paths -> Seq(Slugs)]
  /\ Slots \subseteq Nat
  /\ None \notin Paths \cup Slugs \cup Slots \cup Procs
  /\ Unreadable \notin Configs
  /\ MaxCalls \in Nat /\ MaxEdits \in Nat /\ MaxFaults \in Nat

VARIABLES
  registry,   \* config.json
  dirs,       \* dirs[d]: what booting directory d would meet
  slots,      \* slots[s]: the slot mounted at s
  slot,       \* slot[i]: the slot object
  open,       \* the slots whose server runs
  mounter,    \* who holds mountMu
  hub,        \* "starting", "serving" or "closed"
  foreign,    \* what another hub has read and not yet written back
  pc, call,   \* pc[p], call[p]: the step p takes next, its request
  calls, edits, faults,
  \* history:
  doubled,    \* slots that another one replaced while their server ran
  calm,       \* the landings since whose reading nobody else changed anything
  strange     \* slugs whose entry another hub changed, or an add was overtaken by

mounts == <<slots, slot, open>>
files == <<registry, dirs, foreign>>
bounds == <<calls, edits, faults>>
history == <<doubled, calm, strange>>
vars == <<files, mounts, mounter, hub, pc, call, bounds, history>>

Status == {"ready", "setup", "unavailable"}
SlotType == [slug : Slugs \cup {None}, path : Paths \cup {None}, status : Status]
NoSlot == [slug |-> None, path |-> None, status |-> "unavailable"]
Labels == {"idle", "mount", "boot", "place", "heal", "orphans", "close", "answer",
           "unmount", "unregister", "init", "wizard", "swap", "discard"}
Calls == [op : {"none", "start", "look", "add", "remove", "setup"}, slug : Slugs \cup {None},
          path : Paths \cup {None}, slot : Slots \cup {None}, list : Configs,
          todo : SUBSET Slugs]
NoCall == [op |-> "none", slug |-> None, path |-> None, slot |-> None, list |-> Empty, todo |-> {}]

Entries(c) == {s \in Slugs : c[s] # None}

(* NewHub mounts what is registered before it serves.                      *)
Starting(p) == [NoCall EXCEPT !.op = "start", !.list = registry, !.todo = Entries(registry)]
Init ==
  /\ registry \in Configs
  /\ \A s, o \in Entries(registry) : registry[s] = registry[o] => s = o
  /\ dirs \in [Paths -> {"absent", "broken", "fresh", "whole"}]
  /\ slots = [s \in Slugs |-> None] /\ slot = [i \in Slots |-> NoSlot] /\ open = {}
  /\ hub = "starting" /\ foreign = None
  /\ \E p \in Procs :
       /\ mounter = p
       /\ pc = [q \in Procs |-> IF q = p THEN "heal" ELSE "idle"]
       /\ call = [q \in Procs |-> IF q = p THEN Starting(p) ELSE NoCall]
  /\ calls = 0 /\ edits = 0 /\ faults = 0
  /\ doubled = {} /\ calm = {} /\ strange = {}

-----------------------------------------------------------------------------
(* The registry: every operation reads the whole file and writes it back   *)
(* under the registry's own mutex. A file that cannot be read is empty.    *)

Load == IF registry = Unreadable THEN Empty ELSE registry
Registered(s) == Load[s] # None
Free(d) == {n \in 1 .. Len(Candidate[d]) : ~Registered(Candidate[d][n])}
UniqueSlug(d, s) == \E n \in Free(d) : s = Candidate[d][n] /\ \A m \in Free(d) : n <= m
Accepts(d) == dirs[d] # "absent" /\ \A s \in Slugs : Load[s] # d

-----------------------------------------------------------------------------
(* Requests.                                                               *)

At(p, label) == pc[p] = label
Goto(p, label) == pc' = [pc EXCEPT ![p] = label]
Keep(p, k) == call' = [call EXCEPT ![p] = k]
Ends(p) == Goto(p, "idle") /\ Keep(p, NoCall)
Serve(p, label, k) ==
  /\ hub = "serving" /\ At(p, "idle") /\ calls < MaxCalls /\ calls' = calls + 1
  /\ Goto(p, label) /\ Keep(p, k) /\ UNCHANGED <<edits, faults>>
Fault == faults < MaxFaults /\ faults' = faults + 1 /\ UNCHANGED <<calls, edits>>
Disturbs(p) == calm' = calm \cap {p}

(* A slot object nobody refers to any more may be the next one.            *)
Unused(i) == /\ i \notin open /\ \A s \in Slugs : slots[s] # i
             /\ \A q \in Procs : call[q].slot # i
Fresh(i) == Unused(i) /\ \A j \in Slots : Unused(j) => i <= j
StatusOf(s) == IF slots[s] = None THEN "none" ELSE slot[slots[s]].status
Vacant(s) == StatusOf(s) \in {"none", "unavailable"}

(* rows, for the landing page and the list of projects: ensureMounted      *)
(* mounts the entries without a working slot, then unmounts the slots      *)
(* without an entry.                                                       *)
Look(p) ==
  /\ mounter = None /\ mounter' = p
  /\ Serve(p, "heal", [NoCall EXCEPT !.op = "look", !.list = Load, !.todo = Entries(Load)])
  /\ calm' = calm \cup {p}
  /\ UNCHANGED <<files, mounts, hub, doubled, strange>>

SkipMounted(p, s) ==
  /\ At(p, "heal") /\ s \in call[p].todo /\ ~Vacant(s)
  /\ Keep(p, [call[p] EXCEPT !.todo = @ \ {s}])
  /\ UNCHANGED <<files, mounts, mounter, hub, pc, bounds, history>>
Heal(p, s) ==
  /\ At(p, "heal") /\ s \in call[p].todo /\ Vacant(s)
  /\ Keep(p, [call[p] EXCEPT !.todo = @ \ {s}, !.slug = s, !.path = call[p].list[s]])
  /\ Goto(p, "boot")
  /\ UNCHANGED <<files, mounts, mounter, hub, bounds, history>>
Started(p) ==
  /\ At(p, "heal") /\ call[p].op = "start" /\ call[p].todo = {}
  /\ Ends(p) /\ mounter' = None /\ hub' = "serving"
  /\ UNCHANGED <<files, mounts, bounds, history>>
FindOrphans(p) ==
  /\ At(p, "heal") /\ call[p].op = "look" /\ call[p].todo = {}
  /\ Keep(p, [call[p] EXCEPT !.todo = {s \in Slugs : slots[s] # None /\ call[p].list[s] = None}])
  /\ Goto(p, "orphans")
  /\ UNCHANGED <<files, mounts, mounter, hub, bounds, history>>
Healed(p) ==
  /\ At(p, "orphans") /\ call[p].todo = {}
  /\ Goto(p, "answer") /\ mounter' = None
  /\ UNCHANGED <<files, mounts, hub, call, bounds, history>>
Answer(p) ==
  /\ At(p, "answer") /\ Ends(p)
  /\ UNCHANGED <<files, mounts, mounter, hub, bounds, history>>

(* mountLocked: what the directory is decides what the slot becomes; any   *)
(* boot may also fail. The slot replaces whatever is in the table.         *)
Booted(d) ==
  CASE dirs[d] = "whole" -> "ready" [] dirs[d] = "fresh" -> "setup" [] OTHER -> "unavailable"
Boot(p, i) ==
  /\ At(p, "boot") /\ Fresh(i)
  /\ \E st \in Status :
       /\ \/ st = Booted(call[p].path) /\ UNCHANGED bounds
          \/ st = "unavailable" /\ Fault
       /\ slot' = [slot EXCEPT ![i] = [slug |-> call[p].slug, path |-> call[p].path, status |-> st]]
       /\ open' = IF st = "ready" THEN open \cup {i} ELSE open
  /\ Keep(p, [call[p] EXCEPT !.slot = i]) /\ Goto(p, "place")
  /\ UNCHANGED <<files, slots, mounter, hub, history>>
(* While an add waits, its entry may be removed and the slug given to another. *)
Overtaken(p) == {s \in Slugs : call[p].op = "add" /\ s = call[p].slug
                               /\ Load[s] \notin {None, call[p].path}}
Replaced(s) == {i \in open : i = slots[s] /\ slot[i].status = "ready"}

(* Mutant: mountMu is not released. *)
PlaceHolding(p) ==
  /\ At(p, "place")
  /\ slots' = [slots EXCEPT ![call[p].slug] = call[p].slot]
  /\ IF call[p].op = "add" THEN Ends(p) /\ UNCHANGED mounter
     ELSE /\ Keep(p, [call[p] EXCEPT !.slot = None, !.slug = None, !.path = None])
          /\ Goto(p, "heal") /\ UNCHANGED mounter
  /\ doubled' = doubled \cup Replaced(call[p].slug) /\ Disturbs(p)
  /\ strange' = strange \cup Overtaken(p)
  /\ UNCHANGED <<files, slot, open, hub, bounds>>

Place(p) ==
  /\ At(p, "place")
  /\ slots' = [slots EXCEPT ![call[p].slug] = call[p].slot]
  /\ IF call[p].op = "add" THEN Ends(p) /\ mounter' = None
     ELSE /\ Keep(p, [call[p] EXCEPT !.slot = None, !.slug = None, !.path = None])
          /\ Goto(p, "heal") /\ UNCHANGED mounter
  /\ doubled' = doubled \cup Replaced(call[p].slug) /\ Disturbs(p)
  /\ strange' = strange \cup Overtaken(p)
  /\ UNCHANGED <<files, slot, open, hub, bounds>>

(* addProject: registered, then mounted.                                   *)
Add(p, d, s) ==
  /\ Accepts(d) /\ UniqueSlug(d, s)
  /\ registry' = [Load EXCEPT ![s] = d]
  /\ Serve(p, "mount", [NoCall EXCEPT !.op = "add", !.slug = s, !.path = d])
  /\ Disturbs(p)
  /\ UNCHANGED <<dirs, foreign, mounts, mounter, hub, doubled, strange>>
Mount(p) ==
  /\ At(p, "mount") /\ mounter = None /\ mounter' = p /\ Goto(p, "boot")
  /\ UNCHANGED <<files, mounts, hub, call, bounds, history>>

(* removeProject: unmounted, then unregistered, without mountMu. unmount   *)
(* takes the slot out of the table and then closes its server.             *)
Remove(p, s) ==
  /\ Registered(s)
  /\ Serve(p, "unmount", [NoCall EXCEPT !.op = "remove", !.slug = s])
  /\ UNCHANGED <<files, mounts, mounter, hub, history>>
Orphan(p, s) ==
  \/ At(p, "unmount") /\ s = call[p].slug
  \/ At(p, "orphans") /\ s \in call[p].todo

(* Mutant: a slot whose wizard is at work is left to it. *)
UnmountSetup(p, s) ==
  /\ Orphan(p, s)
  /\ Keep(p, [call[p] EXCEPT !.todo = @ \ {s}, !.slot = slots[s]]) /\ Goto(p, "close")
  /\ slots' = IF StatusOf(s) = "setup" THEN slots ELSE [slots EXCEPT ![s] = None]
  /\ Disturbs(p)
  /\ UNCHANGED <<files, slot, open, mounter, hub, bounds, doubled, strange>>

Unmount(p, s) ==
  /\ Orphan(p, s)
  /\ Keep(p, [call[p] EXCEPT !.todo = @ \ {s}, !.slot = slots[s]]) /\ Goto(p, "close")
  /\ slots' = [slots EXCEPT ![s] = None]
  /\ Disturbs(p)
  /\ UNCHANGED <<files, slot, open, mounter, hub, bounds, doubled, strange>>
Close(p) ==
  /\ At(p, "close")
  /\ open' = IF call[p].slot # None /\ slot[call[p].slot].status = "ready"
               THEN open \ {call[p].slot} ELSE open
  /\ Keep(p, [call[p] EXCEPT !.slot = None])
  /\ Goto(p, IF call[p].op = "look" THEN "orphans" ELSE "unregister")
  /\ UNCHANGED <<files, slots, slot, mounter, hub, bounds, history>>
Unregister(p) ==
  /\ At(p, "unregister") /\ Ends(p)
  /\ \/ /\ Registered(call[p].slug) /\ registry' = [Load EXCEPT ![call[p].slug] = None]
        /\ Disturbs(p) /\ UNCHANGED bounds
     \/ ~Registered(call[p].slug) /\ UNCHANGED <<registry, calm, bounds>>
     \/ Fault /\ UNCHANGED <<registry, calm>>
  /\ UNCHANGED <<dirs, foreign, mounts, mounter, hub, doubled, strange>>

-----------------------------------------------------------------------------
(* The wizard of a project without changes/: it initialises the directory, *)
(* then boots the full server, once, and puts it in its slot if that is    *)
(* still in the table.                                                     *)

Setup(p, s) ==
  /\ StatusOf(s) = "setup"
  /\ Serve(p, "init", [NoCall EXCEPT !.op = "setup", !.slot = slots[s]])
  /\ UNCHANGED <<files, mounts, mounter, hub, history>>
InitRepo(p) ==
  /\ At(p, "init")
  /\ LET d == slot[call[p].slot].path IN
       \/ /\ dirs[d] \in {"fresh", "whole"} /\ Goto(p, "wizard")
          /\ dirs' = [dirs EXCEPT ![d] = "whole"] /\ UNCHANGED <<call, bounds>>
       \/ dirs[d] = "broken" /\ Goto(p, "wizard") /\ UNCHANGED <<dirs, call, bounds>>
       \/ dirs[d] = "absent" /\ Ends(p) /\ UNCHANGED <<dirs, bounds>>
       \/ Fault /\ Ends(p) /\ UNCHANGED dirs
  /\ UNCHANGED <<registry, foreign, mounts, mounter, hub, history>>
Wizarding(i) == \E q \in Procs : call[q].slot = i /\ pc[q] \in {"swap", "discard"}

TryBoot(p) ==
  /\ At(p, "wizard") /\ ~Wizarding(call[p].slot)
  /\ slot[call[p].slot].status # "ready" /\ dirs[slot[call[p].slot].path] = "whole"
  /\ open' = open \cup {call[p].slot} /\ Goto(p, "swap")
  /\ UNCHANGED <<files, slots, slot, mounter, hub, call, bounds, history>>
BootRefused(p) ==
  /\ At(p, "wizard") /\ ~Wizarding(call[p].slot)
  /\ \/ (slot[call[p].slot].status = "ready" \/ dirs[slot[call[p].slot].path] # "whole")
          /\ UNCHANGED bounds
     \/ Fault
  /\ Ends(p)
  /\ UNCHANGED <<files, mounts, mounter, hub, history>>
Current(i) == slots[slot[i].slug] = i

(* Mutant: whether the slot is still mounted is not looked at. *)
SwapBlindly(p) ==
  /\ At(p, "swap")
  /\ slot' = [slot EXCEPT ![call[p].slot].status = "ready"] /\ Ends(p)
  /\ UNCHANGED <<files, slots, open, mounter, hub, bounds, history>>

Swap(p) ==
  /\ At(p, "swap")
  /\ IF Current(call[p].slot)
       THEN slot' = [slot EXCEPT ![call[p].slot].status = "ready"] /\ Ends(p)
       ELSE Goto(p, "discard") /\ UNCHANGED <<slot, call>>
  /\ UNCHANGED <<files, slots, open, mounter, hub, bounds, history>>

Discard(p) ==
  /\ At(p, "discard") /\ open' = open \ {call[p].slot} /\ Ends(p)
  /\ UNCHANGED <<files, slots, slot, mounter, hub, bounds, history>>

-----------------------------------------------------------------------------
(* The environment: another hub, or an editor, reads the file and later    *)
(* writes it back with an entry more or less; the file is damaged;         *)
(* directories come and go. The hub stops when its requests have ended.    *)

Edits == edits < MaxEdits /\ edits' = edits + 1 /\ UNCHANGED <<calls, faults>>
OtherReads ==
  /\ foreign = None /\ Edits /\ foreign' = Load
  /\ UNCHANGED <<registry, dirs, mounts, mounter, hub, pc, call, history>>
OtherWrites ==
  /\ foreign # None /\ foreign' = None
  /\ \E s \in Slugs, d \in Paths \cup {None} :
       /\ d # None => \A o \in Slugs : foreign[o] # d
       /\ registry' = [foreign EXCEPT ![s] = d]
  /\ strange' = strange \cup {s \in Slugs : registry'[s] # Load[s]}
  /\ calm' = {}
  /\ UNCHANGED <<dirs, mounts, mounter, hub, pc, call, bounds, doubled>>
Damaged ==
  /\ Edits /\ registry' = Unreadable
  /\ strange' = strange \cup Entries(Load) /\ calm' = {}
  /\ UNCHANGED <<dirs, foreign, mounts, mounter, hub, pc, call, doubled>>
DirChanges(d) ==
  /\ Edits /\ \E st \in {"absent", "broken", "fresh", "whole"} \ {dirs[d]} : dirs' = [dirs EXCEPT ![d] = st]
  /\ UNCHANGED <<registry, foreign, mounts, mounter, hub, pc, call, history>>

CloseHub ==
  /\ hub = "serving" /\ hub' = "closed" /\ \A p \in Procs : At(p, "idle")
  /\ open' = open \ {slots[s] : s \in Slugs} /\ slots' = [s \in Slugs |-> None]
  /\ UNCHANGED <<files, slot, mounter, pc, call, bounds, history>>

Step(p) ==
  \/ Look(p) \/ \E s \in Slugs : SkipMounted(p, s) \/ Heal(p, s)
  \/ Started(p) \/ FindOrphans(p) \/ Healed(p) \/ Answer(p)
  \/ \E i \in Slots : Boot(p, i)
  \/ Place(p)
  \/ \E d \in Paths, s \in Slugs : Add(p, d, s)
  \/ Mount(p)
  \/ \E s \in Slugs : Remove(p, s) \/ Unmount(p, s) \/ Setup(p, s)
  \/ Close(p) \/ Unregister(p)
  \/ InitRepo(p) \/ TryBoot(p) \/ BootRefused(p) \/ Swap(p) \/ Discard(p)
Next ==
  \/ \E p \in Procs : Step(p)
  \/ OtherReads \/ OtherWrites \/ Damaged \/ (\E d \in Paths : DirChanges(d)) \/ CloseHub

Spec == Init /\ [][Next]_vars

-----------------------------------------------------------------------------
TypeOK ==
  /\ registry \in Configs \cup {Unreadable}
  /\ dirs \in [Paths -> {"absent", "broken", "fresh", "whole"}]
  /\ slots \in [Slugs -> Slots \cup {None}] /\ slot \in [Slots -> SlotType] /\ open \subseteq Slots
  /\ mounter \in Procs \cup {None} /\ hub \in {"starting", "serving", "closed"}
  /\ foreign \in Configs \cup {None}
  /\ pc \in [Procs -> Labels] /\ call \in [Procs -> Calls]
  /\ calls \in Nat /\ edits \in Nat /\ faults \in Nat
  /\ doubled \subseteq Slots /\ calm \subseteq Procs /\ strange \subseteq Slugs

(* "so nothing outlives the unmount" (hub.go:183): a running server is in  *)
(* the table, or in the hands of the request that boots or closes it, or   *)
(* another slot replaced its own while it ran.                             *)
OpenIsOwned ==
  \A i \in open :
    \/ i \in doubled \/ Current(i)
    \/ \E p \in Procs : call[p].slot = i /\ pc[p] \in {"place", "close", "swap", "discard"}

(* A slot that is mounted as ready has a server that runs: a wizard whose  *)
(* project was removed, or a removal, never leaves a closed one there.     *)
ReadyIsServed == \A s \in Slugs : StatusOf(s) = "ready" => slots[s] \in open

(* "The registry file is the authority; the in-memory table converges to   *)
(* it" (hub.go:131-132): when a landing that nobody disturbed is answered, *)
(* exactly the registered slugs are mounted, each at its directory, but    *)
(* for those another hub changed, those being added just now, and those    *)
(* where an add was overtaken by a removal and another add.                *)
LookConverges ==
  \A p \in Procs : At(p, "answer") /\ p \in calm =>
    \A s \in Slugs :
      /\ Registered(s) <=> slots[s] # None
      /\ \/ slots[s] = None \/ s \in strange \/ slot[slots[s]].path = Load[s]
         \/ \E q \in Procs : call[q].op = "add" /\ call[q].slug = s

(* The mutexes never leave every request waiting: while one is under way,  *)
(* some request under way can take its next step.                          *)
SomebodyMoves ==
  (\E p \in Procs : ~At(p, "idle")) => \E p \in Procs : ~At(p, "idle") /\ ENABLED Step(p)

(* "so the same entry can never be booted twice" (hub.go:118-119).         *)
NeverBootedTwice == doubled = {}
=============================================================================
