----------------------------- MODULE HubProofs -----------------------------
(***************************************************************************)
(* Theorems about Hub, for any directories, slugs, slots, goroutines and   *)
(* bounds.                                                                 *)
(***************************************************************************)
EXTENDS Hub, TLAPS

-----------------------------------------------------------------------------
(* Types                                                                   *)

CallTypes == pc \in [Procs -> Labels] /\ call \in [Procs -> Calls]
FileTypes ==
  /\ registry \in Configs \cup {Unreadable} /\ foreign \in Configs \cup {None}
  /\ dirs \in [Paths -> {"absent", "broken", "fresh", "whole"}]
TableTypes ==
  /\ slots \in [Slugs -> Slots \cup {None}] /\ slot \in [Slots -> SlotType] /\ open \subseteq Slots
  /\ hub \in {"starting", "serving", "closed"}
BoundTypes == calls \in Nat /\ edits \in Nat /\ faults \in Nat
HistoryTypes == doubled \subseteq Slots /\ calm \subseteq Procs /\ strange \subseteq Slugs

(* What a request knows at each label.                                     *)
Knows(l, k) ==
  /\ l = "idle" => k.slot = None /\ k.op = "none"
  /\ l \in {"mount", "boot", "place", "unmount", "unregister"} => k.slug \in Slugs
  /\ l = "mount" => k.op = "add"
  /\ l \in {"boot", "place"} => k.op \in {"add", "look", "start"}
  /\ l \in {"boot", "place"} /\ k.op # "add" => k.path = k.list[k.slug] /\ k.path # None
  /\ l = "heal" => k.op \in {"look", "start"}
  /\ l \in {"heal", "boot", "place"} /\ k.op # "add" => k.todo \subseteq Entries(k.list)
  /\ l \in {"orphans", "answer"} => k.op = "look"
  /\ l \in {"unmount", "unregister"} => k.op = "remove"
  /\ l = "close" => k.op \in {"look", "remove"}
  /\ k.op = "remove" => k.slug \in Slugs
  /\ l \in {"init", "wizard", "swap", "discard"} => k.op = "setup"
  /\ l \in {"place", "init", "wizard", "swap", "discard"} => k.slot \in Slots
  /\ l \in {"mount", "boot", "heal", "orphans", "answer", "unmount", "unregister"} => k.slot = None

(* Who is in the section of mountMu holds it.                              *)
Section(l, k) == l \in {"heal", "boot", "place", "orphans"} \/ (l = "close" /\ k.op = "look")
Mutex == \A p \in Procs : Section(pc[p], call[p]) => mounter = p

Control ==
  /\ mounter \in Procs \cup {None}
  /\ \A p \in Procs : Knows(pc[p], call[p])
  /\ Mutex
TypeInv == TypeOK /\ Control

LEMMA NoCallType ==
  /\ NoCall \in Calls /\ Empty \in Configs
  /\ NoCall = [op |-> "none", slug |-> None, path |-> None, slot |-> None, list |-> Empty, todo |-> {}]
BY DEF NoCall, Calls, Configs, Empty

(* A step of one request, to label l with knowledge k, that keeps, takes   *)
(* or releases mountMu.                                                    *)
Moves(p, l, k) == pc' = [pc EXCEPT ![p] = l] /\ call' = [call EXCEPT ![p] = k]
KeepsMutex(p, l, k) ==
  \/ mounter' = mounter /\ (Section(l, k) => Section(pc[p], call[p]))
  \/ mounter = None /\ mounter' = p
  \/ mounter' = None /\ ~Section(l, k) /\ Section(pc[p], call[p])

LEMMA StepControl ==
  ASSUME NEW p \in Procs, NEW l \in Labels, NEW k \in Calls, CallTypes, Control,
         Moves(p, l, k), Knows(l, k), KeepsMutex(p, l, k)
  PROVE  CallTypes' /\ Control'
<1>1. CallTypes'
  BY DEF CallTypes, Moves
<1>2. \A q \in Procs : pc'[q] = (IF q = p THEN l ELSE pc[q]) /\ call'[q] = (IF q = p THEN k ELSE call[q])
  BY DEF CallTypes, Moves
<1>3. \A q \in Procs : Knows(pc'[q], call'[q])
  BY <1>2 DEF Control
<1>4. None \notin Procs
  BY HubAssumption
<1>5. \A q \in Procs : Section(pc'[q], call'[q]) => mounter' = q
  BY <1>2, <1>4 DEF Control, Mutex, KeepsMutex
<1>6. mounter' \in Procs \cup {None}
  BY DEF Control, KeepsMutex
<1> QED
  BY <1>1, <1>3, <1>5, <1>6 DEF Control, Mutex

LEMMA LoadType ==
  ASSUME registry \in Configs \cup {Unreadable}
  PROVE  Load \in Configs
BY NoCallType DEF Load

(* Steps that only move on keep what the request knows; ending forgets it. *)
LEMMA StayMoves ==
  ASSUME NEW p \in Procs, NEW l \in Labels, CallTypes, Goto(p, l), UNCHANGED call
  PROVE  Moves(p, l, call[p]) /\ call[p] \in Calls
BY DEF CallTypes, Goto, Moves

LEMMA KeepMoves ==
  ASSUME NEW p \in Procs, NEW k, CallTypes, Keep(p, k), UNCHANGED pc
  PROVE  Moves(p, pc[p], k) /\ pc[p] \in Labels
BY DEF CallTypes, Keep, Moves

LEMMA EndsControl ==
  ASSUME NEW p \in Procs, CallTypes, Control, Ends(p),
         \/ UNCHANGED mounter
         \/ mounter' = None /\ Section(pc[p], call[p])
  PROVE  CallTypes' /\ Control'
<1>1. Moves(p, "idle", NoCall) /\ "idle" \in Labels /\ NoCall \in Calls
  BY NoCallType DEF Ends, Goto, Keep, Moves, Labels
<1>2. Knows("idle", NoCall)
  BY NoCallType, HubAssumption DEF Knows
<1>3. KeepsMutex(p, "idle", NoCall)
  BY NoCallType DEF KeepsMutex, Section
<1> QED
  BY <1>1, <1>2, <1>3, StepControl

(* A step that leaves processes alone. *)
LEMMA FrameControl ==
  ASSUME CallTypes, Control, UNCHANGED <<pc, call, mounter>>
  PROVE  CallTypes' /\ Control'
BY DEF CallTypes, Control, Mutex

LEMMA ServeMoves ==
  ASSUME NEW p \in Procs, NEW l, NEW k, Serve(p, l, k), BoundTypes
  PROVE  Moves(p, l, k) /\ BoundTypes' /\ At(p, "idle") /\ hub = "serving"
BY DEF Serve, Goto, Keep, Moves, BoundTypes

LEMMA FaultType ==
  ASSUME BoundTypes, Fault
  PROVE  BoundTypes'
BY DEF Fault, BoundTypes

LEMMA EditsType ==
  ASSUME BoundTypes, Edits
  PROVE  BoundTypes'
BY DEF Edits, BoundTypes

LEMMA TypeInit == Init => TypeInv
<1> SUFFICES ASSUME Init PROVE TypeInv
  OBVIOUS
<1> USE DEF Init
<1>1. PICK p \in Procs :
        /\ mounter = p
        /\ pc = [q \in Procs |-> IF q = p THEN "heal" ELSE "idle"]
        /\ call = [q \in Procs |-> IF q = p THEN Starting(p) ELSE NoCall]
  OBVIOUS
<1>2. Starting(p) \in Calls /\ Knows("heal", Starting(p))
  BY NoCallType, HubAssumption DEF Starting, Calls, Configs, Entries, Knows
<1>3. Knows("idle", NoCall)
  BY NoCallType DEF Knows
<1>4. CallTypes
  BY <1>1, <1>2, NoCallType DEF CallTypes, Labels
<1>5. \A q \in Procs : Knows(pc[q], call[q])
  BY <1>1, <1>2, <1>3
<1>6. Mutex
  BY <1>1, NoCallType DEF Mutex, Section
<1>7. NoSlot \in SlotType
  BY DEF NoSlot, SlotType, Status
<1> QED
  BY <1>1, <1>4, <1>5, <1>6, <1>7 DEF TypeInv, TypeOK, Control, CallTypes

(* What a slug is mounted to. *)
LEMMA MountedSlot ==
  ASSUME TableTypes, NEW s \in Slugs, slots[s] # None
  PROVE  slots[s] \in Slots /\ slot[slots[s]] \in SlotType /\ StatusOf(s) = slot[slots[s]].status
BY DEF TableTypes, StatusOf

LEMMA TypeStep == TypeInv /\ [Next]_vars => TypeInv'
<1> SUFFICES ASSUME TypeInv, [Next]_vars PROVE TypeInv'
  OBVIOUS
<1>0. CallTypes /\ Control /\ FileTypes /\ TableTypes /\ BoundTypes /\ HistoryTypes
  BY DEF TypeInv, TypeOK, CallTypes, FileTypes, TableTypes, BoundTypes, HistoryTypes
<1>q. SUFFICES CallTypes' /\ Control' /\ FileTypes' /\ TableTypes' /\ BoundTypes' /\ HistoryTypes'
  BY DEF TypeInv, TypeOK, CallTypes, FileTypes, TableTypes, BoundTypes, HistoryTypes, Control
<1>k. \A p \in Procs : call[p] \in Calls /\ pc[p] \in Labels /\ Knows(pc[p], call[p])
  BY <1>0 DEF CallTypes, Control
<1>l. Load \in Configs
  BY <1>0, LoadType DEF FileTypes
<1> USE DEF At
<1>1. ASSUME NEW p \in Procs, Look(p)
      PROVE  CallTypes' /\ Control' /\ FileTypes' /\ TableTypes' /\ BoundTypes' /\ HistoryTypes'
  <2> DEFINE k == [NoCall EXCEPT !.op = "look", !.list = Load, !.todo = Entries(Load)]
  <2>1. Moves(p, "heal", k) /\ BoundTypes'
    BY <1>0, <1>1, ServeMoves DEF Look
  <2>2. k \in Calls /\ Knows("heal", k) /\ "heal" \in Labels
    BY <1>l, NoCallType DEF Calls, Knows, Entries, Labels
  <2>3. KeepsMutex(p, "heal", k)
    BY <1>1 DEF Look, KeepsMutex
  <2>4. CallTypes' /\ Control'
    BY <1>0, <2>1, <2>2, <2>3, StepControl
  <2> QED
    BY <1>0, <1>1, <2>1, <2>4 DEF Look, files, mounts, FileTypes, TableTypes, HistoryTypes
<1>2. ASSUME NEW p \in Procs, NEW s \in Slugs, SkipMounted(p, s)
      PROVE  CallTypes' /\ Control' /\ FileTypes' /\ TableTypes' /\ BoundTypes' /\ HistoryTypes'
  <2> DEFINE k == [call[p] EXCEPT !.todo = @ \ {s}]
  <2>1. Moves(p, "heal", k)
    BY <1>0, <1>2, KeepMoves DEF SkipMounted
  <2>2. k \in Calls /\ Knows("heal", k) /\ "heal" \in Labels
    BY <1>k, <1>2 DEF SkipMounted, Calls, Knows, Labels
  <2>3. KeepsMutex(p, "heal", k)
    BY <1>2 DEF SkipMounted, KeepsMutex, Section
  <2>4. CallTypes' /\ Control'
    BY <1>0, <2>1, <2>2, <2>3, StepControl
  <2> QED
    BY <1>0, <1>2, <2>4 DEF SkipMounted, files, mounts, bounds, history, FileTypes, TableTypes, BoundTypes, HistoryTypes
<1>3. ASSUME NEW p \in Procs, NEW s \in Slugs, Heal(p, s)
      PROVE  CallTypes' /\ Control' /\ FileTypes' /\ TableTypes' /\ BoundTypes' /\ HistoryTypes'
  <2> DEFINE k == [call[p] EXCEPT !.todo = @ \ {s}, !.slug = s, !.path = call[p].list[s]]
  <2>1. Moves(p, "boot", k)
    BY <1>3 DEF Heal, Goto, Keep, Moves
  <2>2. k \in Calls /\ Knows("boot", k) /\ "boot" \in Labels
    BY <1>k, <1>3 DEF Heal, Calls, Configs, Entries, Knows, Labels
  <2>3. KeepsMutex(p, "boot", k)
    BY <1>3 DEF Heal, KeepsMutex, Section
  <2>4. CallTypes' /\ Control'
    BY <1>0, <2>1, <2>2, <2>3, StepControl
  <2> QED
    BY <1>0, <1>3, <2>4 DEF Heal, files, mounts, bounds, history, FileTypes, TableTypes, BoundTypes, HistoryTypes
<1>4. ASSUME NEW p \in Procs, Started(p)
      PROVE  CallTypes' /\ Control' /\ FileTypes' /\ TableTypes' /\ BoundTypes' /\ HistoryTypes'
  <2>1. Ends(p) /\ mounter' = None /\ Section(pc[p], call[p])
    BY <1>4 DEF Started, Section
  <2>2. CallTypes' /\ Control'
    BY <1>0, <2>1, EndsControl
  <2> QED
    BY <1>0, <1>4, <2>2 DEF Started, files, mounts, bounds, history, FileTypes, TableTypes, BoundTypes, HistoryTypes
<1>5. ASSUME NEW p \in Procs, FindOrphans(p)
      PROVE  CallTypes' /\ Control' /\ FileTypes' /\ TableTypes' /\ BoundTypes' /\ HistoryTypes'
  <2> DEFINE k == [call[p] EXCEPT !.todo = {s \in Slugs : slots[s] # None /\ call[p].list[s] = None}]
  <2>1. Moves(p, "orphans", k)
    BY <1>5 DEF FindOrphans, Goto, Keep, Moves
  <2>2. k \in Calls /\ Knows("orphans", k) /\ "orphans" \in Labels
    BY <1>k, <1>5 DEF FindOrphans, Calls, Knows, Labels
  <2>3. KeepsMutex(p, "orphans", k)
    BY <1>5 DEF FindOrphans, KeepsMutex, Section
  <2>4. CallTypes' /\ Control'
    BY <1>0, <2>1, <2>2, <2>3, StepControl
  <2> QED
    BY <1>0, <1>5, <2>4 DEF FindOrphans, files, mounts, bounds, history, FileTypes, TableTypes, BoundTypes, HistoryTypes
<1>6. ASSUME NEW p \in Procs, Healed(p)
      PROVE  CallTypes' /\ Control' /\ FileTypes' /\ TableTypes' /\ BoundTypes' /\ HistoryTypes'
  <2>1. Moves(p, "answer", call[p]) /\ "answer" \in Labels
    BY <1>0, <1>6, StayMoves DEF Healed, Labels
  <2>2. Knows("answer", call[p]) /\ KeepsMutex(p, "answer", call[p])
    BY <1>k, <1>6 DEF Healed, Knows, KeepsMutex, Section
  <2>3. CallTypes' /\ Control'
    BY <1>0, <1>k, <2>1, <2>2, StepControl
  <2> QED
    BY <1>0, <1>6, <2>3 DEF Healed, files, mounts, bounds, history, FileTypes, TableTypes, BoundTypes, HistoryTypes
<1>7. ASSUME NEW p \in Procs, Answer(p)
      PROVE  CallTypes' /\ Control' /\ FileTypes' /\ TableTypes' /\ BoundTypes' /\ HistoryTypes'
  <2>1. CallTypes' /\ Control'
    BY <1>0, <1>7, EndsControl DEF Answer
  <2> QED
    BY <1>0, <1>7, <2>1 DEF Answer, files, mounts, bounds, history, FileTypes, TableTypes, BoundTypes, HistoryTypes
<1>8. ASSUME NEW p \in Procs, NEW i \in Slots, Boot(p, i)
      PROVE  CallTypes' /\ Control' /\ FileTypes' /\ TableTypes' /\ BoundTypes' /\ HistoryTypes'
  <2> DEFINE k == [call[p] EXCEPT !.slot = i]
  <2>1. Moves(p, "place", k)
    BY <1>8 DEF Boot, Goto, Keep, Moves
  <2>2. k \in Calls /\ Knows("place", k) /\ "place" \in Labels
    BY <1>k, <1>8 DEF Boot, Calls, Knows, Labels
  <2>3. KeepsMutex(p, "place", k)
    BY <1>8 DEF Boot, KeepsMutex, Section
  <2>4. CallTypes' /\ Control'
    BY <1>0, <2>1, <2>2, <2>3, StepControl
  <2>5. PICK st \in Status :
          /\ UNCHANGED bounds \/ Fault
          /\ slot' = [slot EXCEPT ![i] = [slug |-> call[p].slug, path |-> call[p].path, status |-> st]]
          /\ open' = IF st = "ready" THEN open \cup {i} ELSE open
    BY <1>8 DEF Boot
  <2>6. BoundTypes'
    BY <1>0, <2>5, FaultType DEF bounds, BoundTypes
  <2>7. [slug |-> call[p].slug, path |-> call[p].path, status |-> st] \in SlotType
    BY <1>k DEF SlotType, Calls
  <2>8. slot' \in [Slots -> SlotType] /\ open' \subseteq Slots
    BY <1>0, <2>5, <2>7 DEF TableTypes
  <2> QED
    BY <1>0, <1>8, <2>4, <2>6, <2>8 DEF Boot, files, history, FileTypes, TableTypes, HistoryTypes
<1>9. ASSUME NEW p \in Procs, Place(p)
      PROVE  CallTypes' /\ Control' /\ FileTypes' /\ TableTypes' /\ BoundTypes' /\ HistoryTypes'
  <2> DEFINE k == [call[p] EXCEPT !.slot = None, !.slug = None, !.path = None]
  <2>1. ASSUME call[p].op = "add" PROVE CallTypes' /\ Control'
    <3>1. Ends(p) /\ mounter' = None /\ Section(pc[p], call[p])
      BY <1>9, <2>1 DEF Place, Section
    <3> QED
      BY <1>0, <3>1, EndsControl
  <2>2. ASSUME call[p].op # "add" PROVE CallTypes' /\ Control'
    <3>1. Moves(p, "heal", k)
      BY <1>9, <2>2 DEF Place, Goto, Keep, Moves
    <3>2. k \in Calls /\ Knows("heal", k) /\ "heal" \in Labels
      BY <1>k, <1>9, <2>2 DEF Place, Calls, Knows, Labels
    <3>3. KeepsMutex(p, "heal", k)
      BY <1>9, <2>2 DEF Place, KeepsMutex, Section
    <3> QED
      BY <1>0, <3>1, <3>2, <3>3, StepControl
  <2>3. CallTypes' /\ Control'
    BY <2>1, <2>2
  <2>4. slots' \in [Slugs -> Slots \cup {None}]
    BY <1>0, <1>9, <1>k DEF Place, TableTypes, Calls
  <2>5. HistoryTypes'
    BY <1>0, <1>9 DEF Place, HistoryTypes, Replaced, Overtaken, Disturbs, TableTypes
  <2> QED
    BY <1>0, <1>9, <2>3, <2>4, <2>5 DEF Place, files, bounds, FileTypes, TableTypes, BoundTypes
<1>10. ASSUME NEW p \in Procs, NEW d \in Paths, NEW s \in Slugs, Add(p, d, s)
      PROVE  CallTypes' /\ Control' /\ FileTypes' /\ TableTypes' /\ BoundTypes' /\ HistoryTypes'
  <2> DEFINE k == [NoCall EXCEPT !.op = "add", !.slug = s, !.path = d]
  <2>1. Moves(p, "mount", k) /\ BoundTypes'
    BY <1>0, <1>10, ServeMoves DEF Add
  <2>2. k \in Calls /\ Knows("mount", k) /\ "mount" \in Labels
    BY <1>0, <1>l, <1>10, NoCallType DEF Add, Calls, Knows, Labels
  <2>3. KeepsMutex(p, "mount", k)
    BY <1>10 DEF Add, KeepsMutex, Section
  <2>4. CallTypes' /\ Control'
    BY <1>0, <2>1, <2>2, <2>3, StepControl
  <2> QED
    BY <1>0, <1>l, <1>10, <2>1, <2>4 DEF Add, files, mounts, history, FileTypes, TableTypes, HistoryTypes, Configs, Disturbs
<1>11. ASSUME NEW p \in Procs, Mount(p)
      PROVE  CallTypes' /\ Control' /\ FileTypes' /\ TableTypes' /\ BoundTypes' /\ HistoryTypes'
  <2>1. Moves(p, "boot", call[p]) /\ "boot" \in Labels
    BY <1>0, <1>11, StayMoves DEF Mount, Labels
  <2>2. Knows("boot", call[p]) /\ KeepsMutex(p, "boot", call[p])
    BY <1>k, <1>11 DEF Mount, Knows, KeepsMutex
  <2>3. CallTypes' /\ Control'
    BY <1>0, <1>k, <2>1, <2>2, StepControl
  <2> QED
    BY <1>0, <1>11, <2>3 DEF Mount, files, mounts, bounds, history, FileTypes, TableTypes, BoundTypes, HistoryTypes
<1>12. ASSUME NEW p \in Procs, NEW s \in Slugs, Remove(p, s)
      PROVE  CallTypes' /\ Control' /\ FileTypes' /\ TableTypes' /\ BoundTypes' /\ HistoryTypes'
  <2> DEFINE k == [NoCall EXCEPT !.op = "remove", !.slug = s]
  <2>1. Moves(p, "unmount", k) /\ BoundTypes'
    BY <1>0, <1>12, ServeMoves DEF Remove
  <2>2. k \in Calls /\ Knows("unmount", k) /\ "unmount" \in Labels
    BY <1>0, <1>l, <1>12, NoCallType DEF Remove, Calls, Knows, Labels
  <2>3. KeepsMutex(p, "unmount", k)
    BY <1>12 DEF Remove, KeepsMutex, Section
  <2>4. CallTypes' /\ Control'
    BY <1>0, <2>1, <2>2, <2>3, StepControl
  <2> QED
    BY <1>0, <1>l, <1>12, <2>1, <2>4 DEF Remove, files, mounts, history, FileTypes, TableTypes, HistoryTypes
<1>13. ASSUME NEW p \in Procs, NEW s \in Slugs, Unmount(p, s)
      PROVE  CallTypes' /\ Control' /\ FileTypes' /\ TableTypes' /\ BoundTypes' /\ HistoryTypes'
  <2> DEFINE k == [call[p] EXCEPT !.todo = @ \ {s}, !.slot = slots[s]]
  <2>1. Moves(p, "close", k)
    BY <1>13 DEF Unmount, Goto, Keep, Moves
  <2>2. k \in Calls /\ Knows("close", k) /\ "close" \in Labels
    BY <1>0, <1>k, <1>13 DEF Unmount, Calls, Knows, Labels, Orphan, TableTypes
  <2>3. KeepsMutex(p, "close", k)
    BY <1>k, <1>13 DEF Unmount, Orphan, Knows, Calls, KeepsMutex, Section
  <2>4. CallTypes' /\ Control'
    BY <1>0, <2>1, <2>2, <2>3, StepControl
  <2> QED
    BY <1>0, <1>13, <2>4 DEF Unmount, files, mounts, bounds, history, FileTypes, TableTypes, BoundTypes, HistoryTypes, Disturbs
<1>14. ASSUME NEW p \in Procs, Close(p)
      PROVE  CallTypes' /\ Control' /\ FileTypes' /\ TableTypes' /\ BoundTypes' /\ HistoryTypes'
  <2> DEFINE l == IF call[p].op = "look" THEN "orphans" ELSE "unregister"
             k == [call[p] EXCEPT !.slot = None]
  <2>1. Moves(p, l, k)
    BY <1>14 DEF Close, Goto, Keep, Moves
  <2>2. k \in Calls /\ Knows(l, k) /\ l \in Labels
    BY <1>k, <1>14 DEF Close, Calls, Knows, Labels
  <2>3. KeepsMutex(p, l, k)
    BY <1>k, <1>14 DEF Close, Calls, KeepsMutex, Section
  <2>4. CallTypes' /\ Control'
    BY <1>0, <2>1, <2>2, <2>3, StepControl
  <2> QED
    BY <1>0, <1>14, <2>4 DEF Close, files, bounds, history, FileTypes, TableTypes, BoundTypes, HistoryTypes
<1>15. ASSUME NEW p \in Procs, Unregister(p)
      PROVE  CallTypes' /\ Control' /\ FileTypes' /\ TableTypes' /\ BoundTypes' /\ HistoryTypes'
  <2>1. CallTypes' /\ Control'
    BY <1>0, <1>15, EndsControl DEF Unregister, mounts
  <2>2. call[p].slug \in Slugs
    BY <1>k, <1>15 DEF Unregister, Knows
  <2>3. registry' \in Configs \cup {Unreadable} /\ HistoryTypes'
    BY <1>0, <1>l, <1>15, <2>2 DEF Unregister, Disturbs, Configs, FileTypes, HistoryTypes
  <2>4. BoundTypes'
    BY <1>0, <1>15, FaultType DEF Unregister, bounds, BoundTypes
  <2> QED
    BY <1>0, <1>15, <2>1, <2>3, <2>4 DEF Unregister, mounts, FileTypes, TableTypes
<1>16. ASSUME NEW p \in Procs, NEW s \in Slugs, Setup(p, s)
      PROVE  CallTypes' /\ Control' /\ FileTypes' /\ TableTypes' /\ BoundTypes' /\ HistoryTypes'
  <2> DEFINE k == [NoCall EXCEPT !.op = "setup", !.slot = slots[s]]
  <2>1. Moves(p, "init", k) /\ BoundTypes'
    BY <1>0, <1>16, ServeMoves DEF Setup
  <2>2. k \in Calls /\ Knows("init", k) /\ "init" \in Labels
    BY <1>0, <1>l, <1>16, NoCallType DEF Setup, Calls, Knows, Labels, TableTypes, StatusOf
  <2>3. KeepsMutex(p, "init", k)
    BY <1>16 DEF Setup, KeepsMutex, Section
  <2>4. CallTypes' /\ Control'
    BY <1>0, <2>1, <2>2, <2>3, StepControl
  <2> QED
    BY <1>0, <1>l, <1>16, <2>1, <2>4 DEF Setup, files, mounts, history, FileTypes, TableTypes, HistoryTypes
<1>17. ASSUME NEW p \in Procs, InitRepo(p)
      PROVE  CallTypes' /\ Control' /\ FileTypes' /\ TableTypes' /\ BoundTypes' /\ HistoryTypes'
  <2>1. CallTypes' /\ Control'
    <3>1. CASE Goto(p, "wizard") /\ UNCHANGED call
      <4>1. Moves(p, "wizard", call[p]) /\ "wizard" \in Labels
        BY <1>0, <3>1, StayMoves DEF Labels
      <4>2. Knows("wizard", call[p]) /\ KeepsMutex(p, "wizard", call[p])
        BY <1>k, <1>17 DEF InitRepo, Knows, KeepsMutex, Section
      <4> QED
        BY <1>0, <1>k, <4>1, <4>2, StepControl
    <3>2. CASE Ends(p)
      BY <1>0, <1>17, <3>2, EndsControl DEF InitRepo
    <3> QED
      BY <1>17, <3>1, <3>2 DEF InitRepo
  <2>2. dirs' \in [Paths -> {"absent", "broken", "fresh", "whole"}]
    BY <1>0, <1>17 DEF InitRepo, FileTypes
  <2>3. BoundTypes'
    BY <1>0, <1>17, FaultType DEF InitRepo, bounds, BoundTypes
  <2> QED
    BY <1>0, <1>17, <2>1, <2>2, <2>3 DEF InitRepo, mounts, history, FileTypes, TableTypes, HistoryTypes
<1>18. ASSUME NEW p \in Procs, TryBoot(p)
      PROVE  CallTypes' /\ Control' /\ FileTypes' /\ TableTypes' /\ BoundTypes' /\ HistoryTypes'
  <2>1. Moves(p, "swap", call[p]) /\ "swap" \in Labels
    BY <1>0, <1>18, StayMoves DEF TryBoot, Labels
  <2>2. Knows("swap", call[p]) /\ KeepsMutex(p, "swap", call[p])
    BY <1>k, <1>18 DEF TryBoot, Knows, KeepsMutex, Section
  <2>3. CallTypes' /\ Control'
    BY <1>0, <1>k, <2>1, <2>2, StepControl
  <2>4. call[p].slot \in Slots
    BY <1>k, <1>18 DEF TryBoot, Knows
  <2> QED
    BY <1>0, <1>18, <2>3, <2>4 DEF TryBoot, files, bounds, history, FileTypes, TableTypes, BoundTypes, HistoryTypes
<1>19. ASSUME NEW p \in Procs, BootRefused(p)
      PROVE  CallTypes' /\ Control' /\ FileTypes' /\ TableTypes' /\ BoundTypes' /\ HistoryTypes'
  <2>1. CallTypes' /\ Control'
    BY <1>0, <1>19, EndsControl DEF BootRefused
  <2>2. BoundTypes'
    BY <1>0, <1>19, FaultType DEF BootRefused, bounds, BoundTypes
  <2> QED
    BY <1>0, <1>19, <2>1, <2>2 DEF BootRefused, files, mounts, history, FileTypes, TableTypes, HistoryTypes
<1>20. ASSUME NEW p \in Procs, Swap(p)
      PROVE  CallTypes' /\ Control' /\ FileTypes' /\ TableTypes' /\ BoundTypes' /\ HistoryTypes'
  <2>1. CASE Current(call[p].slot)
    <3>1. CallTypes' /\ Control'
      BY <1>0, <1>20, <2>1, EndsControl DEF Swap
    <3>2. slot' \in [Slots -> SlotType]
      BY <1>0, <1>20, <2>1 DEF Swap, TableTypes, SlotType, Status
    <3> QED
      BY <1>0, <1>20, <3>1, <3>2 DEF Swap, files, bounds, history, FileTypes, TableTypes, BoundTypes, HistoryTypes
  <2>2. CASE ~Current(call[p].slot)
    <3>1. Moves(p, "discard", call[p]) /\ "discard" \in Labels
      BY <1>0, <1>20, <2>2, StayMoves DEF Swap, Labels
    <3>2. Knows("discard", call[p]) /\ KeepsMutex(p, "discard", call[p])
      BY <1>k, <1>20 DEF Swap, Knows, KeepsMutex, Section
    <3>3. CallTypes' /\ Control'
      BY <1>0, <1>k, <3>1, <3>2, StepControl
    <3> QED
      BY <1>0, <1>20, <2>2, <3>3 DEF Swap, files, bounds, history, FileTypes, TableTypes, BoundTypes, HistoryTypes
  <2> QED
    BY <2>1, <2>2
<1>21. ASSUME NEW p \in Procs, Discard(p)
      PROVE  CallTypes' /\ Control' /\ FileTypes' /\ TableTypes' /\ BoundTypes' /\ HistoryTypes'
  <2>1. CallTypes' /\ Control'
    BY <1>0, <1>21, EndsControl DEF Discard
  <2> QED
    BY <1>0, <1>21, <2>1 DEF Discard, files, bounds, history, FileTypes, TableTypes, BoundTypes, HistoryTypes
<1>22. ASSUME OtherReads
      PROVE  CallTypes' /\ Control' /\ FileTypes' /\ TableTypes' /\ BoundTypes' /\ HistoryTypes'
  <2>1. CallTypes' /\ Control'
    BY <1>0, <1>22, FrameControl DEF OtherReads
  <2> QED
    BY <1>0, <1>l, <1>22, <2>1, EditsType DEF OtherReads, mounts, bounds, history, Configs, FileTypes, TableTypes, BoundTypes, HistoryTypes
<1>23. ASSUME OtherWrites
      PROVE  CallTypes' /\ Control' /\ FileTypes' /\ TableTypes' /\ BoundTypes' /\ HistoryTypes'
  <2>1. CallTypes' /\ Control'
    BY <1>0, <1>23, FrameControl DEF OtherWrites
  <2> QED
    BY <1>0, <1>l, <1>23, <2>1 DEF OtherWrites, mounts, bounds, history, Configs, FileTypes, TableTypes, BoundTypes, HistoryTypes
<1>24. ASSUME Damaged
      PROVE  CallTypes' /\ Control' /\ FileTypes' /\ TableTypes' /\ BoundTypes' /\ HistoryTypes'
  <2>1. CallTypes' /\ Control'
    BY <1>0, <1>24, FrameControl DEF Damaged
  <2> QED
    BY <1>0, <1>l, <1>24, <2>1, EditsType DEF Damaged, Entries, mounts, bounds, history, Configs, FileTypes, TableTypes, BoundTypes, HistoryTypes
<1>25. ASSUME NEW d \in Paths, DirChanges(d)
      PROVE  CallTypes' /\ Control' /\ FileTypes' /\ TableTypes' /\ BoundTypes' /\ HistoryTypes'
  <2>1. CallTypes' /\ Control'
    BY <1>0, <1>25, FrameControl DEF DirChanges
  <2> QED
    BY <1>0, <1>25, <2>1, EditsType DEF DirChanges, mounts, history, FileTypes, TableTypes, HistoryTypes
<1>26. ASSUME CloseHub
      PROVE  CallTypes' /\ Control' /\ FileTypes' /\ TableTypes' /\ BoundTypes' /\ HistoryTypes'
  <2>1. CallTypes' /\ Control'
    BY <1>0, <1>26, FrameControl DEF CloseHub
  <2> QED
    BY <1>0, <1>26, <2>1 DEF CloseHub, files, bounds, history, FileTypes, TableTypes, BoundTypes, HistoryTypes
<1>27. ASSUME UNCHANGED vars
      PROVE  CallTypes' /\ Control' /\ FileTypes' /\ TableTypes' /\ BoundTypes' /\ HistoryTypes'
  BY <1>0, <1>27 DEF vars, files, mounts, bounds, history, CallTypes, Control, Mutex, FileTypes, TableTypes, BoundTypes, HistoryTypes
<1> QED
  BY <1>1, <1>2, <1>3, <1>4, <1>5, <1>6, <1>7, <1>8, <1>9, <1>10, <1>11, <1>12, <1>13, <1>14, <1>15, <1>16, <1>17, <1>18, <1>19, <1>20, <1>21, <1>22, <1>23, <1>24, <1>25, <1>26, <1>27 DEF Next, Step

(* The type invariant: a request knows at every step what the step needs,  *)
(* and whoever is inside the section of mountMu holds it.                  *)
THEOREM HubTypeCorrect == Spec => []TypeOK
<1>1. TypeInv => TypeOK
  BY DEF TypeInv
<1> QED
  BY <1>1, TypeInit, TypeStep, PTL DEF Spec

-----------------------------------------------------------------------------
(* Slots                                                                   *)

Booting(q) == pc[q] \in {"swap", "discard"}

(* A booted slot not yet in the table is nobody else's.                    *)
Placed(p) ==
  pc[p] = "place" =>
    /\ slot[call[p].slot].slug = call[p].slug /\ slot[call[p].slot].path = call[p].path
    /\ slot[call[p].slot].status = "ready" => call[p].slot \in open
    /\ \A s \in Slugs : slots[s] # call[p].slot
    /\ \A q \in Procs \ {p} : call[q].slot # call[p].slot

(* What is about to be closed has left the table.                          *)
Leaves(p) ==
  pc[p] \in {"close", "discard"} /\ call[p].slot # None => \A s \in Slugs : slots[s] # call[p].slot

(* One request of a wizard boots at a time, and only until it succeeded.   *)
WizardOwns(p) ==
  /\ pc[p] \in {"init", "wizard", "swap", "discard"} => slot[call[p].slot].slug \in Slugs
  /\ Booting(p) =>
       /\ call[p].slot \in open /\ slot[call[p].slot].status # "ready"
       /\ \A q \in Procs \ {p} : Booting(q) => call[q].slot # call[p].slot

MountedOnce == \A s \in Slugs : slots[s] # None => slot[slots[s]].slug = s
OpenIsReady ==
  \A i \in open : /\ slot[i].slug \in Slugs
                  /\ slot[i].status = "ready" \/ \E p \in Procs : call[p].slot = i /\ Booting(p)
Tables == MountedOnce /\ OpenIsReady /\ ReadyIsServed /\ OpenIsOwned
SlotInv == Tables /\ \A p \in Procs : Placed(p) /\ Leaves(p) /\ WizardOwns(p)

Facts == CallTypes /\ TableTypes /\ \A p \in Procs : Knows(pc[p], call[p])

LEMMA TypeFacts == TypeInv => Facts
BY DEF TypeInv, TypeOK, Control, Facts, CallTypes, TableTypes

LEMMA Pointwise ==
  ASSUME CallTypes, NEW p \in Procs, NEW l, NEW k, Moves(p, l, k)
  PROVE  \A q \in Procs : pc'[q] = (IF q = p THEN l ELSE pc[q]) /\ call'[q] = (IF q = p THEN k ELSE call[q])
BY DEF CallTypes, Moves

(* A step that leaves the table alone, outside the steps that hold a slot  *)
(* of their own.                                                           *)
Own == {"place", "close", "swap", "discard"}
LEMMA NeutralStep ==
  ASSUME Facts, SlotInv, NEW p \in Procs, NEW l, NEW k, Moves(p, l, k),
         UNCHANGED <<slots, slot, open, doubled>>, pc[p] \notin Own, l \notin Own,
         \/ k.slot = None /\ l \notin {"init", "wizard"}
         \/ /\ k.slot \in Slots /\ slot[k.slot].slug \in Slugs
            /\ k.slot = call[p].slot \/ \E s \in Slugs : k.slot = slots[s]
  PROVE  SlotInv'
<1>1. \A q \in Procs : pc'[q] = (IF q = p THEN l ELSE pc[q]) /\ call'[q] = (IF q = p THEN k ELSE call[q])
  BY Pointwise DEF Facts
<1>2. MountedOnce' /\ ReadyIsServed'
  BY DEF SlotInv, Tables, MountedOnce, ReadyIsServed, StatusOf
<1>3. OpenIsReady' /\ OpenIsOwned'
  BY <1>1 DEF SlotInv, Tables, OpenIsReady, OpenIsOwned, Booting, Own, Current
<1>4. \A q \in Procs \ {p} : pc[q] = "place" => call[q].slot # k.slot
  BY HubAssumption DEF SlotInv, Placed, Facts, Knows
<1>5. \A q \in Procs : Placed(q)'
  BY <1>1, <1>4 DEF SlotInv, Placed, Own
<1>6. \A q \in Procs : Leaves(q)'
  BY <1>1 DEF SlotInv, Leaves, Own
<1>7. \A q \in Procs : WizardOwns(q)'
  BY <1>1 DEF SlotInv, WizardOwns, Booting, Own
<1> QED
  BY <1>2, <1>3, <1>5, <1>6, <1>7 DEF SlotInv, Tables

LEMMA FrameSlots ==
  ASSUME SlotInv, UNCHANGED <<slots, slot, open, doubled, pc, call>>
  PROVE  SlotInv'
BY DEF SlotInv, Tables, MountedOnce, OpenIsReady, ReadyIsServed, OpenIsOwned, StatusOf, Current,
       Booting, Placed, Leaves, WizardOwns

LEMMA BootSlots ==
  ASSUME Facts, SlotInv, NEW p \in Procs, NEW i \in Slots, Boot(p, i)
  PROVE  SlotInv'
<1> DEFINE k == [call[p] EXCEPT !.slot = i]
<1>1. Moves(p, "place", k)
  BY DEF Boot, Goto, Keep, Moves
<1>2. \A q \in Procs : pc'[q] = (IF q = p THEN "place" ELSE pc[q]) /\ call'[q] = (IF q = p THEN k ELSE call[q])
  BY <1>1, Pointwise DEF Facts
<1>3. /\ i \notin open /\ \A s \in Slugs : slots[s] # i
      /\ \A q \in Procs : call[q].slot # i
      /\ pc[p] = "boot" /\ slots' = slots /\ doubled' = doubled
  BY DEF Boot, Fresh, Unused, At, history
<1>4. PICK st \in Status :
        /\ slot' = [slot EXCEPT ![i] = [slug |-> call[p].slug, path |-> call[p].path, status |-> st]]
        /\ open' = IF st = "ready" THEN open \cup {i} ELSE open
  BY DEF Boot
<1>5. /\ slot'[i] = [slug |-> call[p].slug, path |-> call[p].path, status |-> st]
      /\ \A j \in Slots : j # i => slot'[j] = slot[j]
  BY <1>4 DEF Facts, TableTypes
<1>6. call[p].slug \in Slugs /\ call[p] \in Calls /\ open \subseteq Slots
      /\ \A s \in Slugs : slots[s] \in Slots \cup {None}
  BY <1>3 DEF Facts, Knows, CallTypes, TableTypes
<1>7. k.slot = i /\ k.slug = call[p].slug /\ k.path = call[p].path
  BY <1>6 DEF Calls
<1>8. MountedOnce' /\ ReadyIsServed'
  BY <1>3, <1>4, <1>5, <1>6 DEF SlotInv, Tables, MountedOnce, ReadyIsServed, StatusOf
<1>9. OpenIsReady'
  BY <1>2, <1>3, <1>4, <1>5, <1>6 DEF SlotInv, Tables, OpenIsReady, Booting
<1>10. OpenIsOwned'
  <2> SUFFICES ASSUME NEW j \in open'
               PROVE  \/ j \in doubled' \/ Current(j)'
                      \/ \E q \in Procs : call'[q].slot = j /\ pc'[q] \in Own
    BY DEF OpenIsOwned, Own
  <2>1. CASE j = i
    BY <1>2, <1>7, <2>1 DEF Own
  <2>2. CASE j # i
    <3>1. j \in open /\ j \in Slots /\ slot'[j] = slot[j]
      BY <1>4, <1>5, <1>6, <2>2
    <3>2. \/ j \in doubled \/ Current(j)
          \/ \E q \in Procs : call[q].slot = j /\ pc[q] \in Own
      BY <3>1 DEF SlotInv, Tables, OpenIsOwned, Own
    <3>3. \A q \in Procs : pc[q] \in Own => q # p
      BY <1>3 DEF Own
    <3> QED
      BY <1>2, <1>3, <3>1, <3>2, <3>3 DEF Current
  <2> QED
    BY <2>1, <2>2
<1>11. \A q \in Procs : Placed(q)'
  <2> SUFFICES ASSUME NEW q \in Procs, pc'[q] = "place" PROVE Placed(q)'
    BY DEF Placed
  <2>1. CASE q = p
    <3>1. call'[q].slot = i /\ call'[q].slug = call[p].slug /\ call'[q].path = call[p].path
      BY <1>2, <1>7, <2>1
    <3>2. slot'[i].slug = call[p].slug /\ slot'[i].path = call[p].path /\ slot'[i].status = st
      BY <1>5
    <3>3. \A r \in Procs \ {q} : call'[r].slot # i
      BY <1>2, <1>3, <2>1
    <3> QED
      BY <1>3, <1>4, <3>1, <3>2, <3>3 DEF Placed
  <2>2. CASE q # p
    <3>1. pc[q] = "place" /\ call'[q] = call[q] /\ Placed(q) /\ call[q].slot \in Slots /\ call[q].slot # i
      BY <1>2, <1>3, <2>2 DEF SlotInv, Facts, Knows
    <3> QED
      BY <1>2, <1>3, <1>4, <1>5, <1>7, <3>1 DEF Placed
  <2> QED
    BY <2>1, <2>2
<1>12. \A q \in Procs : Leaves(q)'
  BY <1>2, <1>3 DEF SlotInv, Leaves
<1>13. \A q \in Procs : WizardOwns(q)'
  BY <1>2, <1>3, <1>4, <1>5 DEF SlotInv, WizardOwns, Booting, Facts, Knows
<1> QED
  BY <1>8, <1>9, <1>10, <1>11, <1>12, <1>13 DEF SlotInv, Tables

LEMMA PlaceSlots ==
  ASSUME Facts, SlotInv, NEW p \in Procs, Place(p)
  PROVE  SlotInv'
<1>1. PICK l \in {"idle", "heal"}, k \in Calls : Moves(p, l, k) /\ k.slot = None
  <2>1. CASE call[p].op = "add"
    BY <2>1, NoCallType DEF Place, Ends, Goto, Keep, Moves
  <2>2. CASE call[p].op # "add"
    <3>1. [call[p] EXCEPT !.slot = None, !.slug = None, !.path = None] \in Calls
      BY DEF Facts, CallTypes, Calls
    <3>2. [call[p] EXCEPT !.slot = None, !.slug = None, !.path = None].slot = None
      BY DEF Facts, CallTypes, Calls
    <3> QED
      BY <2>2, <3>1, <3>2 DEF Place, Goto, Keep, Moves
  <2> QED
    BY <2>1, <2>2
<1>2. \A q \in Procs : pc'[q] = (IF q = p THEN l ELSE pc[q]) /\ call'[q] = (IF q = p THEN k ELSE call[q])
  BY <1>1, Pointwise DEF Facts
<1>3. call[p].slug \in Slugs /\ call[p].slot \in Slots /\ pc[p] = "place" /\ None \notin Slots
  BY HubAssumption DEF Place, At, Facts, Knows
<1>4. /\ slot[call[p].slot].slug = call[p].slug
      /\ slot[call[p].slot].status = "ready" => call[p].slot \in open
      /\ \A s \in Slugs : slots[s] # call[p].slot
      /\ \A q \in Procs \ {p} : call[q].slot # call[p].slot
  BY <1>3 DEF SlotInv, Placed
<1>5. /\ \A s \in Slugs : slots'[s] = (IF s = call[p].slug THEN call[p].slot ELSE slots[s])
      /\ slot' = slot /\ open' = open /\ doubled' = doubled \cup Replaced(call[p].slug)
  BY <1>3 DEF Place, Facts, TableTypes
<1>6. MountedOnce' /\ ReadyIsServed'
  BY <1>3, <1>4, <1>5 DEF SlotInv, Tables, MountedOnce, ReadyIsServed, StatusOf
<1>7. OpenIsReady'
  BY <1>1, <1>2, <1>3, <1>5 DEF SlotInv, Tables, OpenIsReady, Booting
<1>8. OpenIsOwned'
  <2> SUFFICES ASSUME NEW i \in open
               PROVE  \/ i \in doubled' \/ Current(i)'
                      \/ \E q \in Procs : call'[q].slot = i /\ pc'[q] \in Own
    BY <1>5 DEF OpenIsOwned, Own
  <2>1. CASE i = call[p].slot
    BY <1>3, <1>4, <1>5, <2>1 DEF Current
  <2>2. CASE i # call[p].slot /\ i \in doubled
    BY <1>5, <2>2
  <2>3. CASE i # call[p].slot /\ \E q \in Procs : call[q].slot = i /\ pc[q] \in Own
    BY <1>2, <2>3
  <2>4. CASE i # call[p].slot /\ Current(i) /\ ~ \E q \in Procs : call[q].slot = i /\ pc[q] \in Own
    <3>1. slot[i].slug \in Slugs /\ slot[i].status = "ready"
      BY <2>4 DEF SlotInv, Tables, OpenIsReady, Booting, Own
    <3> QED
      BY <1>5, <2>4, <3>1 DEF Current, Replaced
  <2> QED
    BY <2>1, <2>2, <2>3, <2>4 DEF SlotInv, Tables, OpenIsOwned, Own
<1>9. \A q \in Procs : Placed(q)'
  BY <1>1, <1>2, <1>3, <1>4, <1>5 DEF SlotInv, Placed, Facts, Knows
<1>10. \A q \in Procs : Leaves(q)'
  BY <1>1, <1>2, <1>3, <1>4, <1>5 DEF SlotInv, Leaves
<1>11. \A q \in Procs : WizardOwns(q)'
  BY <1>1, <1>2, <1>3, <1>5 DEF SlotInv, WizardOwns, Booting
<1> QED
  BY <1>6, <1>7, <1>8, <1>9, <1>10, <1>11 DEF SlotInv, Tables

LEMMA UnmountSlots ==
  ASSUME Facts, SlotInv, NEW p \in Procs, NEW s \in Slugs, Unmount(p, s)
  PROVE  SlotInv'
<1> DEFINE k == [call[p] EXCEPT !.todo = @ \ {s}, !.slot = slots[s]]
<1>1. Moves(p, "close", k)
  BY DEF Unmount, Goto, Keep, Moves
<1>2. \A q \in Procs : pc'[q] = (IF q = p THEN "close" ELSE pc[q]) /\ call'[q] = (IF q = p THEN k ELSE call[q])
  BY <1>1, Pointwise DEF Facts
<1>3. k.slot = slots[s] /\ pc[p] \in {"unmount", "orphans"}
  BY DEF Unmount, Orphan, At, Facts, CallTypes, Calls
<1>4. /\ \A r \in Slugs : slots'[r] = (IF r = s THEN None ELSE slots[r])
      /\ slot' = slot /\ open' = open /\ doubled' = doubled
  BY DEF Unmount, Facts, TableTypes
<1>5. None \notin Slots /\ open \subseteq Slots
  BY HubAssumption DEF Facts, TableTypes
<1>6. MountedOnce' /\ ReadyIsServed'
  BY <1>4 DEF SlotInv, Tables, MountedOnce, ReadyIsServed, StatusOf
<1>7. OpenIsReady'
  BY <1>2, <1>3, <1>4 DEF SlotInv, Tables, OpenIsReady, Booting
<1>8. OpenIsOwned'
  <2> SUFFICES ASSUME NEW i \in open
               PROVE  \/ i \in doubled \/ Current(i)'
                      \/ \E q \in Procs : call'[q].slot = i /\ pc'[q] \in Own
    BY <1>4 DEF OpenIsOwned, Own
  <2>1. \A q \in Procs : pc[q] \in Own => q # p
    BY <1>3 DEF Own
  <2>2. slot[i].slug \in Slugs
    BY DEF SlotInv, Tables, OpenIsReady
  <2>3. CASE Current(i)
    BY <1>2, <1>3, <1>4, <2>2, <2>3 DEF Current, Own
  <2>4. CASE \E q \in Procs : call[q].slot = i /\ pc[q] \in Own
    BY <1>2, <2>1, <2>4
  <2> QED
    BY <2>3, <2>4 DEF SlotInv, Tables, OpenIsOwned, Own
<1>9. \A q \in Procs : Placed(q)'
  <2> SUFFICES ASSUME NEW q \in Procs, pc'[q] = "place" PROVE Placed(q)'
    BY DEF Placed
  <2>1. q # p /\ pc[q] = "place" /\ call'[q] = call[q] /\ Placed(q) /\ call[q].slot \in Slots
    BY <1>2 DEF SlotInv, Facts, Knows
  <2>2. \A r \in Procs \ {q} : call'[r].slot # call[q].slot
    <3>1. call'[p].slot = slots[s]
      BY <1>2, <1>3
    <3> QED
      BY <1>2, <2>1, <3>1 DEF Placed
  <2>3. \A r \in Slugs : slots'[r] # call[q].slot
    BY <1>4, <1>5, <2>1 DEF Placed
  <2> QED
    BY <1>4, <2>1, <2>2, <2>3 DEF Placed
<1>10. \A q \in Procs : Leaves(q)'
  <2>1. \A r \in Slugs \ {s} : slots[s] # None => slots[r] # slots[s]
    BY DEF SlotInv, Tables, MountedOnce
  <2> QED
    BY <1>2, <1>3, <1>4, <2>1 DEF SlotInv, Leaves
<1>11. \A q \in Procs : WizardOwns(q)'
  BY <1>2, <1>3, <1>4 DEF SlotInv, WizardOwns, Booting
<1> QED
  BY <1>6, <1>7, <1>8, <1>9, <1>10, <1>11 DEF SlotInv, Tables

LEMMA CloseSlots ==
  ASSUME Facts, SlotInv, NEW p \in Procs, Close(p)
  PROVE  SlotInv'
<1> DEFINE l == IF call[p].op = "look" THEN "orphans" ELSE "unregister"
           k == [call[p] EXCEPT !.slot = None]
<1>1. Moves(p, l, k)
  BY DEF Close, Goto, Keep, Moves
<1>2. \A q \in Procs : pc'[q] = (IF q = p THEN l ELSE pc[q]) /\ call'[q] = (IF q = p THEN k ELSE call[q])
  BY <1>1, Pointwise DEF Facts
<1>3. k.slot = None /\ pc[p] = "close" /\ None \notin Slots
  BY HubAssumption DEF Close, At, Facts, CallTypes, Calls
<1>4. /\ open' = IF call[p].slot # None /\ slot[call[p].slot].status = "ready" THEN open \ {call[p].slot} ELSE open
      /\ slots' = slots /\ slot' = slot /\ doubled' = doubled
  BY DEF Close, history
<1>5. call[p].slot # None => \A s \in Slugs : slots[s] # call[p].slot
  BY <1>3 DEF SlotInv, Leaves
<1>6. \A q \in Procs : pc[q] = "place" => call[q].slot # call[p].slot
  BY <1>3 DEF SlotInv, Placed
<1>7. MountedOnce' /\ ReadyIsServed'
  BY <1>4, <1>5 DEF SlotInv, Tables, MountedOnce, ReadyIsServed, StatusOf
<1>8. OpenIsReady'
  BY <1>2, <1>3, <1>4 DEF SlotInv, Tables, OpenIsReady, Booting
<1>9. OpenIsOwned'
  <2> SUFFICES ASSUME NEW i \in open'
               PROVE  \/ i \in doubled' \/ Current(i)'
                      \/ \E q \in Procs : call'[q].slot = i /\ pc'[q] \in Own
    BY DEF OpenIsOwned, Own
  <2>1. i \in open /\ i \in Slots
    BY <1>4 DEF Facts, TableTypes
  <2>2. CASE i = call[p].slot
    <3>1. \E q \in Procs : call[q].slot = i /\ Booting(q)
      BY <1>3, <1>4, <2>1, <2>2 DEF SlotInv, Tables, OpenIsReady
    <3> QED
      BY <1>2, <1>3, <3>1 DEF Booting, Own
  <2>3. CASE i # call[p].slot
    BY <1>2, <1>4, <2>1, <2>3 DEF SlotInv, Tables, OpenIsOwned, Current, Own
  <2> QED
    BY <2>2, <2>3
<1>10. \A q \in Procs : Placed(q)'
  <2> SUFFICES ASSUME NEW q \in Procs, pc'[q] = "place" PROVE Placed(q)'
    BY DEF Placed
  <2>1. /\ q # p /\ pc[q] = "place" /\ call'[q] = call[q] /\ Placed(q)
        /\ call[q].slot \in Slots /\ call[q].slot # call[p].slot
    BY <1>2, <1>6 DEF SlotInv, Facts, Knows
  <2> QED
    BY <1>2, <1>3, <1>4, <2>1 DEF Placed
<1>11. \A q \in Procs : Leaves(q)'
  BY <1>2, <1>4 DEF SlotInv, Leaves
<1>12. \A q \in Procs : WizardOwns(q)'
  BY <1>2, <1>3, <1>4 DEF SlotInv, WizardOwns, Booting
<1> QED
  BY <1>7, <1>8, <1>9, <1>10, <1>11, <1>12 DEF SlotInv, Tables

LEMMA TryBootSlots ==
  ASSUME Facts, SlotInv, NEW p \in Procs, TryBoot(p)
  PROVE  SlotInv'
<1>1. Moves(p, "swap", call[p])
  BY StayMoves DEF TryBoot, Facts, Labels
<1>2. \A q \in Procs : pc'[q] = (IF q = p THEN "swap" ELSE pc[q]) /\ call'[q] = call[q]
  BY <1>1, Pointwise DEF Facts
<1>3. /\ pc[p] = "wizard" /\ ~Wizarding(call[p].slot) /\ slot[call[p].slot].status # "ready"
      /\ open' = open \cup {call[p].slot} /\ slots' = slots /\ slot' = slot /\ doubled' = doubled
  BY DEF TryBoot, At, history
<1>4. slot[call[p].slot].slug \in Slugs
  BY <1>3 DEF SlotInv, WizardOwns
<1>5. MountedOnce' /\ ReadyIsServed'
  BY <1>3 DEF SlotInv, Tables, MountedOnce, ReadyIsServed, StatusOf
<1>6. OpenIsReady' /\ OpenIsOwned'
  BY <1>2, <1>3, <1>4 DEF SlotInv, Tables, OpenIsReady, OpenIsOwned, Current, Booting
<1>7. \A q \in Procs : Placed(q)' /\ Leaves(q)'
  BY <1>2, <1>3 DEF SlotInv, Placed, Leaves
<1>8. \A q \in Procs : WizardOwns(q)'
  BY <1>2, <1>3, <1>4 DEF SlotInv, WizardOwns, Booting, Wizarding
<1> QED
  BY <1>5, <1>6, <1>7, <1>8 DEF SlotInv, Tables

LEMMA SwapSlots ==
  ASSUME Facts, SlotInv, NEW p \in Procs, Swap(p)
  PROVE  SlotInv'
<1> DEFINE i == call[p].slot
<1>1. /\ pc[p] = "swap" /\ i \in Slots /\ i \in open /\ slot[i].slug \in Slugs /\ slot[i].status # "ready"
      /\ \A q \in Procs \ {p} : Booting(q) => call[q].slot # i
      /\ \A q \in Procs : pc[q] = "place" => call[q].slot # i
      /\ slots' = slots /\ open' = open /\ doubled' = doubled /\ None \notin Slots
  BY HubAssumption DEF Swap, At, SlotInv, WizardOwns, Placed, Booting, Facts, Knows, history
<1>2. CASE Current(i)
  <2>1. \A q \in Procs : pc'[q] = (IF q = p THEN "idle" ELSE pc[q]) /\ call'[q] = (IF q = p THEN NoCall ELSE call[q])
    <3>1. Moves(p, "idle", NoCall)
      BY <1>2 DEF Swap, Ends, Goto, Keep, Moves
    <3> QED
      BY <3>1, Pointwise DEF Facts
  <2>2. /\ slot'[i].status = "ready" /\ slot'[i].slug = slot[i].slug
        /\ \A j \in Slots : j # i => slot'[j] = slot[j]
    BY <1>1, <1>2 DEF Swap, Facts, TableTypes, SlotType
  <2>3. NoCall.slot = None /\ open \subseteq Slots /\ \A s \in Slugs : slots[s] \in Slots \cup {None}
    BY NoCallType DEF Facts, TableTypes
  <2>4. MountedOnce' /\ ReadyIsServed'
    BY <1>1, <2>2, <2>3 DEF SlotInv, Tables, MountedOnce, ReadyIsServed, StatusOf
  <2>5. OpenIsReady'
    BY <1>1, <2>1, <2>2, <2>3 DEF SlotInv, Tables, OpenIsReady, Booting
  <2>6. OpenIsOwned'
    BY <1>1, <1>2, <2>1, <2>2, <2>3 DEF SlotInv, Tables, OpenIsOwned, Current
  <2>7. \A q \in Procs : Placed(q)'
    BY <1>1, <2>1, <2>2, <2>3 DEF SlotInv, Placed, Facts, Knows
  <2>8. \A q \in Procs : Leaves(q)'
    BY <1>1, <2>1, <2>3 DEF SlotInv, Leaves
  <2>9. \A q \in Procs : WizardOwns(q)'
    BY <1>1, <2>1, <2>2 DEF SlotInv, WizardOwns, Booting, Facts, Knows
  <2> QED
    BY <2>4, <2>5, <2>6, <2>7, <2>8, <2>9 DEF SlotInv, Tables
<1>3. CASE ~Current(i)
  <2>1. Moves(p, "discard", call[p]) /\ slot' = slot
    BY <1>3, StayMoves DEF Swap, Facts, Labels
  <2>2. \A q \in Procs : pc'[q] = (IF q = p THEN "discard" ELSE pc[q]) /\ call'[q] = call[q]
    BY <2>1, Pointwise DEF Facts
  <2>3. \A s \in Slugs : slots[s] # i
    BY <1>1, <1>3 DEF SlotInv, Tables, MountedOnce, Current
  <2>4. MountedOnce' /\ ReadyIsServed'
    BY <1>1, <2>1 DEF SlotInv, Tables, MountedOnce, ReadyIsServed, StatusOf
  <2>5. OpenIsReady' /\ OpenIsOwned'
    BY <1>1, <2>1, <2>2 DEF SlotInv, Tables, OpenIsReady, OpenIsOwned, Current, Booting
  <2>6. \A q \in Procs : Placed(q)' /\ Leaves(q)'
    BY <1>1, <2>1, <2>2, <2>3 DEF SlotInv, Placed, Leaves
  <2>7. \A q \in Procs : WizardOwns(q)'
    BY <1>1, <2>1, <2>2 DEF SlotInv, WizardOwns, Booting
  <2> QED
    BY <2>4, <2>5, <2>6, <2>7 DEF SlotInv, Tables
<1> QED
  BY <1>2, <1>3

LEMMA DiscardSlots ==
  ASSUME Facts, SlotInv, NEW p \in Procs, Discard(p)
  PROVE  SlotInv'
<1> DEFINE i == call[p].slot
<1>1. Moves(p, "idle", NoCall)
  BY DEF Discard, Ends, Goto, Keep, Moves
<1>2. \A q \in Procs : pc'[q] = (IF q = p THEN "idle" ELSE pc[q]) /\ call'[q] = (IF q = p THEN NoCall ELSE call[q])
  BY <1>1, Pointwise DEF Facts
<1>3. /\ pc[p] = "discard" /\ i \in Slots /\ NoCall.slot = None /\ None \notin Slots
      /\ open' = open \ {i} /\ slots' = slots /\ slot' = slot /\ doubled' = doubled
  BY NoCallType, HubAssumption DEF Discard, At, Facts, Knows, history
<1>4. /\ \A s \in Slugs : slots[s] # i
      /\ \A q \in Procs \ {p} : Booting(q) => call[q].slot # i
      /\ \A q \in Procs : pc[q] = "place" => call[q].slot # i
  BY <1>3 DEF SlotInv, Leaves, WizardOwns, Placed, Booting
<1>5. MountedOnce' /\ ReadyIsServed'
  BY <1>3, <1>4 DEF SlotInv, Tables, MountedOnce, ReadyIsServed, StatusOf
<1>6. OpenIsReady' /\ OpenIsOwned'
  BY <1>2, <1>3 DEF SlotInv, Tables, OpenIsReady, OpenIsOwned, Current, Booting
<1>7. \A q \in Procs : Placed(q)'
  <2> SUFFICES ASSUME NEW q \in Procs, pc'[q] = "place" PROVE Placed(q)'
    BY DEF Placed
  <2>1. /\ q # p /\ pc[q] = "place" /\ call'[q] = call[q] /\ Placed(q)
        /\ call[q].slot \in Slots /\ call[q].slot # i
    BY <1>2, <1>4 DEF SlotInv, Facts, Knows
  <2> QED
    BY <1>2, <1>3, <2>1 DEF Placed
<1>8. \A q \in Procs : Leaves(q)' /\ WizardOwns(q)'
  BY <1>2, <1>3, <1>4 DEF SlotInv, Leaves, WizardOwns, Booting
<1> QED
  BY <1>5, <1>6, <1>7, <1>8 DEF SlotInv, Tables

LEMMA CloseHubSlots ==
  ASSUME Facts, SlotInv, CloseHub
  PROVE  SlotInv'
<1>1. /\ \A p \in Procs : pc[p] = "idle" /\ pc'[p] = "idle"
      /\ open' = open \ {slots[s] : s \in Slugs} /\ slot' = slot /\ doubled' = doubled
      /\ \A s \in Slugs : slots'[s] = None
  BY DEF CloseHub, At, history
<1>2. MountedOnce' /\ ReadyIsServed'
  BY <1>1 DEF MountedOnce, ReadyIsServed, StatusOf
<1>3. \A i \in open : slot[i].slug \in Slugs /\ slot[i].status = "ready"
  BY <1>1 DEF SlotInv, Tables, OpenIsReady, Booting
<1>4. OpenIsReady' /\ OpenIsOwned'
  BY <1>1, <1>3 DEF SlotInv, Tables, OpenIsReady, OpenIsOwned, Current
<1>5. \A p \in Procs : Placed(p)' /\ Leaves(p)' /\ WizardOwns(p)'
  BY <1>1 DEF Placed, Leaves, WizardOwns, Booting
<1> QED
  BY <1>2, <1>4, <1>5 DEF SlotInv, Tables

LEMMA SlotStep == TypeInv /\ SlotInv /\ [Next]_vars => SlotInv'
<1> SUFFICES ASSUME TypeInv, SlotInv, [Next]_vars PROVE SlotInv'
  OBVIOUS
<1>0. Facts /\ CallTypes /\ TableTypes /\ BoundTypes /\ NoCall.slot = None
  BY TypeFacts, NoCallType DEF Facts, TypeInv, TypeOK, BoundTypes
<1>k. \A p \in Procs : call[p] \in Calls /\ pc[p] \in Labels /\ Knows(pc[p], call[p])
  BY <1>0 DEF Facts, CallTypes
<1> USE DEF At
<1>1. ASSUME NEW p \in Procs, NEW l \in Labels \ Own, Goto(p, l), UNCHANGED call, pc[p] \notin Own,
             l \notin {"init", "wizard"}, call[p].slot = None, UNCHANGED <<slots, slot, open, doubled>>
      PROVE  SlotInv'
  BY <1>0, <1>1, StayMoves, NeutralStep
<1>2. ASSUME NEW p \in Procs, Ends(p), pc[p] \notin Own, UNCHANGED <<slots, slot, open, doubled>>
      PROVE  SlotInv'
  <2>1. Moves(p, "idle", NoCall)
    BY <1>2 DEF Ends, Goto, Keep, Moves
  <2> QED
    BY <1>0, <1>2, <2>1, NeutralStep DEF Own
<1>3. ASSUME NEW p \in Procs, NEW l, NEW k, Serve(p, l, k), l \notin Own \cup {"init"}, l # "wizard",
             k.slot = None, UNCHANGED <<slots, slot, open, doubled>>
      PROVE  SlotInv'
  <2>1. Moves(p, l, k) /\ pc[p] = "idle"
    BY <1>0, <1>3, ServeMoves
  <2> QED
    BY <1>0, <1>3, <2>1, NeutralStep DEF Own
<1>4. ASSUME NEW p \in Procs, Look(p) PROVE SlotInv'
  <2> DEFINE k == [NoCall EXCEPT !.op = "look", !.list = Load, !.todo = Entries(Load)]
  <2>1. k.slot = None
    BY NoCallType
  <2>2. Serve(p, "heal", k) /\ UNCHANGED <<slots, slot, open, doubled>>
    BY <1>4 DEF Look, mounts
  <2> HIDE DEF k
  <2> QED
    BY <1>3, <2>1, <2>2 DEF Own
<1>5. ASSUME NEW p \in Procs, NEW s \in Slugs, SkipMounted(p, s) PROVE SlotInv'
  <2> DEFINE k == [call[p] EXCEPT !.todo = @ \ {s}]
  <2>1. Moves(p, "heal", k) /\ pc[p] = "heal"
    BY <1>0, <1>5, KeepMoves DEF SkipMounted
  <2>2. k.slot = None
    BY <1>k, <2>1 DEF Knows, Calls
  <2> QED
    BY <1>0, <1>5, <2>1, <2>2, NeutralStep DEF SkipMounted, mounts, history, Own
<1>6. ASSUME NEW p \in Procs, NEW s \in Slugs, Heal(p, s) PROVE SlotInv'
  <2> DEFINE k == [call[p] EXCEPT !.todo = @ \ {s}, !.slug = s, !.path = call[p].list[s]]
  <2>1. Moves(p, "boot", k) /\ pc[p] = "heal"
    BY <1>6 DEF Heal, Goto, Keep, Moves
  <2>2. k.slot = None
    BY <1>k, <2>1 DEF Knows, Calls
  <2>3. UNCHANGED <<slots, slot, open, doubled>>
    BY <1>6 DEF Heal, mounts, history
  <2> HIDE DEF k
  <2> QED
    BY <1>0, <2>1, <2>2, <2>3, NeutralStep DEF Own
<1>7. ASSUME NEW p \in Procs, FindOrphans(p) PROVE SlotInv'
  <2> DEFINE k == [call[p] EXCEPT !.todo = {s \in Slugs : slots[s] # None /\ call[p].list[s] = None}]
  <2>1. Moves(p, "orphans", k) /\ pc[p] = "heal"
    BY <1>7 DEF FindOrphans, Goto, Keep, Moves
  <2>2. k.slot = None
    BY <1>k, <2>1 DEF Knows, Calls
  <2>3. UNCHANGED <<slots, slot, open, doubled>>
    BY <1>7 DEF FindOrphans, mounts, history
  <2> HIDE DEF k
  <2> QED
    BY <1>0, <2>1, <2>2, <2>3, NeutralStep DEF Own
<1>8. ASSUME NEW p \in Procs, Started(p) \/ Answer(p) \/ Unregister(p) \/ BootRefused(p) PROVE SlotInv'
  BY <1>2, <1>8 DEF Started, Answer, Unregister, BootRefused, mounts, history, Own
<1>9. ASSUME NEW p \in Procs, Healed(p) \/ Mount(p) PROVE SlotInv'
  <2>1. call[p].slot = None
    BY <1>k, <1>9 DEF Healed, Mount, Knows
  <2> QED
    BY <1>1, <1>9, <2>1 DEF Healed, Mount, mounts, history, Own, Labels
<1>10. ASSUME NEW p \in Procs, NEW d \in Paths, NEW s \in Slugs, Add(p, d, s) PROVE SlotInv'
  <2> DEFINE k == [NoCall EXCEPT !.op = "add", !.slug = s, !.path = d]
  <2>1. k.slot = None
    BY NoCallType
  <2>2. Serve(p, "mount", k) /\ UNCHANGED <<slots, slot, open, doubled>>
    BY <1>10 DEF Add, mounts
  <2> HIDE DEF k
  <2> QED
    BY <1>3, <2>1, <2>2 DEF Own
<1>11. ASSUME NEW p \in Procs, NEW s \in Slugs, Remove(p, s) PROVE SlotInv'
  <2>1. [NoCall EXCEPT !.op = "remove", !.slug = s].slot = None
    BY NoCallType
  <2> QED
    BY <1>3, <1>11, <2>1 DEF Remove, mounts, history, Own
<1>12. ASSUME NEW p \in Procs, NEW s \in Slugs, Setup(p, s) PROVE SlotInv'
  <2> DEFINE k == [NoCall EXCEPT !.op = "setup", !.slot = slots[s]]
  <2>1. Moves(p, "init", k) /\ pc[p] = "idle" /\ k.slot = slots[s]
    BY <1>0, <1>12, ServeMoves, NoCallType DEF Setup
  <2>2. slots[s] \in Slots /\ slot[slots[s]].slug \in Slugs
    BY <1>0, <1>12 DEF Setup, StatusOf, SlotInv, Tables, MountedOnce, TableTypes
  <2>3. UNCHANGED <<slots, slot, open, doubled>>
    BY <1>12 DEF Setup, mounts, history
  <2> HIDE DEF k
  <2> QED
    BY <1>0, <2>1, <2>2, <2>3, NeutralStep DEF Own
<1>13. ASSUME NEW p \in Procs, InitRepo(p) PROVE SlotInv'
  <2>1. CASE Ends(p)
    BY <1>2, <1>13, <2>1 DEF InitRepo, mounts, history, Own
  <2>2. CASE Goto(p, "wizard") /\ UNCHANGED call
    <3>1. Moves(p, "wizard", call[p]) /\ call[p].slot \in Slots /\ slot[call[p].slot].slug \in Slugs
      BY <1>0, <1>k, <1>13, <2>2, StayMoves DEF InitRepo, Labels, Knows, SlotInv, WizardOwns
    <3> QED
      BY <1>0, <1>13, <3>1, NeutralStep DEF InitRepo, mounts, history, Own
  <2> QED
    BY <1>13, <2>1, <2>2 DEF InitRepo
<1>14. ASSUME UNCHANGED <<slots, slot, open, doubled, pc, call>> PROVE SlotInv'
  BY <1>14, FrameSlots
<1>15. ASSUME OtherReads \/ OtherWrites \/ Damaged \/ \E d \in Paths : DirChanges(d) PROVE SlotInv'
  BY <1>14, <1>15 DEF OtherReads, OtherWrites, Damaged, DirChanges, mounts, history
<1>16. ASSUME UNCHANGED vars PROVE SlotInv'
  BY <1>14, <1>16 DEF vars, mounts, history
<1> QED
  BY <1>0, <1>4, <1>5, <1>6, <1>7, <1>8, <1>9, <1>10, <1>11, <1>12, <1>13, <1>15, <1>16, BootSlots, PlaceSlots,
     UnmountSlots, CloseSlots, TryBootSlots, SwapSlots, DiscardSlots, CloseHubSlots DEF Next, Step

LEMMA SlotInit == Init => SlotInv
<1> SUFFICES ASSUME Init PROVE SlotInv
  OBVIOUS
<1>1. /\ \A s \in Slugs : slots[s] = None
      /\ open = {} /\ \A p \in Procs : pc[p] \in {"heal", "idle"}
  BY DEF Init
<1> QED
  BY <1>1 DEF SlotInv, Tables, MountedOnce, OpenIsReady, ReadyIsServed, OpenIsOwned, StatusOf, Booting,
              Placed, Leaves, WizardOwns

LEMMA SlotsCorrect == Spec => [](TypeInv /\ SlotInv)
<1>1. Init => TypeInv /\ SlotInv
  BY TypeInit, SlotInit
<1>2. TypeInv /\ SlotInv /\ [Next]_vars => (TypeInv /\ SlotInv)'
  BY TypeStep, SlotStep
<1> QED
  BY <1>1, <1>2, PTL DEF Spec

(* Nothing outlives the unmount (hub.go:183): a running server is in the   *)
(* table or in the hands of the request that boots or closes it, unless    *)
(* another slot replaced its own while it ran.                             *)
THEOREM RunningServersAreOwned == Spec => []OpenIsOwned
<1>1. SlotInv => OpenIsOwned
  BY DEF SlotInv, Tables
<1> QED
  BY <1>1, SlotsCorrect, PTL

(* What is shown as ready is served: no removal and no late wizard leaves  *)
(* a closed server in the table.                                           *)
THEOREM ReadySlotsAreServed == Spec => []ReadyIsServed
<1>1. SlotInv => ReadyIsServed
  BY DEF SlotInv, Tables
<1> QED
  BY <1>1, SlotsCorrect, PTL

-----------------------------------------------------------------------------
(* Convergence                                                             *)

Adding(s) == \E q \in Procs : call[q].op = "add" /\ call[q].slug = s
Excused(s) == s \in strange \/ Adding(s)

(* A slot, and what a mount under way will put in one, is at the directory *)
(* of its entry, but for the slugs the property excuses.                   *)
PathsFit == \A s \in Slugs : Registered(s) /\ slots[s] # None => slot[slots[s]].path = Load[s] \/ Excused(s)
Mounts(q) == pc[q] \in {"heal", "boot", "place"} /\ call[q].op # "add"
ListFits(q) ==
  Mounts(q) => \A s \in Slugs : Registered(s) /\ call[q].list[s] # None =>
                                  call[q].list[s] = Load[s] \/ Excused(s)

(* How far an undisturbed landing has come, with the registry r and the    *)
(* table t.                                                                *)
Reached(l, k, r, t) ==
  /\ \A s \in Slugs : k.list[s] = r[s]
  /\ l = "heal" => \A s \in Slugs : k.list[s] # None /\ s \notin k.todo => t[s] # None
  /\ l \in {"boot", "place"} =>
       \A s \in Slugs : k.list[s] # None /\ s \notin k.todo /\ s # k.slug => t[s] # None
  /\ l \in {"orphans", "close"} =>
       \A s \in Slugs : /\ k.list[s] # None => t[s] # None /\ s \notin k.todo
                        /\ k.list[s] = None /\ t[s] # None => s \in k.todo
  /\ l = "answer" => \A s \in Slugs : k.list[s] # None <=> t[s] # None
CalmReached(p) == p \in calm /\ call[p].op = "look" => Reached(pc[p], call[p], Load, slots)

Fits == PathsFit /\ \A q \in Procs : ListFits(q)
ConvergeInv == Fits /\ \A p \in Procs : CalmReached(p)

(* What a step may do to the registry and to the table without a mount.    *)
LEMMA FitStep ==
  ASSUME Fits, strange \subseteq strange',
         \A s \in Slugs : Load'[s] \in {None, Load[s]} \/ s \in strange' \/ Adding(s)',
         \A s \in Slugs : Adding(s) => Adding(s)',
         \A s \in Slugs : slots'[s] # None => slots'[s] = slots[s] /\ slot'[slots[s]].path = slot[slots[s]].path,
         \A q \in Procs : Mounts(q)' => \/ Mounts(q) /\ call'[q].list = call[q].list
                                        \/ call'[q].list = Load'
  PROVE  Fits'
<1>1. \A s \in Slugs : Excused(s) => Excused(s)'
  BY DEF Excused
<1>2. \A s \in Slugs : Registered(s)' => (Load'[s] = Load[s] /\ Registered(s)) \/ Excused(s)'
  BY DEF Registered, Excused
<1>3. PathsFit'
  BY <1>1, <1>2 DEF Fits, PathsFit
<1>4. \A q \in Procs : ListFits(q)'
  <2> SUFFICES ASSUME NEW q \in Procs, Mounts(q)', NEW s \in Slugs, Registered(s)', call'[q].list[s] # None
               PROVE  call'[q].list[s] = Load'[s] \/ Excused(s)'
    BY DEF ListFits
  <2>1. CASE Mounts(q) /\ call'[q].list = call[q].list
    BY <1>1, <1>2, <2>1 DEF Fits, ListFits
  <2> QED
    BY <2>1
<1> QED
  BY <1>3, <1>4 DEF Fits

(* A step of p: the others are disturbed, or see what they saw.            *)
LEMMA CalmStep ==
  ASSUME CallTypes, \A q \in Procs : CalmReached(q), NEW p \in Procs, NEW l, NEW k, Moves(p, l, k),
         calm' \subseteq calm \cup {p},
         calm' \subseteq {p} \/ (Load' = Load /\ slots' = slots),
         p \in calm' /\ k.op = "look" => Reached(l, k, Load', slots')
  PROVE  \A q \in Procs : CalmReached(q)'
<1>1. \A q \in Procs : pc'[q] = (IF q = p THEN l ELSE pc[q]) /\ call'[q] = (IF q = p THEN k ELSE call[q])
  BY Pointwise
<1>2. SUFFICES ASSUME NEW q \in Procs, q \in calm', call'[q].op = "look"
               PROVE  Reached(pc'[q], call'[q], Load', slots')
  BY DEF CalmReached
<1>3. CASE q = p
  BY <1>1, <1>2, <1>3
<1>4. CASE q # p
  BY <1>1, <1>2, <1>4 DEF CalmReached
<1> QED
  BY <1>3, <1>4

(* A step of p that is no mount leaves what is in flight. *)
LEMMA MoveFit ==
  ASSUME CallTypes, Fits, NEW p \in Procs, NEW l, NEW k, Moves(p, l, k), strange' = strange,
         call[p].op = "add" => k.op = "add" /\ k.slug = call[p].slug,
         \A s \in Slugs : Load'[s] \in {None, Load[s]} \/ (k.op = "add" /\ k.slug = s),
         \A s \in Slugs : slots'[s] # None => slots'[s] = slots[s] /\ slot'[slots[s]].path = slot[slots[s]].path,
         l \in {"heal", "boot", "place"} /\ k.op # "add" => \/ Mounts(p) /\ k.list = call[p].list
                                                            \/ k.list = Load'
  PROVE  Fits'
<1>1. \A q \in Procs : pc'[q] = (IF q = p THEN l ELSE pc[q]) /\ call'[q] = (IF q = p THEN k ELSE call[q])
  BY Pointwise
<1>2. \A s \in Slugs : Adding(s) => Adding(s)'
  BY <1>1 DEF Adding
<1>3. \A s \in Slugs : Load'[s] \in {None, Load[s]} \/ s \in strange' \/ Adding(s)'
  BY <1>1 DEF Adding
<1>4. \A q \in Procs : Mounts(q)' => \/ Mounts(q) /\ call'[q].list = call[q].list
                                     \/ call'[q].list = Load'
  BY <1>1 DEF Mounts
<1> QED
  BY <1>2, <1>3, <1>4, FitStep

(* A step of p that leaves registry and table alone. *)
LEMMA QuietStep ==
  ASSUME CallTypes, ConvergeInv, NEW p \in Procs, NEW l, NEW k, Moves(p, l, k), UNCHANGED <<registry, slots, strange>>,
         calm' \subseteq calm \cup {p},
         \A s \in Slugs : slots[s] # None => slot'[slots[s]].path = slot[slots[s]].path,
         call[p].op = "add" => k.op = "add" /\ k.slug = call[p].slug,
         l \in {"heal", "boot", "place"} /\ k.op # "add" => \/ Mounts(p) /\ k.list = call[p].list
                                                            \/ k.list = Load,
         p \in calm' /\ k.op = "look" => Reached(l, k, Load, slots)
  PROVE  ConvergeInv'
<1>1. Load' = Load
  BY DEF Load
<1>2. Fits'
  BY <1>1, MoveFit DEF ConvergeInv
<1>3. \A q \in Procs : CalmReached(q)'
  BY <1>1, CalmStep DEF ConvergeInv
<1> QED
  BY <1>2, <1>3 DEF ConvergeInv

LEMMA PlaceConverges ==
  ASSUME TypeInv, SlotInv, ConvergeInv, NEW p \in Procs, Place(p)
  PROVE  ConvergeInv'
<1> DEFINE add == call[p].op = "add"
           l == IF add THEN "idle" ELSE "heal"
           k == IF add THEN NoCall ELSE [call[p] EXCEPT !.slot = None, !.slug = None, !.path = None]
<1>0. Facts /\ CallTypes /\ TableTypes
  BY TypeFacts DEF Facts
<1>1. Moves(p, l, k)
  BY DEF Place, Ends, Goto, Keep, Moves
<1>2. \A q \in Procs : pc'[q] = (IF q = p THEN l ELSE pc[q]) /\ call'[q] = (IF q = p THEN k ELSE call[q])
  BY <1>0, <1>1, Pointwise
<1>3. /\ pc[p] = "place" /\ call[p].slug \in Slugs /\ Knows("place", call[p])
      /\ slot[call[p].slot].path = call[p].path /\ call[p] \in Calls
  BY <1>0 DEF Place, At, Facts, CallTypes, Knows, SlotInv, Placed
<1>4. /\ \A s \in Slugs : slots'[s] = (IF s = call[p].slug THEN call[p].slot ELSE slots[s])
      /\ slot' = slot /\ Load' = Load /\ strange' = strange \cup Overtaken(p) /\ calm' \subseteq {p} \cap calm
  BY <1>0, <1>3 DEF Place, TableTypes, Load, files, Disturbs
<1>5. \A q \in Procs : Section(pc[q], call[q]) => q = p
  BY <1>3, HubAssumption DEF TypeInv, Control, Mutex, Section
<1>6. \A s \in Slugs \ {call[p].slug} : Excused(s) => Excused(s)'
  BY <1>2, <1>4 DEF Excused, Adding
<1>7. CASE add
  <2>1. k.op = "none"
    BY <1>7, NoCallType
  <2>2. PathsFit'
    <3> SUFFICES ASSUME NEW s \in Slugs, Registered(s)', slots'[s] # None
                 PROVE  slot'[slots'[s]].path = Load'[s] \/ Excused(s)'
      BY DEF PathsFit
    <3>1. CASE s = call[p].slug
      <4>1. Load[s] = call[p].path \/ s \in Overtaken(p)
        BY <1>4, <1>7, <3>1 DEF Overtaken, Registered
      <4> QED
        BY <1>3, <1>4, <3>1, <4>1 DEF Excused
    <3>2. CASE s # call[p].slug
      BY <1>4, <1>6, <3>2 DEF ConvergeInv, Fits, PathsFit, Registered
    <3> QED
      BY <3>1, <3>2
  <2>3. \A q \in Procs : ~Mounts(q)'
    BY <1>2, <1>5, <1>7 DEF Mounts, Section
  <2>4. \A q \in Procs : CalmReached(q)'
    BY <1>0, <1>1, <1>4, <2>1, CalmStep DEF ConvergeInv
  <2> QED
    BY <2>2, <2>3, <2>4 DEF ConvergeInv, Fits, ListFits
<1>8. CASE ~add
  <2>1. /\ k.op = call[p].op /\ k.list = call[p].list /\ k.todo = call[p].todo /\ k \in Calls
        /\ call[p].path = call[p].list[call[p].slug] /\ call[p].path # None /\ Mounts(p)
    BY <1>3, <1>8 DEF Calls, Knows, Mounts
  <2> HIDE DEF k
  <2>2. \A s \in Slugs : Excused(s) => Excused(s)'
    BY <1>2, <1>4, <1>8 DEF Excused, Adding
  <2>3. PathsFit'
    <3> SUFFICES ASSUME NEW s \in Slugs, Registered(s)', slots'[s] # None
                 PROVE  slot'[slots'[s]].path = Load'[s] \/ Excused(s)'
      BY DEF PathsFit
    <3>1. CASE s = call[p].slug
      <4>1. call[p].path = Load[s] \/ Excused(s)
        BY <1>4, <2>1, <3>1 DEF ConvergeInv, Fits, ListFits, Registered
      <4> QED
        BY <1>3, <1>4, <2>2, <3>1, <4>1
    <3>2. CASE s # call[p].slug
      BY <1>4, <2>2, <3>2 DEF ConvergeInv, Fits, PathsFit, Registered
    <3> QED
      BY <3>1, <3>2
  <2>4. \A q \in Procs : ListFits(q)'
    BY <1>2, <1>4, <2>1, <2>2 DEF ConvergeInv, Fits, ListFits, Mounts, Registered
  <2>5. p \in calm' /\ k.op = "look" => Reached(l, k, Load', slots')
    <3>1. call[p].slot # None
      BY <1>3, HubAssumption DEF Knows
    <3>2. SUFFICES ASSUME p \in calm, call[p].op = "look" PROVE Reached("heal", k, Load, slots')
      BY <1>4, <1>8, <2>1
    <3>3. Reached("place", call[p], Load, slots)
      BY <1>3, <3>2 DEF ConvergeInv, CalmReached
    <3>4. \A s \in Slugs : call[p].list[s] = Load[s]
      BY <3>3 DEF Reached
    <3>5. \A s \in Slugs : call[p].list[s] # None /\ s \notin call[p].todo => slots'[s] # None
      BY <1>4, <3>1, <3>3 DEF Reached
    <3> QED
      BY <2>1, <3>4, <3>5 DEF Reached
  <2>6. \A q \in Procs : CalmReached(q)'
    BY <1>0, <1>1, <1>4, <2>5, CalmStep DEF ConvergeInv
  <2> QED
    BY <2>3, <2>4, <2>6 DEF ConvergeInv, Fits
<1> QED
  BY <1>7, <1>8

LEMMA UnmountConverges ==
  ASSUME TypeInv, ConvergeInv, NEW p \in Procs, NEW s \in Slugs, Unmount(p, s)
  PROVE  ConvergeInv'
<1> DEFINE k == [call[p] EXCEPT !.todo = @ \ {s}, !.slot = slots[s]]
<1>0. Facts /\ CallTypes /\ TableTypes
  BY TypeFacts DEF Facts
<1>1. Moves(p, "close", k)
  BY DEF Unmount, Goto, Keep, Moves
<1>2. call[p] \in Calls /\ call[p].op # "add"
  BY <1>0 DEF Unmount, Orphan, At, Facts, CallTypes, Knows
<1>3. k.op = call[p].op /\ k.slug = call[p].slug /\ k.list = call[p].list /\ k.todo = call[p].todo \ {s}
  BY <1>2 DEF Calls
<1>4. /\ \A r \in Slugs : slots'[r] = (IF r = s THEN None ELSE slots[r])
      /\ slot' = slot /\ Load' = Load /\ strange' = strange /\ calm' \subseteq {p} \cap calm
  BY <1>0 DEF Unmount, TableTypes, Load, files, Disturbs
<1> HIDE DEF k
<1>5. Fits'
  BY <1>0, <1>1, <1>2, <1>3, <1>4, MoveFit DEF ConvergeInv
<1>6. p \in calm' /\ k.op = "look" => Reached("close", k, Load', slots')
  <2> SUFFICES ASSUME p \in calm, call[p].op = "look" PROVE Reached("close", k, Load, slots')
    BY <1>3, <1>4
  <2>1. pc[p] = "orphans" /\ s \in call[p].todo
    BY <1>0 DEF Unmount, Orphan, At, Facts, Knows
  <2>2. Reached("orphans", call[p], Load, slots)
    BY <2>1 DEF ConvergeInv, CalmReached
  <2> QED
    BY <1>3, <1>4, <2>1, <2>2 DEF Reached
<1>7. \A q \in Procs : CalmReached(q)'
  BY <1>0, <1>1, <1>4, <1>6, CalmStep DEF ConvergeInv
<1> QED
  BY <1>5, <1>7 DEF ConvergeInv

LEMMA ConvergeStep == TypeInv /\ SlotInv /\ ConvergeInv /\ [Next]_vars => ConvergeInv'
<1> SUFFICES ASSUME TypeInv, SlotInv, ConvergeInv, [Next]_vars PROVE ConvergeInv'
  OBVIOUS
<1>0. Facts /\ CallTypes /\ TableTypes /\ BoundTypes /\ calm \subseteq Procs
  BY TypeFacts DEF Facts, TypeInv, TypeOK, BoundTypes
<1>k. \A p \in Procs : call[p] \in Calls /\ pc[p] \in Labels /\ Knows(pc[p], call[p])
  BY <1>0 DEF Facts, CallTypes
<1>l. Load \in Configs /\ NoCall.op = "none"
  BY LoadType, NoCallType DEF TypeInv, TypeOK
<1> USE DEF At
<1>1. ASSUME NEW p \in Procs, Ends(p), call[p].op # "add", UNCHANGED <<registry, slots, strange, calm>>,
             \A s \in Slugs : slots[s] # None => slot'[slots[s]].path = slot[slots[s]].path
      PROVE ConvergeInv'
  <2>1. Moves(p, "idle", NoCall)
    BY <1>1 DEF Ends, Goto, Keep, Moves
  <2> QED
    BY <1>0, <1>l, <1>1, <2>1, QuietStep
<1>2. ASSUME NEW p \in Procs, NEW l \in Labels, Goto(p, l), UNCHANGED <<call, registry, slots, strange, calm>>,
             \A s \in Slugs : slots[s] # None => slot'[slots[s]].path = slot[slots[s]].path,
             l \in {"heal", "boot", "place"} => Mounts(p) \/ call[p].op = "add",
             call[p].op # "look" \/ (p \in calm => Reached(l, call[p], Load, slots))
      PROVE ConvergeInv'
  <2>1. Moves(p, l, call[p])
    BY <1>0, <1>2, StayMoves
  <2> QED
    BY <1>0, <1>2, <2>1, QuietStep
<1>3. ASSUME NEW p \in Procs, Look(p) PROVE ConvergeInv'
  <2> DEFINE k == [NoCall EXCEPT !.op = "look", !.list = Load, !.todo = Entries(Load)]
  <2>1. Moves(p, "heal", k) /\ pc[p] = "idle"
    BY <1>0, <1>3, ServeMoves DEF Look
  <2>2. k.op = "look" /\ k.list = Load /\ k.todo = Entries(Load) /\ call[p].op # "add"
    BY <1>k, <2>1, NoCallType DEF Knows
  <2>3. Reached("heal", k, Load, slots)
    BY <2>2 DEF Reached, Entries
  <2>4. UNCHANGED <<registry, slots, strange>> /\ slot' = slot /\ calm' \subseteq calm \cup {p}
    BY <1>3 DEF Look, files, mounts
  <2> HIDE DEF k
  <2> QED
    BY <1>0, <2>1, <2>2, <2>3, <2>4, QuietStep
<1>4. ASSUME NEW p \in Procs, NEW s \in Slugs, SkipMounted(p, s) PROVE ConvergeInv'
  <2> DEFINE k == [call[p] EXCEPT !.todo = @ \ {s}]
  <2>1. Moves(p, "heal", k) /\ pc[p] = "heal"
    BY <1>0, <1>4, KeepMoves DEF SkipMounted, Goto, Keep, Moves
  <2>2. k.op = call[p].op /\ k.list = call[p].list /\ k.todo = call[p].todo \ {s}
        /\ call[p].op \in {"look", "start"} /\ Mounts(p)
    BY <1>k, <2>1 DEF Calls, Knows, Mounts
  <2>3. UNCHANGED <<registry, slots, strange>> /\ slot' = slot /\ calm' = calm
    BY <1>4 DEF SkipMounted, files, mounts, history
  <2> HIDE DEF k
  <2>4. p \in calm /\ k.op = "look" => Reached("heal", k, Load, slots)
    <3> SUFFICES ASSUME p \in calm, call[p].op = "look" PROVE Reached("heal", k, Load, slots)
      BY <2>2
    <3>1. Reached("heal", call[p], Load, slots)
      BY <2>1 DEF ConvergeInv, CalmReached
    <3>2. slots[s] # None
      BY <1>4 DEF SkipMounted, Vacant, StatusOf
    <3> QED
      BY <2>2, <3>1, <3>2 DEF Reached
  <2> QED
    BY <1>0, <2>1, <2>2, <2>3, <2>4, QuietStep
<1>5. ASSUME NEW p \in Procs, NEW s \in Slugs, Heal(p, s) PROVE ConvergeInv'
  <2> DEFINE k == [call[p] EXCEPT !.todo = @ \ {s}, !.slug = s, !.path = call[p].list[s]]
  <2>1. Moves(p, "boot", k) /\ pc[p] = "heal"
    BY <1>0, <1>5, KeepMoves DEF Heal, Goto, Keep, Moves
  <2>2. k.op = call[p].op /\ k.list = call[p].list /\ k.todo = call[p].todo \ {s} /\ k.slug = s
        /\ call[p].op \in {"look", "start"} /\ Mounts(p)
    BY <1>k, <2>1 DEF Calls, Knows, Mounts
  <2>3. UNCHANGED <<registry, slots, strange>> /\ slot' = slot /\ calm' = calm
    BY <1>5 DEF Heal, files, mounts, history
  <2> HIDE DEF k
  <2>4. p \in calm /\ k.op = "look" => Reached("boot", k, Load, slots)
    <3> SUFFICES ASSUME p \in calm, call[p].op = "look" PROVE Reached("boot", k, Load, slots)
      BY <2>2
    <3>1. Reached("heal", call[p], Load, slots)
      BY <2>1 DEF ConvergeInv, CalmReached
    <3>2. s \in Slugs
      BY <1>5 DEF Heal
    <3> QED
      BY <2>2, <3>1, <3>2 DEF Reached
  <2> QED
    BY <1>0, <2>1, <2>2, <2>3, <2>4, QuietStep
<1>6. ASSUME NEW p \in Procs, FindOrphans(p) PROVE ConvergeInv'
  <2> DEFINE k == [call[p] EXCEPT !.todo = {s \in Slugs : slots[s] # None /\ call[p].list[s] = None}]
  <2>1. Moves(p, "orphans", k) /\ pc[p] = "heal"
    BY <1>0, <1>6, KeepMoves DEF FindOrphans, Goto, Keep, Moves
  <2>2. k.op = call[p].op /\ k.list = call[p].list /\ k.todo = {s \in Slugs : slots[s] # None /\ call[p].list[s] = None}
        /\ call[p].op \in {"look", "start"} /\ Mounts(p)
    BY <1>k, <2>1 DEF Calls, Knows, Mounts
  <2>3. UNCHANGED <<registry, slots, strange>> /\ slot' = slot /\ calm' = calm
    BY <1>6 DEF FindOrphans, files, mounts, history
  <2> HIDE DEF k
  <2>4. p \in calm /\ k.op = "look" => Reached("orphans", k, Load, slots)
    <3> SUFFICES ASSUME p \in calm, call[p].op = "look" PROVE Reached("orphans", k, Load, slots)
      BY <2>2
    <3>1. Reached("heal", call[p], Load, slots)
      BY <2>1 DEF ConvergeInv, CalmReached
    <3>2. call[p].todo = {}
      BY <1>6 DEF FindOrphans
    <3> QED
      BY <2>2, <3>1, <3>2 DEF Reached
  <2> QED
    BY <1>0, <2>1, <2>2, <2>3, <2>4, QuietStep
<1>7. ASSUME NEW p \in Procs, Started(p) \/ Answer(p) PROVE ConvergeInv'
  <2>1. call[p].op # "add"
    BY <1>k, <1>7 DEF Started, Answer, Knows
  <2> QED
    BY <1>1, <1>7, <2>1 DEF Started, Answer, files, mounts, history
<1>8. ASSUME NEW p \in Procs, BootRefused(p) \/ Discard(p) PROVE ConvergeInv'
  <2>1. call[p].op # "add"
    BY <1>k, <1>8 DEF BootRefused, Discard, Knows
  <2> QED
    BY <1>1, <1>8, <2>1 DEF BootRefused, Discard, files, mounts, history
<1>9. ASSUME NEW p \in Procs, Healed(p) PROVE ConvergeInv'
  <2>1. p \in calm => Reached("answer", call[p], Load, slots)
    <3>1. pc[p] = "orphans" /\ call[p].todo = {} /\ call[p].op = "look"
      BY <1>k, <1>9 DEF Healed, Knows
    <3>2. p \in calm => Reached("orphans", call[p], Load, slots)
      BY <3>1 DEF ConvergeInv, CalmReached
    <3> SUFFICES ASSUME p \in calm PROVE Reached("answer", call[p], Load, slots)
      OBVIOUS
    <3>3. \A s \in Slugs : call[p].list[s] = Load[s]
      BY <3>2 DEF Reached
    <3>4. \A s \in Slugs : call[p].list[s] # None <=> slots[s] # None
      BY <3>1, <3>2 DEF Reached
    <3> QED
      BY <3>3, <3>4 DEF Reached
  <2> QED
    BY <1>2, <1>9, <2>1 DEF Healed, files, mounts, history, Labels
<1>10. ASSUME NEW p \in Procs, Mount(p) PROVE ConvergeInv'
  <2>1. call[p].op = "add"
    BY <1>k, <1>10 DEF Mount, Knows
  <2> QED
    BY <1>2, <1>10, <2>1 DEF Mount, files, mounts, history, Labels
<1>11. ASSUME NEW p \in Procs, TryBoot(p) PROVE ConvergeInv'
  <2>1. call[p].op = "setup"
    BY <1>k, <1>11 DEF TryBoot, Knows
  <2> QED
    BY <1>2, <1>11, <2>1 DEF TryBoot, files, history, Labels
<1>12. ASSUME NEW p \in Procs, Swap(p) PROVE ConvergeInv'
  <2>1. call[p].op = "setup" /\ call[p].slot \in Slots
    BY <1>k, <1>12 DEF Swap, Knows
  <2>2. \A s \in Slugs : slots[s] # None => slot'[slots[s]].path = slot[slots[s]].path
    BY <1>0, <1>12, <2>1 DEF Swap, TableTypes, SlotType
  <2>3. CASE Ends(p)
    BY <1>1, <1>12, <2>1, <2>2, <2>3 DEF Swap, files, history
  <2>4. CASE Goto(p, "discard") /\ UNCHANGED call
    BY <1>2, <1>12, <2>1, <2>2, <2>4 DEF Swap, files, history, Labels
  <2> QED
    BY <1>12, <2>3, <2>4 DEF Swap
<1>13. ASSUME NEW p \in Procs, InitRepo(p) PROVE ConvergeInv'
  <2>1. call[p].op = "setup"
    BY <1>k, <1>13 DEF InitRepo, Knows
  <2>2. CASE Ends(p)
    BY <1>1, <1>13, <2>1, <2>2 DEF InitRepo, mounts, history
  <2>3. CASE Goto(p, "wizard") /\ UNCHANGED call
    BY <1>2, <1>13, <2>1, <2>3 DEF InitRepo, mounts, history, Labels
  <2> QED
    BY <1>13, <2>2, <2>3 DEF InitRepo
<1>14. ASSUME NEW p \in Procs, NEW i \in Slots, Boot(p, i) PROVE ConvergeInv'
  <2> DEFINE k == [call[p] EXCEPT !.slot = i]
  <2>1. Moves(p, "place", k) /\ pc[p] = "boot"
    BY <1>14 DEF Boot, Goto, Keep, Moves
  <2>2. k.op = call[p].op /\ k.list = call[p].list /\ k.todo = call[p].todo /\ k.slug = call[p].slug
        /\ (k.op # "add" => Mounts(p))
    BY <1>k, <2>1 DEF Calls, Mounts
  <2>3. UNCHANGED <<registry, slots, strange>> /\ calm' = calm
    BY <1>14 DEF Boot, files, history
  <2>4. \A s \in Slugs : slots[s] # None => slot'[slots[s]].path = slot[slots[s]].path
    BY <1>0, <1>14 DEF Boot, Fresh, Unused, TableTypes
  <2> HIDE DEF k
  <2>5. p \in calm /\ k.op = "look" => Reached("place", k, Load, slots)
    BY <2>1, <2>2 DEF ConvergeInv, CalmReached, Reached
  <2> QED
    BY <1>0, <2>1, <2>2, <2>3, <2>4, <2>5, QuietStep
<1>15. ASSUME NEW p \in Procs, Close(p) PROVE ConvergeInv'
  <2> DEFINE l == IF call[p].op = "look" THEN "orphans" ELSE "unregister"
             k == [call[p] EXCEPT !.slot = None]
  <2>1. Moves(p, l, k) /\ pc[p] = "close"
    BY <1>15 DEF Close, Goto, Keep, Moves
  <2>2. k.op = call[p].op /\ k.list = call[p].list /\ k.todo = call[p].todo /\ k.op # "add"
    BY <1>k, <2>1 DEF Calls, Knows
  <2>3. UNCHANGED <<registry, slots, strange>> /\ calm' = calm /\ slot' = slot
    BY <1>15 DEF Close, files, history
  <2> HIDE DEF k
  <2>4. p \in calm /\ k.op = "look" => Reached(l, k, Load, slots)
    BY <2>1, <2>2 DEF ConvergeInv, CalmReached, Reached
  <2> QED
    BY <1>0, <2>1, <2>2, <2>3, <2>4, QuietStep
<1>16. ASSUME NEW p \in Procs, NEW s \in Slugs, Remove(p, s) PROVE ConvergeInv'
  <2> DEFINE k == [NoCall EXCEPT !.op = "remove", !.slug = s]
  <2>1. Moves(p, "unmount", k) /\ pc[p] = "idle"
    BY <1>0, <1>16, ServeMoves DEF Remove
  <2>2. k.op = "remove" /\ call[p].op # "add"
    BY <1>k, <2>1, NoCallType DEF Knows
  <2>3. UNCHANGED <<registry, slots, strange>> /\ slot' = slot /\ calm' = calm
    BY <1>16 DEF Remove, files, mounts, history
  <2> HIDE DEF k
  <2> QED
    BY <1>0, <2>1, <2>2, <2>3, QuietStep
<1>17. ASSUME NEW p \in Procs, NEW s \in Slugs, Setup(p, s) PROVE ConvergeInv'
  <2> DEFINE k == [NoCall EXCEPT !.op = "setup", !.slot = slots[s]]
  <2>1. Moves(p, "init", k) /\ pc[p] = "idle"
    BY <1>0, <1>17, ServeMoves DEF Setup
  <2>2. k.op = "setup" /\ call[p].op # "add"
    BY <1>k, <2>1, NoCallType DEF Knows
  <2>3. UNCHANGED <<registry, slots, strange>> /\ slot' = slot /\ calm' = calm
    BY <1>17 DEF Setup, files, mounts, history
  <2> HIDE DEF k
  <2> QED
    BY <1>0, <2>1, <2>2, <2>3, QuietStep
<1>18. ASSUME NEW p \in Procs, NEW d \in Paths, NEW s \in Slugs, Add(p, d, s) PROVE ConvergeInv'
  <2> DEFINE k == [NoCall EXCEPT !.op = "add", !.slug = s, !.path = d]
  <2>1. Moves(p, "mount", k) /\ pc[p] = "idle"
    BY <1>0, <1>18, ServeMoves DEF Add
  <2>2. k.op = "add" /\ k.slug = s /\ call[p].op # "add"
    BY <1>k, <2>1, NoCallType DEF Knows
  <2>3. slots' = slots /\ slot' = slot /\ strange' = strange /\ calm' \subseteq {p} \cap calm
    BY <1>18 DEF Add, mounts, Disturbs
  <2>4. \A t \in Slugs \ {s} : Load'[t] = Load[t]
    <3>1. registry' = [Load EXCEPT ![s] = d] /\ registry' \in Configs
      BY <1>l, <1>18 DEF Add, Configs
    <3>2. Load' = registry'
      BY <3>1, HubAssumption DEF Load
    <3> QED
      BY <1>l, <3>1, <3>2 DEF Configs
  <2> HIDE DEF k
  <2>5. Fits'
    BY <1>0, <2>1, <2>2, <2>3, <2>4, MoveFit DEF ConvergeInv
  <2>6. \A q \in Procs : CalmReached(q)'
    BY <1>0, <2>1, <2>2, <2>3, CalmStep DEF ConvergeInv
  <2> QED
    BY <2>5, <2>6 DEF ConvergeInv
<1>19. ASSUME NEW p \in Procs, Unregister(p) PROVE ConvergeInv'
  <2>1. Moves(p, "idle", NoCall) /\ call[p].op = "remove" /\ call[p].slug \in Slugs
    BY <1>k, <1>19 DEF Unregister, Ends, Goto, Keep, Moves, Knows
  <2>2. slots' = slots /\ slot' = slot /\ strange' = strange /\ calm' \subseteq calm
    BY <1>19 DEF Unregister, mounts, Disturbs
  <2>3. \A t \in Slugs : Load'[t] \in {None, Load[t]}
    <3>1. CASE registry' = [Load EXCEPT ![call[p].slug] = None]
      <4>1. registry' \in Configs
        BY <1>l, <2>1, <3>1 DEF Configs
      <4>2. Load' = registry'
        BY <4>1, HubAssumption DEF Load
      <4> QED
        BY <1>l, <3>1, <4>2 DEF Configs
    <3>2. CASE registry' = registry
      BY <3>2 DEF Load
    <3> QED
      BY <1>19, <3>1, <3>2 DEF Unregister
  <2>4. Fits'
    BY <1>0, <1>l, <2>1, <2>2, <2>3, MoveFit DEF ConvergeInv
  <2>5. calm' \subseteq {p} \/ Load' = Load
    BY <1>19 DEF Unregister, Disturbs, Load
  <2>6. \A q \in Procs : CalmReached(q)'
    BY <1>0, <1>l, <2>1, <2>2, <2>5, CalmStep DEF ConvergeInv
  <2> QED
    BY <2>4, <2>6 DEF ConvergeInv
<1>20. ASSUME OtherWrites \/ Damaged PROVE ConvergeInv'
  <2>1. slots' = slots /\ slot' = slot /\ pc' = pc /\ call' = call /\ calm' = {} /\ strange \subseteq strange'
    BY <1>20 DEF OtherWrites, Damaged, mounts
  <2>2. \A s \in Slugs : Load'[s] \in {None, Load[s]} \/ s \in strange'
    <3>1. CASE Damaged
      BY <3>1 DEF Damaged, Load, Empty
    <3>2. CASE OtherWrites
      <4>1. registry' \in Configs
        BY <1>20, <3>2 DEF OtherWrites, Configs, TypeInv, TypeOK
      <4>2. Load' = registry'
        BY <4>1, HubAssumption DEF Load
      <4> QED
        BY <3>2, <4>2 DEF OtherWrites
    <3> QED
      BY <1>20, <3>1, <3>2
  <2>3. \A s \in Slugs : Adding(s) => Adding(s)'
    BY <2>1 DEF Adding
  <2>4. \A q \in Procs : Mounts(q)' => Mounts(q) /\ call'[q].list = call[q].list
    BY <2>1 DEF Mounts
  <2>5. Fits'
    BY <2>1, <2>2, <2>3, <2>4, FitStep DEF ConvergeInv
  <2> QED
    BY <2>1, <2>5 DEF ConvergeInv, CalmReached
<1>21. ASSUME CloseHub PROVE ConvergeInv'
  <2>1. /\ registry' = registry /\ pc' = pc /\ call' = call /\ strange' = strange
        /\ \A s \in Slugs : slots'[s] = None
        /\ \A p \in Procs : call[p].op = "none" /\ pc[p] = "idle"
    BY <1>k, <1>21 DEF CloseHub, files, history, Knows
  <2>2. PathsFit' /\ \A q \in Procs : ListFits(q)' /\ CalmReached(q)'
    BY <2>1 DEF PathsFit, ListFits, Mounts, CalmReached
  <2> QED
    BY <2>2 DEF ConvergeInv, Fits
<1>22. ASSUME UNCHANGED <<registry, slots, slot, pc, call, calm, strange>> PROVE ConvergeInv'
  BY <1>22 DEF ConvergeInv, Fits, PathsFit, ListFits, Mounts, Excused, Adding, CalmReached, Registered, Load
<1>23. ASSUME OtherReads \/ \E d \in Paths : DirChanges(d) PROVE ConvergeInv'
  BY <1>22, <1>23 DEF OtherReads, DirChanges, mounts, history
<1>24. ASSUME UNCHANGED vars PROVE ConvergeInv'
  BY <1>22, <1>24 DEF vars, files, mounts, history
<1> QED
  BY <1>3, <1>4, <1>5, <1>6, <1>7, <1>8, <1>9, <1>10, <1>11, <1>12, <1>13, <1>14, <1>15, <1>16, <1>17, <1>18, <1>19, <1>20, <1>21, <1>22, <1>23, <1>24,
     PlaceConverges, UnmountConverges DEF Next, Step

LEMMA ConvergeInit == Init => ConvergeInv
<1> SUFFICES ASSUME Init PROVE ConvergeInv
  OBVIOUS
<1>1. PICK p \in Procs : call = [q \in Procs |-> IF q = p THEN Starting(p) ELSE NoCall]
  BY DEF Init
<1>2. /\ \A s \in Slugs : slots[s] = None
      /\ calm = {} /\ Load = registry /\ \A q \in Procs \ {p} : pc[q] = "idle" \/ call[q] = NoCall
  BY <1>1, HubAssumption DEF Init, Load
<1>3. Starting(p).list = registry
  BY NoCallType DEF Starting
<1>4. \A q \in Procs : ListFits(q)
  <2>1. PICK m \in Procs : /\ pc = [q \in Procs |-> IF q = m THEN "heal" ELSE "idle"]
                           /\ call = [q \in Procs |-> IF q = m THEN Starting(m) ELSE NoCall]
    BY DEF Init
  <2>2. Starting(m).list = registry
    BY NoCallType DEF Starting
  <2> QED
    BY <1>2, <2>1, <2>2 DEF ListFits, Mounts
<1> QED
  BY <1>2, <1>4 DEF ConvergeInv, Fits, PathsFit, CalmReached

(* "The registry file is the authority; the in-memory table converges to   *)
(* it" (hub.go:131-132): for any number of requests and other hubs, what   *)
(* an undisturbed landing answers is what the file says.                   *)
THEOREM LandingConverges == Spec => []LookConverges
<1>1. Init => TypeInv /\ SlotInv /\ ConvergeInv
  BY TypeInit, SlotInit, ConvergeInit
<1>2. TypeInv /\ SlotInv /\ ConvergeInv /\ [Next]_vars => (TypeInv /\ SlotInv /\ ConvergeInv)'
  BY TypeStep, SlotStep, ConvergeStep
<1>3. TypeInv /\ ConvergeInv => LookConverges
  <2> SUFFICES ASSUME TypeInv, ConvergeInv, NEW p \in Procs, At(p, "answer"), p \in calm, NEW s \in Slugs
               PROVE  /\ Registered(s) <=> slots[s] # None
                      /\ \/ slots[s] = None \/ s \in strange \/ slot[slots[s]].path = Load[s]
                         \/ \E q \in Procs : call[q].op = "add" /\ call[q].slug = s
    BY DEF LookConverges
  <2>1. call[p].op = "look"
    BY DEF At, TypeInv, Control, Knows
  <2>2. Reached("answer", call[p], Load, slots)
    BY <2>1 DEF At, ConvergeInv, CalmReached
  <2>3. Registered(s) <=> slots[s] # None
    BY <2>2 DEF Reached, Registered
  <2> QED
    BY <2>3 DEF ConvergeInv, Fits, PathsFit, Excused, Adding
<1> QED
  BY <1>1, <1>2, <1>3, PTL DEF Spec
=============================================================================
