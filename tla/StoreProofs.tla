--------------------------- MODULE StoreProofs ----------------------------
(***************************************************************************)
(* Theorems about the store of a change's document: about WorkflowStore,   *)
(* for any clients, calls, documents and bounds, and about Migration, for  *)
(* any trees, processes and bounds. The two share TaskTree, no variable.   *)
(*                                                                         *)
(* For WorkflowStore the documents stay opaque in the first three parts,   *)
(* which turn on who reads, who writes, and which event is still pending;  *)
(* the fourth looks into the task tree, at what each operation makes of    *)
(* the tasks it is given.                                                  *)
(*                                                                         *)
(* Migration's theorems come from one inductive invariant, MigrationInv,   *)
(* and from what is true of the data: that the walk's order gives every    *)
(* file of a well formed tree a place of its own, so that a reading says   *)
(* what the tree said, and that the steps of a migration are in one order  *)
(* for every process, so that what one of two writers has made contains    *)
(* what the other has.                                                     *)
(***************************************************************************)
EXTENDS WorkflowStore, Migration, FiniteSetTheorems, SequenceTheorems, TLAPS

-----------------------------------------------------------------------------
(* Type correctness                                                        *)

(* A scan that is about to be swapped in holds something that was on disk. *)
ScansTaken == \A p \in Procs : InSwap(p) => snap[p] \in Files

TypeInv == TypeOK /\ ScansTaken

LEMMA DecomposedIsTask ==
  ASSUME NEW c \in AllCalls, c.op = "decompose"
  PROVE  c.task \in TaskIds
BY DEF AllCalls

LEMMA InitTypeInv == Init => TypeInv
<1>1. SUFFICES ASSUME Init PROVE TypeInv
  OBVIOUS
<1>2. TypeOK
  BY <1>1, StoreAssumption DEF Init, TypeOK, Files, Labels
<1>3. ScansTaken
  BY <1>1 DEF Init, ScansTaken, InSwap
<1> QED
  BY <1>2, <1>3 DEF TypeInv

(* What a Goto does to the two functions it changes. *)
LEMMA GotoType ==
  ASSUME TypeOK, NEW p \in Procs, NEW label \in Labels, Goto(p, label)
  PROVE  /\ pc' \in [Procs -> Labels]
         /\ call' \in [Procs -> Calls \cup {None}]
         /\ pc' = [pc EXCEPT ![p] = label]
BY DEF TypeOK, Goto

LEMMA ClientStepType ==
  ASSUME TypeInv, NEW p \in Clients,
         (\E c \in Calls : Begin(p, c)) \/ CallStep(p)
  PROVE  TypeInv'
<1> USE DEF TypeInv, Procs
<1>1. CASE \E c \in Calls : Begin(p, c)
  <2>1. PICK c \in Calls : Begin(p, c)
    BY <1>1
  <2>2. containers' \subseteq TaskIds /\ dirty' \in BOOLEAN
    <3>1. CASE c.op = "decompose"
      <4>1. c.task \in TaskIds
        BY <3>1, StoreAssumption, DecomposedIsTask
      <4>2. containers' = containers \cup {c.task} /\ dirty' = TRUE
        BY <2>1, <3>1 DEF Begin
      <4> QED
        BY <4>1, <4>2 DEF TypeOK
    <3>2. CASE c.op # "decompose"
      <4>1. containers' = containers /\ dirty' = dirty
        BY <2>1, <3>2 DEF Begin
      <4> QED
        BY <4>1 DEF TypeOK
    <3> QED
      BY <3>1, <3>2
  <2>3. pc' \in [Procs -> Labels] /\ ~InSwap(p)'
    BY <2>1 DEF Begin, TypeOK, Labels, InSwap
  <2>4. TypeOK'
    BY <2>1, <2>2, <2>3 DEF Begin, TypeOK
  <2>5. \A q \in Procs : InSwap(q)' => InSwap(q)
    BY <2>1, <2>3 DEF Begin, InSwap, TypeOK
  <2>6. ScansTaken'
    BY <2>1, <2>5 DEF Begin, ScansTaken, TypeOK
  <2> QED
    BY <2>4, <2>6
<1>2. CASE Read(p)
  <2>1. pc' = [pc EXCEPT ![p] = "save"] /\ pc' \in [Procs -> Labels]
        /\ call' \in [Procs -> Calls \cup {None}]
    BY <1>2, GotoType DEF Read, Labels
  <2> QED
    BY <1>2, <2>1 DEF Read, TypeOK, ScansTaken, InSwap, counters
<1>3. CASE Refuse(p)
  <2>1. pc' = [pc EXCEPT ![p] = "idle"] /\ pc' \in [Procs -> Labels]
        /\ call' \in [Procs -> Calls \cup {None}]
    BY <1>3, GotoType DEF Refuse, Labels
  <2> QED
    BY <1>3, <2>1 DEF Refuse, TypeOK, ScansTaken, InSwap, counters, stored
<1>4. CASE Save(p)
  <2>1. pc' = [pc EXCEPT ![p] = "scan"] /\ pc' \in [Procs -> Labels]
        /\ call' \in [Procs -> Calls \cup {None}]
    BY <1>4, GotoType DEF Save, Labels
  <2>2. disk' \in Files
    BY <1>4 DEF Save, Valid, Files
  <2> QED
    BY <1>4, <2>1, <2>2 DEF Save, TypeOK, ScansTaken, InSwap, counters
<1>5. CASE SaveFails(p)
  <2>1. pc' = [pc EXCEPT ![p] = "idle"] /\ pc' \in [Procs -> Labels]
        /\ call' \in [Procs -> Calls \cup {None}]
    BY <1>5, GotoType DEF SaveFails, Labels
  <2> QED
    BY <1>5, <2>1 DEF SaveFails, TypeOK, ScansTaken, InSwap, counters, stored
<1> QED
  BY <1>1, <1>2, <1>3, <1>4, <1>5 DEF CallStep

LEMMA ReloadStepType ==
  ASSUME TypeInv, NEW p \in Procs, ReloadStep(p)
  PROVE  TypeInv'
<1> USE DEF TypeInv
<1>1. CASE Scan(p)
  <2>1. PICK label \in {"swap", "swap2"} : Goto(p, label)
    BY <1>1 DEF Scan
  <2>2. pc' = [pc EXCEPT ![p] = label] /\ pc' \in [Procs -> Labels]
        /\ call' \in [Procs -> Calls \cup {None}]
    BY <2>1, GotoType DEF Labels
  <2> QED
    BY <1>1, <2>2 DEF Scan, TypeOK, ScansTaken, InSwap, stored, counters
<1>2. CASE Swap(p)
  <2>1. PICK label \in {"sync", "idle"} : Goto(p, label)
    BY <1>2 DEF Swap, AfterSwap
  <2>2. pc' = [pc EXCEPT ![p] = label] /\ pc' \in [Procs -> Labels]
        /\ call' \in [Procs -> Calls \cup {None}]
    BY <2>1, GotoType DEF Labels
  <2>3. cache' \in Files
    BY <1>2 DEF Swap, At, ScansTaken, InSwap
  <2> QED
    BY <1>2, <2>2, <2>3 DEF Swap, TypeOK, ScansTaken, InSwap, stored, counters
<1> QED
  BY <1>1, <1>2 DEF ReloadStep

LEMMA SyncStepType ==
  ASSUME TypeInv, NEW p \in Procs, SyncStep(p)
  PROVE  TypeInv'
<1> USE DEF TypeInv
<1>1. CASE Sync(p)
  <2>1. PICK label \in {"syncRead", "idle"} : Goto(p, label)
    BY <1>1 DEF Sync
  <2>2. pc' = [pc EXCEPT ![p] = label] /\ pc' \in [Procs -> Labels]
        /\ call' \in [Procs -> Calls \cup {None}]
    BY <2>1, GotoType DEF Labels
  <2>3. snap' = snap \/ snap' = [snap EXCEPT ![p] = cache]
    BY <1>1 DEF Sync
  <2> QED
    BY <1>1, <2>2, <2>3 DEF Sync, TypeOK, ScansTaken, InSwap, stored, counters
<1>2. CASE SyncRead(p)
  <2>1. PICK label \in {"syncSave", "idle"} : Goto(p, label)
    BY <1>2 DEF SyncRead
  <2>2. pc' = [pc EXCEPT ![p] = label] /\ pc' \in [Procs -> Labels]
        /\ call' \in [Procs -> Calls \cup {None}]
    BY <2>1, GotoType DEF Labels
  <2> QED
    BY <1>2, <2>2 DEF SyncRead, TypeOK, ScansTaken, InSwap, stored, counters
<1>3. CASE SyncSave(p)
  <2>1. pc' = [pc EXCEPT ![p] = "scan2"] /\ pc' \in [Procs -> Labels]
        /\ call' \in [Procs -> Calls \cup {None}]
    BY <1>3, GotoType DEF SyncSave, Labels
  <2>2. disk' \in Files
    BY <1>3 DEF SyncSave, Valid, Files
  <2> QED
    BY <1>3, <2>1, <2>2 DEF SyncSave, TypeOK, ScansTaken, InSwap, counters
<1>4. CASE SyncFails(p)
  <2>1. pc' = [pc EXCEPT ![p] = "idle"] /\ pc' \in [Procs -> Labels]
        /\ call' \in [Procs -> Calls \cup {None}]
    BY <1>4, GotoType DEF SyncFails, Labels
  <2> QED
    BY <1>4, <2>1 DEF SyncFails, TypeOK, ScansTaken, InSwap, stored, counters
<1> QED
  BY <1>1, <1>2, <1>3, <1>4 DEF SyncStep

LEMMA EnvironmentStepType ==
  ASSUME TypeInv, Fire \/ (\E doc \in ExternalDocs : External(doc)) \/ Restart
  PROVE  TypeInv'
<1> USE DEF TypeInv
<1>1. CASE Fire
  <2>1. pc' = [pc EXCEPT ![Watcher] = "scan"] /\ pc' \in [Procs -> Labels]
        /\ call' \in [Procs -> Calls \cup {None}]
    BY <1>1, GotoType DEF Fire, Labels, Procs
  <2> QED
    BY <1>1, <2>1 DEF Fire, TypeOK, ScansTaken, InSwap, stored, counters
<1>2. CASE \E doc \in ExternalDocs : External(doc)
  BY <1>2, StoreAssumption DEF External, TypeOK, ScansTaken, InSwap
<1>3. CASE Restart
  <2>1. /\ pc' = [p \in Procs |-> "idle"] /\ "idle" \in Labels
        /\ call' = [p \in Procs |-> None] /\ snap' = [p \in Procs |-> None]
    BY <1>3 DEF Restart, Labels
  <2>2. TypeOK'
    <3>1. pc' \in [Procs -> Labels] /\ call' \in [Procs -> Calls \cup {None}]
          /\ snap' \in [Procs -> Files \cup {None}]
      BY <2>1
    <3>2. disk' = disk /\ cache' = disk /\ containers' = containers
      BY <1>3 DEF Restart, stored
    <3>3. dirty' \in BOOLEAN /\ excused' \in BOOLEAN
      BY <1>3 DEF Restart
    <3>4. calls' \in Nat /\ edits' \in Nat /\ restarts' \in Nat
      BY <1>3 DEF Restart, TypeOK
    <3> QED
      BY <3>1, <3>2, <3>3, <3>4 DEF TypeOK
  <2>3. ScansTaken'
    BY <2>1 DEF ScansTaken, InSwap
  <2> QED
    BY <2>2, <2>3
<1> QED
  BY <1>1, <1>2, <1>3

LEMMA StepTypeInv ==
  ASSUME TypeInv, [Next]_vars
  PROVE  TypeInv'
<1>1. CASE Next
  BY <1>1, ClientStepType, ReloadStepType, SyncStepType, EnvironmentStepType DEF Next
<1>2. CASE UNCHANGED vars
  BY <1>2 DEF vars, stored, counters, TypeInv, TypeOK, ScansTaken, InSwap
<1> QED
  BY <1>1, <1>2

LEMMA TypeInvariance == Spec => []TypeInv
<1>1. Init => TypeInv
  BY InitTypeInv
<1>2. TypeInv /\ [Next]_vars => TypeInv'
  BY StepTypeInv
<1> QED
  BY <1>1, <1>2, PTL DEF Spec

(* Every variable keeps its type: no scan is swapped into the cache before *)
(* it was taken, and nothing unvalidated reaches the disk                  *)
(* (Store.Reload, writeState).                                             *)
THEOREM TypeCorrect == Spec => []TypeOK
<1>1. TypeInv => TypeOK
  BY DEF TypeInv
<1> QED
  BY <1>1, TypeInvariance, PTL

-----------------------------------------------------------------------------
(* Staleness: what is out of date has an event or a round still to come    *)

LEMMA GotoLabel ==
  ASSUME TypeOK, NEW p \in Procs, NEW label, Goto(p, label)
  PROVE  /\ pc'[p] = label
         /\ \A q \in Procs : q # p => pc'[q] = pc[q]
BY DEF TypeOK, Goto

LEMMA WatcherIsNoClient ==
  /\ Watcher \in Procs
  /\ \A p \in Clients : p \in Procs /\ p # Watcher
BY StoreAssumption DEF Procs

(* The disk changes with an event, and an event is only consumed by Fire.  *)
LEMMA DiskChangesAreSeen ==
  ASSUME TypeOK, Next
  PROVE  /\ disk' # disk => dirty'
         /\ dirty /\ ~Fire /\ ~Restart => dirty'
<1>1. ASSUME NEW p \in Clients, (\E c \in Calls : Begin(p, c)) \/ CallStep(p)
      PROVE  (disk' # disk => dirty') /\ (dirty => dirty')
  <2>1. CASE \E c \in Calls : Begin(p, c)
    BY <2>1 DEF Begin
  <2>2. CASE Read(p)
    BY <2>2 DEF Read
  <2>3. CASE Refuse(p) \/ Save(p) \/ SaveFails(p)
    BY <2>3 DEF Refuse, Save, SaveFails, stored
  <2> QED
    BY <1>1, <2>1, <2>2, <2>3 DEF CallStep
<1>2. ASSUME NEW p \in Procs, ReloadStep(p) \/ SyncStep(p)
      PROVE  (disk' # disk => dirty') /\ (dirty => dirty')
  BY <1>2 DEF ReloadStep, Scan, Swap, SyncStep, Sync, SyncRead, SyncSave, SyncFails, stored
<1>3. ASSUME NEW doc \in ExternalDocs, External(doc)
      PROVE  (disk' # disk => dirty') /\ (dirty => dirty')
  BY <1>3 DEF External
<1>4. CASE Fire
  BY <1>4 DEF Fire, stored
<1>5. CASE Restart
  BY <1>5 DEF Restart, stored
<1> QED
  BY <1>1, <1>2, <1>3, <1>4, <1>5 DEF Next

LEMMA StepStaleScan ==
  ASSUME PromptReload, TypeOK, StaleScanPending, Next
  PROVE  StaleScanPending'
<1>1. SUFFICES ASSUME NEW q \in Procs, InSwap(q)', snap'[q] # disk'
               PROVE  dirty'
  BY DEF StaleScanPending
<1>2. CASE Fire
  <2>1. \A p \in Procs : ~InSwap(p)'
    <3>1. pc'[Watcher] = "scan" /\ \A p \in Clients : pc'[p] = pc[p]
      BY <1>2, GotoLabel, WatcherIsNoClient DEF Fire
    <3>2. \A p \in Clients : ~InSwap(p)
      BY <1>2 DEF Fire, InSwap
    <3> QED
      BY <3>1, <3>2 DEF InSwap, Procs
  <2> QED
    BY <1>1, <2>1
<1>3. CASE Restart
  BY <1>1, <1>3 DEF Restart, InSwap
<1>4. CASE ~Fire /\ ~Restart
  <2>1. SUFFICES ASSUME ~dirty PROVE disk' = disk => (InSwap(q) /\ snap[q] # disk)
    BY <1>1, <1>4, DiskChangesAreSeen DEF StaleScanPending
  <2>2. SUFFICES ASSUME disk' = disk PROVE InSwap(q) /\ snap[q] # disk
    OBVIOUS
  <2>3. ASSUME NEW p \in Clients, (\E c \in Calls : Begin(p, c)) \/ CallStep(p)
        PROVE  InSwap(q) /\ snap[q] # disk
    <3>1. snap' = snap
      BY <2>3 DEF Begin, CallStep, Read, Refuse, Save, SaveFails
    <3>2. \E label \in Labels \ {"swap", "swap2"} : pc' = [pc EXCEPT ![p] = label]
      BY <2>3 DEF Begin, CallStep, Read, Refuse, Save, SaveFails, Goto, Labels
    <3> QED
      BY <1>1, <2>2, <3>1, <3>2 DEF InSwap, TypeOK
  <2>4. ASSUME NEW p \in Procs, ReloadStep(p)
        PROVE  InSwap(q) /\ snap[q] # disk
    <3>1. CASE Scan(p)
      <4>1. snap' = [snap EXCEPT ![p] = disk] /\ disk' = disk
        BY <3>1 DEF Scan, stored
      <4>2. p # q
        BY <1>1, <4>1 DEF TypeOK
      <4>3. pc'[q] = pc[q]
        BY <3>1, <4>2, GotoLabel DEF Scan
      <4> QED
        BY <1>1, <4>1, <4>2, <4>3 DEF InSwap, TypeOK
    <3>2. CASE Swap(p)
      <4>1. snap' = [snap EXCEPT ![p] = None]
        BY <3>2 DEF Swap
      <4>2. pc'[p] \in {"sync", "idle"} /\ \A r \in Procs : r # p => pc'[r] = pc[r]
        BY <3>2, GotoLabel DEF Swap, AfterSwap
      <4> QED
        BY <1>1, <2>2, <4>1, <4>2 DEF InSwap, TypeOK
    <3> QED
      BY <2>4, <3>1, <3>2 DEF ReloadStep
  <2>5. ASSUME NEW p \in Procs, SyncStep(p)
        PROVE  InSwap(q) /\ snap[q] # disk
    <3>1. /\ pc'[p] \notin {"swap", "swap2"}
          /\ \A r \in Procs : r # p => pc'[r] = pc[r]
      BY <2>5, GotoLabel DEF SyncStep, Sync, SyncRead, SyncSave, SyncFails
    <3>2. \A r \in Procs : r # p => snap'[r] = snap[r]
      BY <2>5 DEF SyncStep, Sync, SyncRead, SyncSave, SyncFails, TypeOK
    <3> QED
      BY <1>1, <2>2, <3>1, <3>2 DEF InSwap
  <2>6. ASSUME NEW doc \in ExternalDocs, External(doc)
        PROVE  InSwap(q) /\ snap[q] # disk
    BY <1>1, <2>2, <2>6 DEF External, InSwap
  <2> QED
    BY <1>4, <2>3, <2>4, <2>5, <2>6 DEF Next
<1> QED
  BY <1>2, <1>3, <1>4

(* A step that is not the watcher's leaves the watcher where it was. *)
LEMMA WatcherStays ==
  ASSUME TypeOK, NEW p \in Clients,
         \/ \E c \in Calls : Begin(p, c)
         \/ CallStep(p) \/ ReloadStep(p) \/ SyncStep(p)
  PROVE  pc'[Watcher] = pc[Watcher]
<1>1. CASE \E c \in Calls : Begin(p, c)
  BY <1>1, WatcherIsNoClient DEF Begin, TypeOK
<1>2. CASE CallStep(p)
  BY <1>2, GotoLabel, WatcherIsNoClient DEF CallStep, Read, Refuse, Save, SaveFails
<1>3. CASE ReloadStep(p)
  BY <1>3, GotoLabel, WatcherIsNoClient DEF ReloadStep, Scan, Swap
<1>4. CASE SyncStep(p)
  BY <1>4, GotoLabel, WatcherIsNoClient DEF SyncStep, Sync, SyncRead, SyncSave, SyncFails
<1> QED
  BY <1>1, <1>2, <1>3, <1>4

LEMMA StepStaleCache ==
  ASSUME TypeOK, StaleScanPending, StaleCachePending, Next
  PROVE  StaleCachePending'
<1>1. SUFFICES ASSUME cache' # disk', ~dirty'
               PROVE  pc'[Watcher] \in {"scan", "swap"}
  BY DEF StaleCachePending
<1>2. CASE Fire
  BY <1>2, GotoLabel, WatcherIsNoClient DEF Fire
<1>3. CASE Restart
  BY <1>1, <1>3 DEF Restart, stored
<1>4. CASE ~Fire /\ ~Restart
  <2>1. disk' = disk /\ ~dirty
    BY <1>1, <1>4, DiskChangesAreSeen
  <2>2. ASSUME NEW p \in Procs, Swap(p)
        PROVE  FALSE
    <3>1. snap[p] # disk /\ InSwap(p)
      BY <1>1, <2>1, <2>2 DEF Swap, At, InSwap
    <3> QED
      BY <2>1, <3>1 DEF StaleScanPending
  <2>3. cache' = cache
    <3>1. ASSUME NEW p \in Clients, (\E c \in Calls : Begin(p, c)) \/ CallStep(p)
          PROVE  cache' = cache
      BY <3>1 DEF Begin, CallStep, Read, Refuse, Save, SaveFails
    <3>2. ASSUME NEW p \in Procs, Scan(p) \/ SyncStep(p)
          PROVE  cache' = cache
      BY <3>2 DEF Scan, SyncStep, Sync, SyncRead, SyncSave, SyncFails
    <3> QED
      BY <1>4, <2>2, <3>1, <3>2 DEF Next, ReloadStep, External
  <2>4. pc[Watcher] \in {"scan", "swap"}
    BY <1>1, <2>1, <2>3 DEF StaleCachePending
  <2>5. CASE \E p \in Clients : \/ \E c \in Calls : Begin(p, c)
                                \/ CallStep(p) \/ ReloadStep(p) \/ SyncStep(p)
    BY <2>4, <2>5, WatcherStays
  <2>6. CASE Scan(Watcher)
    BY <2>6, GotoLabel, <2>4, WatcherIsNoClient DEF Scan, At
  <2>7. CASE SyncStep(Watcher)
    BY <2>4, <2>7 DEF SyncStep, Sync, SyncRead, SyncSave, SyncFails, At
  <2>8. CASE \E doc \in ExternalDocs : External(doc)
    BY <2>4, <2>8 DEF External
  <2> QED
    BY <1>4, <2>2, <2>5, <2>6, <2>7, <2>8, WatcherIsNoClient DEF Next, Procs, ReloadStep
<1> QED
  BY <1>2, <1>3, <1>4

LEMMA StepDrift ==
  ASSUME TypeOK, StaleCachePending, DriftPending, Next
  PROVE  DriftPending'
<1> DEFINE Phases == {"scan", "swap", "sync", "syncRead", "syncSave"}
<1>1. SUFFICES ASSUME disk' # Unreadable, ~Settled(disk'), ~dirty', ~excused'
               PROVE  pc'[Watcher] \in Phases
  BY DEF DriftPending
<1>2. CASE Fire
  BY <1>2, GotoLabel, WatcherIsNoClient DEF Fire
<1>3. CASE Restart
  BY <1>1, <1>3 DEF Restart
<1>4. CASE ~Fire /\ ~Restart
  <2>1. disk' = disk /\ ~dirty
    BY <1>1, <1>4, DiskChangesAreSeen
  <2>2. ~excused
    <3>1. ASSUME NEW p \in Clients, (\E c \in Calls : Begin(p, c)) \/ CallStep(p)
          PROVE  excused' = excused
      BY <3>1 DEF Begin, CallStep, Read, Refuse, Save, SaveFails
    <3>2. ASSUME NEW p \in Procs, ReloadStep(p) \/ SyncStep(p)
          PROVE  excused' = excused \/ excused'
      BY <3>2 DEF ReloadStep, Scan, Swap, SyncStep, Sync, SyncRead, SyncSave, SyncFails
    <3> QED
      BY <1>1, <1>4, <3>1, <3>2 DEF Next, External
  <2>3. disk # Unreadable /\ ~Settled(disk)
    BY <1>1, <2>1
  <2>4. pc[Watcher] \in Phases
    BY <2>1, <2>2, <2>3 DEF DriftPending
  <2>5. CASE \E p \in Clients : \/ \E c \in Calls : Begin(p, c)
                                \/ CallStep(p) \/ ReloadStep(p) \/ SyncStep(p)
    BY <2>4, <2>5, WatcherStays
  <2>6. CASE Scan(Watcher)
    BY <2>4, <2>6, GotoLabel, WatcherIsNoClient DEF Scan, At
  <2>7. CASE Swap(Watcher)
    BY <2>4, <2>7, GotoLabel, WatcherIsNoClient DEF Swap, At, AfterSwap
  <2>8. CASE Sync(Watcher)
    <3>1. cache = disk
      BY <2>1, <2>8 DEF StaleCachePending, Sync, At
    <3>2. Goto(Watcher, "syncRead")
      BY <2>3, <2>8, <3>1 DEF Sync
    <3> QED
      BY <3>2, GotoLabel, WatcherIsNoClient
  <2>9. CASE SyncRead(Watcher)
    <3>1. disk.status.derived
      BY <2>3 DEF Settled
    <3>2. Goto(Watcher, "syncSave")
      BY <2>3, <2>9, <3>1 DEF SyncRead
    <3> QED
      BY <3>2, GotoLabel, WatcherIsNoClient
  <2>10. CASE SyncSave(Watcher)
    BY <1>1, <2>10 DEF SyncSave
  <2>11. CASE SyncFails(Watcher)
    BY <1>1, <2>11 DEF SyncFails
  <2>12. CASE \E doc \in ExternalDocs : External(doc)
    BY <2>4, <2>12 DEF External
  <2> QED
    BY <1>4, <2>5, <2>6, <2>7, <2>8, <2>9, <2>10, <2>11, <2>12, WatcherIsNoClient
       DEF Next, Procs, ReloadStep, SyncStep
<1> QED
  BY <1>2, <1>3, <1>4

LEMMA InitStaleness == Init => StalenessPending
BY DEF Init, StalenessPending, StaleScanPending, StaleCachePending, DriftPending, InSwap

LEMMA StepStaleness ==
  ASSUME PromptReload, TypeOK, StalenessPending, [Next]_vars
  PROVE  StalenessPending'
<1>1. CASE Next
  BY <1>1, StepStaleScan, StepStaleCache, StepDrift DEF StalenessPending
<1>2. CASE UNCHANGED vars
  <2>1. /\ disk' = disk /\ cache' = cache /\ pc' = pc /\ snap' = snap
        /\ dirty' = dirty /\ excused' = excused
    BY <1>2 DEF vars, stored
  <2>2. StaleScanPending' /\ StaleCachePending'
    BY <2>1 DEF StalenessPending, StaleScanPending, StaleCachePending, InSwap
  <2>3. DriftPending'
    BY <2>1 DEF StalenessPending, DriftPending
  <2> QED
    BY <2>2, <2>3 DEF StalenessPending
<1> QED
  BY <1>1, <1>2

(* Whatever is stale has an event or a round of the watcher still to come, *)
(* provided a call's scan is swapped in within the debounce delay          *)
(* (Store.Reload, Store.Watch, syncOverall).                               *)
THEOREM StalenessIsPending ==
  ASSUME PromptReload
  PROVE  Spec => []StalenessPending
<1>1. Init => StalenessPending
  BY InitStaleness
<1>2. TypeOK /\ StalenessPending /\ [Next]_vars => StalenessPending'
  BY StepStaleness
<1> QED
  BY <1>1, <1>2, TypeCorrect, PTL DEF Spec

LEMMA RestingIsFresh ==
  StalenessPending => CacheFollowsDisk /\ StatusFollowsTasks
BY WatcherIsNoClient
   DEF StalenessPending, StaleCachePending, DriftPending, CacheFollowsDisk,
       StatusFollowsTasks, Resting, AllIdle, At

(* Once nothing runs and no event waits, the server answers from what is   *)
(* on disk, for any number of overlapping calls, foreign edits, failed     *)
(* writes and restarts (Store.Reload, Store.Watch).                        *)
THEOREM CacheConverges ==
  ASSUME PromptReload
  PROVE  Spec => []CacheFollowsDisk
BY RestingIsFresh, StalenessIsPending, PTL

(* ... and the stored overall status is the one the task tree derives,     *)
(* except after a start or a sync failure that was logged (syncOverall).   *)
THEOREM StatusConverges ==
  ASSUME PromptReload
  PROVE  Spec => []StatusFollowsTasks
BY RestingIsFresh, StalenessIsPending, PTL

-----------------------------------------------------------------------------
(* Writes are whole operations                                             *)

(* What a process holds is its operation applied to what it has read, or   *)
(* that with another derived status.                                       *)
HoldsRead(p) ==
  /\ At(p, "read") => call[p] \in Atomic!Writing
  /\ At(p, "save") => /\ base[p] \in Files /\ call[p] \in Atomic!Writing
                      /\ Accepts(call[p], base[p]) /\ work[p] = Result(call[p], base[p])
  /\ At(p, "syncSave") => /\ base[p] \in Files /\ base[p].status.derived
                          /\ \E value \in DerivableStatuses :
                               work[p] = [base[p] EXCEPT !.status.value = value]

ReadInv ==
  /\ work = [p \in Procs |-> work[p]] /\ base = [p \in Procs |-> base[p]]
  /\ \A p \in Procs : HoldsRead(p)

LEMMA DerivedIsDerivable ==
  ASSUME NEW doc
  PROVE  DeriveOverall(doc) \in DerivableStatuses
BY DEF DeriveOverall, DerivableStatuses

(* What one process does leaves what the others hold.                      *)
LEMMA OthersHold ==
  ASSUME ReadInv, NEW p \in Procs,
         HoldsRead(p)',
         work' = [q \in Procs |-> work'[q]], base' = [q \in Procs |-> base'[q]],
         \A q \in Procs : q # p => /\ pc'[q] = pc[q] /\ call'[q] = call[q]
                                   /\ work'[q] = work[q] /\ base'[q] = base[q]
  PROVE  ReadInv'
<1>1. ASSUME NEW q \in Procs, q # p
      PROVE  HoldsRead(q)'
  BY <1>1 DEF ReadInv, HoldsRead, At
<1> QED
  BY <1>1 DEF ReadInv

(* A step of a process at a label where it holds nothing.                  *)
LEMMA EmptyHanded ==
  ASSUME TypeOK, ReadInv, NEW p \in Procs, NEW label,
         label \notin {"read", "save", "syncSave"}, Goto(p, label),
         \/ UNCHANGED held
         \/ work' = [work EXCEPT ![p] = None] /\ base' = [base EXCEPT ![p] = None]
  PROVE  ReadInv'
<1>1. pc' = [pc EXCEPT ![p] = label] /\ \A q \in Procs : q # p => call'[q] = call[q]
  BY DEF Goto, TypeOK
<1>2. HoldsRead(p)' /\ \A q \in Procs : q # p => pc'[q] = pc[q]
  BY <1>1 DEF HoldsRead, At, TypeOK
<1>3. /\ work' = [q \in Procs |-> work'[q]] /\ base' = [q \in Procs |-> base'[q]]
      /\ \A q \in Procs : q # p => work'[q] = work[q] /\ base'[q] = base[q]
  BY DEF ReadInv, held
<1> QED
  BY <1>1, <1>2, <1>3, OthersHold

LEMMA StepHolds ==
  ASSUME TypeOK, ReadInv, Next
  PROVE  ReadInv' /\ [Atomic!Next]_<<disk, base>>
<1> DEFINE Good == ReadInv' /\ [Atomic!Next]_<<disk, base>>
<1>0. /\ Watcher \in Procs /\ \A p \in Clients : p \in Procs
      /\ None \notin Files /\ disk \in Files
      /\ work = [p \in Procs |-> work[p]] /\ base = [p \in Procs |-> base[p]]
  BY WatcherIsNoClient, StoreAssumption DEF Procs, TypeOK, ReadInv
<1>1. ASSUME NEW p \in Clients, NEW c \in Calls, Begin(p, c)
      PROVE  Good
  <2>1. UNCHANGED <<disk, held>> /\ call' = [call EXCEPT ![p] = c]
    BY <1>1 DEF Begin
  <2>2. \/ c.op = "decompose" /\ pc' = [pc EXCEPT ![p] = "scan"]
        \/ c.op # "decompose" /\ pc' = [pc EXCEPT ![p] = "read"]
    BY <1>1 DEF Begin
  <2>3. HoldsRead(p)'
    BY <1>0, <2>1, <2>2 DEF HoldsRead, At, TypeOK, Atomic!Writing
  <2>4. \A q \in Procs : q # p => pc'[q] = pc[q] /\ call'[q] = call[q]
    BY <2>1, <2>2 DEF TypeOK
  <2> QED
    BY <1>0, <2>1, <2>3, <2>4, OthersHold DEF held
<1>2. ASSUME NEW p \in Clients, Read(p)
      PROVE  Good
  <2>1. /\ p \in Procs /\ At(p, "read") /\ disk # Unreadable /\ disk' = disk
        /\ Accepts(call[p], disk) /\ call' = call /\ pc' = [pc EXCEPT ![p] = "save"]
        /\ work' = [work EXCEPT ![p] = Result(call[p], disk)]
        /\ base' = [base EXCEPT ![p] = disk]
    BY <1>0, <1>2 DEF Read, Goto
  <2>2. HoldsRead(p)'
    BY <1>0, <2>1 DEF HoldsRead, At, TypeOK, ReadInv
  <2>3. ReadInv'
    BY <1>0, <2>1, <2>2, OthersHold DEF TypeOK
  <2>4. Atomic!Read(p)
    BY <2>1 DEF Atomic!Read
  <2> QED
    BY <2>1, <2>3, <2>4 DEF Atomic!Next
<1>3. ASSUME NEW p \in Clients, Refuse(p)
      PROVE  Good
  <2>1. ReadInv'
    BY <1>0, <1>3, EmptyHanded DEF Refuse
  <2> QED
    BY <1>3, <2>1 DEF Refuse, stored, held
<1>4. ASSUME NEW p \in Clients, Save(p)
      PROVE  Good
  <2>1. /\ p \in Procs /\ At(p, "save") /\ Valid(work[p]) /\ disk' = work[p]
        /\ base' = [base EXCEPT ![p] = None]
    BY <1>0, <1>4 DEF Save
  <2>2. ReadInv'
    BY <1>0, <1>4, EmptyHanded DEF Save
  <2>3. /\ base[p] # None /\ call[p] \in Atomic!Writing
        /\ Accepts(call[p], base[p]) /\ disk' = Result(call[p], base[p])
    BY <1>0, <2>1 DEF ReadInv, HoldsRead
  <2>4. Atomic!Write(p)
    BY <2>1, <2>3 DEF Atomic!Write, Atomic!Drop
  <2> QED
    BY <2>1, <2>2, <2>4 DEF Atomic!Next
<1>5. ASSUME NEW p \in Procs, SaveFails(p) \/ SyncFails(p)
      PROVE  Good
  <2>1. ReadInv'
    BY <1>0, <1>5, EmptyHanded DEF SaveFails, SyncFails
  <2>2. Atomic!Fail(p)
    BY <1>5 DEF SaveFails, SyncFails, stored, Atomic!Fail, Atomic!Drop
  <2> QED
    BY <2>1, <2>2 DEF Atomic!Next
<1>6. ASSUME NEW p \in Procs, ReloadStep(p) \/ Sync(p)
      PROVE  Good
  <2>1. UNCHANGED <<disk, held>>
    BY <1>6 DEF ReloadStep, Scan, Swap, Sync, stored
  <2>2. PICK label \in {"swap", "swap2", "sync", "idle", "syncRead"} : Goto(p, label)
    BY <1>6 DEF ReloadStep, Scan, Swap, Sync, AfterSwap
  <2> QED
    BY <2>1, <2>2, EmptyHanded DEF held
<1>7. ASSUME NEW p \in Procs, SyncRead(p)
      PROVE  Good
  <2>1. CASE Goto(p, "idle") /\ UNCHANGED <<disk, held>>
    BY <2>1, EmptyHanded DEF held
  <2>2. CASE /\ disk # Unreadable /\ disk.status.derived /\ disk' = disk
             /\ work' = [work EXCEPT ![p] = Converged(disk, snap[p])]
             /\ base' = [base EXCEPT ![p] = disk] /\ Goto(p, "syncSave")
    <3>1. /\ call' = call /\ pc' = [pc EXCEPT ![p] = "syncSave"]
          /\ base'[p] = disk /\ work'[p] = Converged(disk, snap[p])
      BY <1>0, <2>2 DEF Goto
    <3>2. HoldsRead(p)'
      BY <1>0, <2>2, <3>1, DerivedIsDerivable DEF HoldsRead, At, TypeOK, Converged
    <3>3. ReadInv'
      BY <1>0, <2>2, <3>1, <3>2, OthersHold DEF TypeOK
    <3>4. Atomic!Read(p)
      BY <2>2 DEF Atomic!Read
    <3> QED
      BY <3>3, <3>4 DEF Atomic!Next
  <2> QED
    BY <1>7, <2>1, <2>2 DEF SyncRead, stored
<1>8. ASSUME NEW p \in Procs, SyncSave(p)
      PROVE  Good
  <2>1. /\ At(p, "syncSave") /\ Valid(work[p]) /\ disk' = work[p]
        /\ base' = [base EXCEPT ![p] = None]
    BY <1>8 DEF SyncSave
  <2>2. ReadInv'
    BY <1>0, <1>8, EmptyHanded DEF SyncSave
  <2>3. /\ base[p] # None /\ base[p].status.derived
        /\ \E value \in DerivableStatuses : disk' = [base[p] EXCEPT !.status.value = value]
    BY <1>0, <2>1 DEF ReadInv, HoldsRead
  <2>4. Atomic!Converge(p)
    BY <2>1, <2>3 DEF Atomic!Converge, Atomic!Drop
  <2> QED
    BY <2>1, <2>2, <2>4 DEF Atomic!Next
<1>9. CASE Fire
  <2>1. UNCHANGED <<disk, held>> /\ Goto(Watcher, "scan")
    BY <1>9 DEF Fire, stored
  <2> QED
    BY <1>0, <2>1, EmptyHanded DEF held
<1>10. ASSUME NEW doc \in ExternalDocs, External(doc)
       PROVE  Good
  <2>1. disk' = doc /\ UNCHANGED <<pc, call, held>>
    BY <1>10 DEF External
  <2>2. ReadInv'
    BY <2>1 DEF ReadInv, HoldsRead, At, held
  <2>3. Atomic!Edit
    BY <2>1 DEF Atomic!Edit, held
  <2> QED
    BY <2>2, <2>3 DEF Atomic!Next
<1>11. CASE Restart
  <2>1. /\ pc' = [q \in Procs |-> "idle"] /\ work' = [q \in Procs |-> None]
        /\ base' = [q \in Procs |-> None] /\ disk' = disk
    BY <1>11 DEF Restart, stored
  <2>2. ReadInv'
    BY <2>1 DEF ReadInv, HoldsRead, At
  <2>3. Atomic!Crash
    BY <2>1 DEF Atomic!Crash
  <2> QED
    BY <2>2, <2>3 DEF Atomic!Next
<1> QED
  BY <1>0, <1>1, <1>2, <1>3, <1>4, <1>5, <1>6, <1>7, <1>8, <1>9, <1>10, <1>11
     DEF Next, CallStep, SyncStep

(* However calls, edits, rounds of the watcher, failed writes and restarts *)
(* overlap, every content of the state file is somebody's edit or a whole  *)
(* operation applied to what its call has read of the file, whatever the   *)
(* operations are: what store.go promises of its writes ("every write      *)
(* re-reads the target state file from disk, applies the mutation to the   *)
(* fresh content").                                                        *)
THEOREM WritesApplyToFreshReads == Spec => AppliesToFreshRead
<1>1. Init => ReadInv /\ Atomic!Init
  BY DEF Init, ReadInv, HoldsRead, At, Atomic!Init
<1>2. TypeOK /\ ReadInv /\ [Next]_vars => ReadInv' /\ [Atomic!Next]_<<disk, base>>
  <2>1. ASSUME ReadInv, UNCHANGED vars
        PROVE  ReadInv' /\ UNCHANGED <<disk, base>>
    BY <2>1 DEF vars, stored, held, ReadInv, HoldsRead, At
  <2> QED
    BY <2>1, StepHolds
<1> QED
  BY <1>1, <1>2, TypeCorrect, PTL DEF Spec, AppliesToFreshRead, Atomic!Spec


(* The files a list of tasks names. *)
Named(tasks) == {File(tasks[i]) : i \in DOMAIN tasks}

-----------------------------------------------------------------------------
(* Ranks                                                                   *)

LEMMA RankBounds ==
  ASSUME NEW S \in SUBSET Nat, IsFiniteSet(S), NEW i \in S
  PROVE  Rank(S, i) \in 1 .. Cardinality(S)
<1> DEFINE T == {j \in S : j <= i}
<1>1. /\ IsFiniteSet(T) /\ Cardinality(T) <= Cardinality(S) /\ Cardinality(T) \in Nat
      /\ Cardinality(S) \in Nat
  BY FS_Subset, FS_CardinalityType
<1>2. T # {}
  BY DEF T
<1>3. Cardinality(T) # 0
  BY <1>1, <1>2, FS_EmptySet
<1> QED BY <1>1, <1>3 DEF Rank

LEMMA RankOrders ==
  ASSUME NEW S \in SUBSET Nat, IsFiniteSet(S), NEW i \in S, NEW k \in S, i < k
  PROVE  Rank(S, i) < Rank(S, k)
<1> DEFINE T == {j \in S : j <= i}
           U == {j \in S : j <= k}
<1>1. IsFiniteSet(U) /\ Cardinality(U) \in Nat
  BY FS_Subset, FS_CardinalityType
<1>2. T \subseteq U
  <2>1. \A j \in S : j \in Nat
    OBVIOUS
  <2>2. \A j \in S : j <= i => j <= k
    BY <2>1
  <2> QED BY <2>2
<1>3. k \in U /\ k \notin T
  OBVIOUS
<1> HIDE DEF T, U
<1>4. IsFiniteSet(T) /\ Cardinality(T) <= Cardinality(U) /\ Cardinality(T) \in Nat
  BY <1>1, <1>2, FS_Subset, FS_CardinalityType
<1>5. Cardinality(T) # Cardinality(U)
  BY <1>1, <1>2, <1>3, FS_Subset
<1> QED BY <1>1, <1>4, <1>5 DEF Rank, T, U

LEMMA NthHasRank ==
  ASSUME NEW S \in SUBSET Nat, IsFiniteSet(S), NEW k \in 1 .. Cardinality(S)
  PROVE  Nth(S, k) \in S /\ Rank(S, Nth(S, k)) = k
<1> DEFINE n == Cardinality(S)
           rank == [i \in S |-> Rank(S, i)]
<1>1. n \in Nat
  BY FS_CardinalityType
<1>2. rank \in [S -> 1 .. n]
  BY RankBounds
<1>3. \A i, j \in S : rank[i] = rank[j] => i = j
  <2> SUFFICES ASSUME NEW i \in S, NEW j \in S, i # j PROVE rank[i] # rank[j]
    OBVIOUS
  <2>1. i \in Nat /\ j \in Nat /\ Rank(S, i) \in 1 .. n /\ Rank(S, j) \in 1 .. n
    BY RankBounds
  <2>2. CASE i < j
    BY <2>1, <2>2, RankOrders
  <2>3. CASE j < i
    BY <2>1, <2>3, RankOrders
  <2> QED BY <2>1, <2>2, <2>3
<1> HIDE DEF n, rank
<1>4. rank \in Injection(S, 1 .. n)
  BY <1>2, <1>3 DEF Injection, IsInjective
<1>5. IsFiniteSet(1 .. n) /\ Cardinality(1 .. n) = n
  BY <1>1, FS_Interval
<1>6. rank \in Surjection(S, 1 .. n)
  BY <1>4, <1>5, FS_Injection DEF n
<1>7. \E i \in S : rank[i] = k
  BY <1>6 DEF Surjection, n
<1>8. \E i \in S : Rank(S, i) = k
  BY <1>7 DEF rank
<1> QED BY <1>8 DEF Nth

-----------------------------------------------------------------------------
(* Levels                                                                  *)

LEMMA PositionsAreFinite ==
  ASSUME NEW tasks \in Seq(Tasks), NEW parent
  PROVE  /\ Positions(tasks, parent) \in SUBSET Nat /\ IsFiniteSet(Positions(tasks, parent))
         /\ Cardinality(Positions(tasks, parent)) \in Nat
         /\ Positions(tasks, parent) \subseteq DOMAIN tasks
<1>1. Len(tasks) \in Nat /\ DOMAIN tasks = 1 .. Len(tasks)
  BY LenProperties
<1>2. IsFiniteSet(1 .. Len(tasks))
  BY <1>1, FS_Interval
<1>3. Positions(tasks, parent) \subseteq 1 .. Len(tasks)
  BY <1>1 DEF Positions
<1> QED BY <1>1, <1>2, <1>3, FS_Subset, FS_CardinalityType

LEMMA LevelTasks ==
  ASSUME NEW tasks \in Seq(Tasks), NEW parent
  PROVE  /\ Level(tasks, parent) \in Seq(Tasks)
         /\ Len(Level(tasks, parent)) = Cardinality(Positions(tasks, parent))
         /\ \A k \in DOMAIN Level(tasks, parent) : \E i \in DOMAIN tasks :
              Level(tasks, parent)[k] = tasks[i] /\ AtLevel(parent, tasks[i])
         /\ \A i \in Positions(tasks, parent) :
              Level(tasks, parent)[Rank(Positions(tasks, parent), i)] = tasks[i]
<1> DEFINE P == Positions(tasks, parent)
           n == Cardinality(P)
           level == Level(tasks, parent)
<1>1. P \in SUBSET Nat /\ IsFiniteSet(P) /\ n \in Nat /\ P \subseteq DOMAIN tasks
  BY PositionsAreFinite
<1>2. \A i \in DOMAIN tasks : tasks[i] \in Tasks
  BY ElementOfSeq, LenProperties
<1>3. level = [k \in 1 .. n |-> tasks[Nth(P, k)]]
  BY DEF Level
<1>4. \A k \in 1 .. n : Nth(P, k) \in P
  BY <1>1, NthHasRank
<1>5. \A i \in P : AtLevel(parent, tasks[i])
  BY DEF Positions
<1> HIDE DEF P, n, level
<1>6. level \in [1 .. n -> Tasks]
  BY <1>1, <1>2, <1>3, <1>4
<1>7. level \in Seq(Tasks) /\ Len(level) = n /\ DOMAIN level = 1 .. n
  BY <1>1, <1>6, LenProperties
<1>8. \A i \in P : level[Rank(P, i)] = tasks[i]
  <2> TAKE i \in P
  <2>1. Rank(P, i) \in 1 .. n
    BY <1>1, RankBounds DEF n
  <2>2. Nth(P, Rank(P, i)) \in P /\ Rank(P, Nth(P, Rank(P, i))) = Rank(P, i)
    BY <1>1, <2>1, NthHasRank DEF n
  <2> DEFINE j == Nth(P, Rank(P, i))
  <2>3. j = i
    <3>1. j \in Nat /\ i \in Nat /\ j \in P /\ Rank(P, j) = Rank(P, i) /\ Rank(P, i) \in Nat
      <4>1. \A p \in P : p \in Nat
        BY <1>1
      <4>2. \A r \in 1 .. n : r \in Nat
        BY <1>1
      <4> QED BY <2>1, <2>2, <4>1, <4>2
    <3> HIDE DEF j
    <3>2. ~(j < i) /\ ~(i < j)
      BY <1>1, <3>1, RankOrders
    <3> QED BY <3>1, <3>2
  <2>4. level[Rank(P, i)] = tasks[Nth(P, Rank(P, i))]
    BY <1>3, <2>1
  <2> QED BY <2>3, <2>4
<1> QED BY <1>1, <1>3, <1>4, <1>5, <1>7, <1>8 DEF P, n, level

(* Refilling a level with tasks of the same files keeps the files.          *)
LEMMA WithLevelNames ==
  ASSUME NEW tasks \in Seq(Tasks), NEW parent, NEW level,
         \A k \in 1 .. Cardinality(Positions(tasks, parent)) : File(level[k]) \in Named(tasks)
  PROVE  Named(WithLevel(tasks, parent, level)) \subseteq Named(tasks)
<1> DEFINE P == Positions(tasks, parent)
           new == WithLevel(tasks, parent, level)
<1>1. P \in SUBSET Nat /\ IsFiniteSet(P)
  BY PositionsAreFinite
<1>2. /\ DOMAIN new = DOMAIN tasks
      /\ \A i \in DOMAIN tasks : new[i] = IF i \in P THEN level[Rank(P, i)] ELSE tasks[i]
  BY DEF WithLevel
<1>3. \A i \in P : File(level[Rank(P, i)]) \in Named(tasks)
  BY <1>1, RankBounds
<1> HIDE DEF P, new
<1>4. \A i \in DOMAIN tasks : File(new[i]) \in Named(tasks)
  <2> TAKE i \in DOMAIN tasks
  <2>1. CASE i \in P
    BY <1>2, <1>3, <2>1
  <2>2. CASE i \notin P
    BY <1>2, <2>2 DEF Named
  <2> QED BY <2>1, <2>2
<1> QED BY <1>2, <1>4 DEF Named, new

(* ... and with all its own files.                                         *)
LEMMA WithLevelNamesAll ==
  ASSUME NEW tasks \in Seq(Tasks), NEW parent, NEW level,
         \A i \in Positions(tasks, parent) :
           \E k \in 1 .. Cardinality(Positions(tasks, parent)) : File(level[k]) = File(tasks[i])
  PROVE  Named(tasks) \subseteq Named(WithLevel(tasks, parent, level))
<1> DEFINE P == Positions(tasks, parent)
           new == WithLevel(tasks, parent, level)
<1>1. P \in SUBSET Nat /\ IsFiniteSet(P) /\ P \subseteq DOMAIN tasks
  BY PositionsAreFinite
<1>2. /\ DOMAIN new = DOMAIN tasks
      /\ \A i \in DOMAIN tasks : new[i] = IF i \in P THEN level[Rank(P, i)] ELSE tasks[i]
  BY DEF WithLevel
<1>3. \A k \in 1 .. Cardinality(P) : Nth(P, k) \in P /\ Rank(P, Nth(P, k)) = k
  BY <1>1, NthHasRank
<1>4. \A i \in P : \E k \in 1 .. Cardinality(P) : File(level[k]) = File(tasks[i])
  OBVIOUS
<1> HIDE DEF P, new
<1>5. ASSUME NEW i \in DOMAIN tasks PROVE \E j \in DOMAIN tasks : File(new[j]) = File(tasks[i])
  <2>1. CASE i \in P
    <3>1. PICK k \in 1 .. Cardinality(P) : File(level[k]) = File(tasks[i])
      BY <1>4, <2>1
    <3>2. new[Nth(P, k)] = level[k] /\ Nth(P, k) \in DOMAIN tasks
      BY <1>1, <1>2, <1>3
    <3> QED BY <3>1, <3>2
  <2>2. CASE i \notin P
    BY <1>2, <2>2
  <2> QED BY <2>1, <2>2
<1> QED BY <1>2, <1>5 DEF Named, new

-----------------------------------------------------------------------------
(* Moving a task within its level                                          *)

LEMMA RemoveAtTasks ==
  ASSUME NEW s \in Seq(Tasks), NEW i \in 1 .. Len(s)
  PROVE  /\ RemoveAt(s, i) \in Seq(Tasks)
         /\ Len(RemoveAt(s, i)) = Len(s) - 1
         /\ \A j \in 1 .. Len(s) - 1 : RemoveAt(s, i)[j] = IF j < i THEN s[j] ELSE s[j + 1]
<1> DEFINE lead == SubSeq(s, 1, i - 1)
           back == SubSeq(s, i + 1, Len(s))
<1>1. Len(s) \in Nat /\ \A j \in 1 .. Len(s) : s[j] \in Tasks
  BY LenProperties, ElementOfSeq
<1>2. /\ lead \in Seq(Tasks) /\ Len(lead) = i - 1
      /\ \A j \in 1 .. i - 1 : lead[j] = s[j]
  <2>1. \A j \in 1 .. i - 1 : s[j] \in Tasks
    BY <1>1
  <2> QED BY <1>1, <2>1, SubSeqProperties
<1>3. /\ back \in Seq(Tasks) /\ Len(back) = Len(s) - i
      /\ \A j \in 1 .. Len(s) - i : back[j] = s[j + i]
  <2>1. \A j \in i + 1 .. Len(s) : s[j] \in Tasks
    BY <1>1
  <2>2. /\ back \in Seq(Tasks)
        /\ Len(back) = IF i + 1 <= Len(s) THEN Len(s) - (i + 1) + 1 ELSE 0
        /\ \A j \in 1 .. Len(s) - (i + 1) + 1 : back[j] = s[(i + 1) + j - 1]
    BY <1>1, <2>1, SubSeqProperties
  <2> HIDE DEF back
  <2>3. Len(s) - (i + 1) + 1 = Len(s) - i /\ \A j \in Int : (i + 1) + j - 1 = j + i
    BY <1>1
  <2>4. Len(back) = Len(s) - i
    BY <1>1, <2>2
  <2>5. ASSUME NEW j \in 1 .. Len(s) - i
        PROVE  back[j] = s[j + i]
    <3>1. back[j] = s[(i + 1) + j - 1]
      BY <2>2, <2>3
    <3>2. (i + 1) + j - 1 = j + i
      BY <1>1
    <3> QED BY <3>1, <3>2
  <2> QED BY <2>2, <2>4, <2>5
<1> HIDE DEF lead, back
<1>4. /\ lead \o back \in Seq(Tasks) /\ Len(lead \o back) = Len(lead) + Len(back)
      /\ \A j \in 1 .. Len(lead) + Len(back) :
           (lead \o back)[j] = IF j <= Len(lead) THEN lead[j] ELSE back[j - Len(lead)]
  BY <1>2, <1>3, ConcatProperties
<1>5. \A j \in 1 .. Len(s) - 1 : (lead \o back)[j] = IF j < i THEN s[j] ELSE s[j + 1]
  <2> TAKE j \in 1 .. Len(s) - 1
  <2>1. (lead \o back)[j] = IF j <= i - 1 THEN lead[j] ELSE back[j - (i - 1)]
    <3>1. Len(lead) = i - 1 /\ Len(lead) + Len(back) = Len(s) - 1
      BY <1>1, <1>2, <1>3
    <3>2. j \in 1 .. Len(lead) + Len(back)
      BY <3>1
    <3> QED BY <1>4, <3>1, <3>2
  <2>2. CASE j < i
    <3>1. j \in 1 .. i - 1
      BY <1>1, <2>2
    <3> QED BY <1>2, <2>1, <2>2, <3>1
  <2>3. CASE ~(j < i)
    <3>1. j - (i - 1) \in 1 .. Len(s) - i /\ (j - (i - 1)) + i = j + 1 /\ ~(j <= i - 1)
      BY <1>1, <2>3
    <3>2. (lead \o back)[j] = back[j - (i - 1)]
      BY <2>1, <3>1
    <3>3. back[j - (i - 1)] = s[(j - (i - 1)) + i]
      BY <1>3, <3>1
    <3> QED BY <2>3, <3>1, <3>2, <3>3
  <2> QED BY <2>2, <2>3
<1>6. Len(lead \o back) = Len(s) - 1
  BY <1>1, <1>2, <1>3, <1>4
<1>7. RemoveAt(s, i) = lead \o back
  BY DEF RemoveAt, lead, back
<1> QED BY <1>4, <1>5, <1>6, <1>7

LEMMA InsertAtTasks ==
  ASSUME NEW s \in Seq(Tasks), NEW i \in 1 .. Len(s) + 1, NEW e \in Tasks
  PROVE  /\ Len(InsertAt(s, i, e)) = Len(s) + 1
         /\ \A j \in 1 .. Len(s) + 1 :
              InsertAt(s, i, e)[j] = IF j < i THEN s[j] ELSE IF j = i THEN e ELSE s[j - 1]
<1> DEFINE lead == SubSeq(s, 1, i - 1)
           back == SubSeq(s, i, Len(s))
           begin == Append(lead, e)
<1>1. Len(s) \in Nat /\ \A j \in 1 .. Len(s) : s[j] \in Tasks
  BY LenProperties, ElementOfSeq
<1>2. /\ lead \in Seq(Tasks) /\ Len(lead) = i - 1
      /\ \A j \in 1 .. i - 1 : lead[j] = s[j]
  <2>1. \A j \in 1 .. i - 1 : s[j] \in Tasks
    BY <1>1
  <2> QED BY <1>1, <2>1, SubSeqProperties
<1>3. /\ back \in Seq(Tasks) /\ Len(back) = Len(s) - i + 1
      /\ \A j \in 1 .. Len(s) - i + 1 : back[j] = s[i + j - 1]
  <2>1. \A j \in i .. Len(s) : s[j] \in Tasks
    BY <1>1
  <2>2. /\ back \in Seq(Tasks)
        /\ Len(back) = IF i <= Len(s) THEN Len(s) - i + 1 ELSE 0
        /\ \A j \in 1 .. Len(s) - i + 1 : back[j] = s[i + j - 1]
    BY <1>1, <2>1, SubSeqProperties
  <2> HIDE DEF back
  <2> QED BY <1>1, <2>2
<1> HIDE DEF lead, back
<1>4. /\ begin \in Seq(Tasks) /\ begin = lead \o <<e>> /\ Len(begin) = i
      /\ \A j \in 1 .. i : begin[j] = IF j = i THEN e ELSE s[j]
  <2>1. /\ begin \in Seq(Tasks) /\ Len(begin) = Len(lead) + 1
        /\ \A j \in 1 .. Len(lead) : begin[j] = lead[j]
        /\ begin[Len(lead) + 1] = e
    BY <1>2, AppendProperties
  <2>2. begin = lead \o <<e>>
    BY <1>2, AppendIsConcat
  <2> HIDE DEF begin
  <2>3. \A j \in 1 .. i : j = i \/ j \in 1 .. i - 1
    BY <1>1
  <2>4. Len(lead) + 1 = i
    BY <1>1, <1>2
  <2> QED BY <1>2, <2>1, <2>2, <2>3, <2>4
<1> HIDE DEF begin
<1>45. begin \in Seq(Tasks) /\ Len(begin) = i
  BY <1>4
<1>5. /\ Len(begin \o back) = Len(begin) + Len(back)
      /\ \A j \in 1 .. Len(begin) + Len(back) :
           (begin \o back)[j] = IF j <= Len(begin) THEN begin[j] ELSE back[j - Len(begin)]
  BY <1>3, <1>45, ConcatProperties
<1>6. Len(begin) + Len(back) = Len(s) + 1
  BY <1>1, <1>3, <1>45
<1>7. \A j \in 1 .. Len(s) + 1 : (begin \o back)[j] = IF j < i THEN s[j] ELSE IF j = i THEN e ELSE s[j - 1]
  <2> TAKE j \in 1 .. Len(s) + 1
  <2>1. (begin \o back)[j] = IF j <= i THEN begin[j] ELSE back[j - i]
    BY <1>45, <1>5, <1>6
  <2>2. CASE j <= i
    <3>1. j \in 1 .. i
      BY <1>1, <2>2
    <3>2. (begin \o back)[j] = IF j = i THEN e ELSE s[j]
      BY <1>4, <2>1, <2>2, <3>1
    <3>3. j < i \/ j = i
      BY <1>1, <2>2
    <3> QED BY <3>2, <3>3
  <2>3. CASE ~(j <= i)
    <3>1. j - i \in 1 .. Len(s) - i + 1 /\ i + (j - i) - 1 = j - 1 /\ ~(j < i) /\ j # i
      BY <1>1, <2>3
    <3>2. (begin \o back)[j] = back[j - i]
      BY <2>1, <2>3
    <3>3. back[j - i] = s[i + (j - i) - 1]
      BY <1>3, <3>1
    <3> QED BY <3>1, <3>2, <3>3
  <2> QED BY <2>2, <2>3
<1> QED BY <1>4, <1>5, <1>6, <1>7 DEF InsertAt, back, lead

LEMMA GreatestMember ==
  ASSUME NEW S \in SUBSET Nat, IsFiniteSet(S), S # {}
  PROVE  Max(S) \in S /\ \A y \in S : Max(S) >= y
<1>1. Cardinality(S) \in Nat /\ Cardinality(S) # 0
  BY FS_CardinalityType, FS_EmptySet
<1>2. Cardinality(S) \in 1 .. Cardinality(S)
  BY <1>1
<1>3. PICK x \in S : Rank(S, x) = Cardinality(S)
  BY <1>2, NthHasRank
<1>4. \A y \in S : x >= y
  <2> TAKE y \in S
  <2>1. x \in Nat /\ y \in Nat
    OBVIOUS
  <2>2. ~(x < y)
    <3>1. x < y => Rank(S, x) < Rank(S, y)
      BY RankOrders
    <3>2. Rank(S, y) \in 1 .. Cardinality(S)
      BY RankBounds
    <3> QED BY <1>1, <1>3, <3>1, <3>2
  <2> QED BY <2>1, <2>2
<1> QED BY <1>4 DEF Max

LEMMA InsertionPosBounds ==
  ASSUME NEW rest \in Seq(Tasks), NEW to, NEW goal
  PROVE  InsertionPos(rest, to, goal) \in 1 .. Len(rest) + 1
<1> DEFINE group == {i \in DOMAIN rest : rest[i].status = to}
<1>1. Len(rest) \in Nat /\ DOMAIN rest = 1 .. Len(rest)
  BY LenProperties
<1>2. group \subseteq 1 .. Len(rest) /\ IsFiniteSet(1 .. Len(rest))
  BY <1>1, FS_Interval
<1>3. IsFiniteSet(group) /\ group \in SUBSET Nat /\ Cardinality(group) \in Nat
  BY <1>2, FS_Subset, FS_CardinalityType
<1> HIDE DEF group
<1>4. CASE goal \in 0 .. Cardinality(group) - 1
  <2>1. goal + 1 \in 1 .. Cardinality(group)
    BY <1>3, <1>4
  <2>2. Nth(group, goal + 1) \in group
    BY <1>3, <2>1, NthHasRank
  <2>3. InsertionPos(rest, to, goal) = Nth(group, goal + 1)
    BY <1>4 DEF InsertionPos, group
  <2>4. \A x \in 1 .. Len(rest) : x \in 1 .. Len(rest) + 1
    BY <1>1
  <2>5. InsertionPos(rest, to, goal) \in 1 .. Len(rest)
    BY <1>2, <2>2, <2>3
  <2> QED BY <2>4, <2>5
<1>5. CASE goal \notin 0 .. Cardinality(group) - 1 /\ group # {}
  <2>1. Max(group) \in 1 .. Len(rest)
    BY <1>2, <1>3, <1>5, GreatestMember
  <2>2. InsertionPos(rest, to, goal) = Max(group) + 1
    BY <1>5 DEF InsertionPos, group
  <2> QED BY <1>1, <2>1, <2>2
<1>6. CASE goal \notin 0 .. Cardinality(group) - 1 /\ group = {}
  <2>1. InsertionPos(rest, to, goal) = Len(rest) + 1
    BY <1>6 DEF InsertionPos, group
  <2> QED BY <1>1, <2>1
<1> QED BY <1>4, <1>5, <1>6

LEMMA MovedNames ==
  ASSUME NEW tasks \in Seq(Tasks), NEW id, \E i \in DOMAIN tasks : tasks[i].id = id,
         NEW to \in TaskStatuses, NEW goal
  PROVE  Named(Moved(tasks, id, to, goal)) = Named(tasks)
<1> DEFINE parent == Parent(id)
           P == Positions(tasks, parent)
           n == Cardinality(P)
           level == Level(tasks, parent)
           pos == CHOOSE i \in DOMAIN level : level[i].id = id
           rest == RemoveAt(level, pos)
           moving == [level[pos] EXCEPT !.status = to]
           at == InsertionPos(rest, to, goal)
           new == InsertAt(rest, at, moving)
<1>1. n \in Nat /\ P \subseteq Nat /\ IsFiniteSet(P) /\ P \subseteq DOMAIN tasks
  BY PositionsAreFinite
<1>2. /\ level \in Seq(Tasks) /\ Len(level) = n /\ DOMAIN level = 1 .. n
      /\ \A k \in 1 .. n : File(level[k]) \in Named(tasks)
      /\ \A i \in P : level[Rank(P, i)] = tasks[i] /\ Rank(P, i) \in 1 .. n
  <2>1. /\ level \in Seq(Tasks) /\ Len(level) = n
        /\ \A k \in DOMAIN level : \E i \in DOMAIN tasks : level[k] = tasks[i]
        /\ \A i \in P : level[Rank(P, i)] = tasks[i]
    BY LevelTasks
  <2>2. DOMAIN level = 1 .. n
    BY <2>1, LenProperties
  <2> HIDE DEF level
  <2>3. \A k \in 1 .. n : File(level[k]) \in Named(tasks)
    BY <2>1, <2>2 DEF Named
  <2> HIDE DEF n
  <2>4. \A i \in P : Rank(P, i) \in 1 .. n
    BY <1>1, RankBounds DEF n
  <2> QED BY <2>1, <2>2, <2>3, <2>4
<1>3. \E i \in P : tasks[i].id = id
  BY DEF Positions, AtLevel
<1>4. Moved(tasks, id, to, goal) = WithLevel(tasks, parent, new)
  BY DEF Moved
<1> HIDE DEF n, level
<1>5. pos \in 1 .. n
  <2>1. \E i \in DOMAIN level : level[i].id = id
    BY <1>2, <1>3
  <2> QED BY <1>2, <2>1
<1> HIDE DEF pos
<1>6. moving \in Tasks /\ File(moving) = File(level[pos])
  <2>1. level[pos] \in Tasks
    BY <1>2, <1>5, ElementOfSeq
  <2> QED BY <2>1 DEF Tasks, File
<1>7. /\ rest \in Seq(Tasks) /\ Len(rest) = n - 1
      /\ \A j \in 1 .. n - 1 : rest[j] = IF j < pos THEN level[j] ELSE level[j + 1]
  BY <1>2, <1>5, RemoveAtTasks
<1> HIDE DEF moving, rest
<1>8. at \in 1 .. n
  <2>1. at \in 1 .. Len(rest) + 1
    BY <1>7, InsertionPosBounds
  <2> QED BY <1>1, <1>7, <2>1
<1> HIDE DEF at
<1>9. \A j \in 1 .. n : new[j] = IF j < at THEN rest[j] ELSE IF j = at THEN moving ELSE rest[j - 1]
  <2>1. at \in 1 .. Len(rest) + 1 /\ Len(rest) + 1 = n
    BY <1>1, <1>7, <1>8
  <2> QED BY <1>6, <1>7, <2>1, InsertAtTasks
<1> HIDE DEF new
<1>10. \A j \in 1 .. n - 1 : File(rest[j]) \in Named(tasks)
  <2> TAKE j \in 1 .. n - 1
  <2>1. j \in 1 .. n /\ j + 1 \in 1 .. n
    BY <1>1
  <2> QED BY <1>2, <1>7, <2>1
<1>11. \A k \in 1 .. n : File(new[k]) \in Named(tasks)
  <2> TAKE k \in 1 .. n
  <2>1. CASE k < at
    <3>1. k \in 1 .. n - 1
      BY <1>1, <1>8, <2>1
    <3> QED BY <1>9, <1>10, <2>1, <3>1
  <2>2. CASE k = at
    <3>1. new[k] = moving
      BY <1>8, <1>9, <2>2
    <3> QED BY <1>2, <1>5, <1>6, <3>1
  <2>3. CASE k > at
    <3>1. k - 1 \in 1 .. n - 1 /\ ~(k < at) /\ k # at
      BY <1>1, <1>8, <2>3
    <3> QED BY <1>9, <1>10, <3>1
  <2> QED BY <1>1, <1>8, <2>1, <2>2, <2>3
<1>12. ASSUME NEW j \in 1 .. n PROVE \E k \in 1 .. n : File(new[k]) = File(level[j])
  <2>1. CASE j = pos
    <3>1. new[at] = moving
      BY <1>8, <1>9
    <3> QED BY <1>6, <1>8, <2>1, <3>1
  <2>2. ASSUME NEW r \in 1 .. n - 1 PROVE \E k \in 1 .. n : new[k] = rest[r]
    <3>1. CASE r < at
      <4>1. r \in 1 .. n
        BY <1>1
      <4> QED BY <1>9, <3>1, <4>1
    <3>2. CASE ~(r < at)
      <4>1. r + 1 \in 1 .. n /\ ~(r + 1 < at) /\ r + 1 # at /\ (r + 1) - 1 = r
        BY <1>1, <1>8, <3>2
      <4> QED BY <1>9, <4>1
    <3> QED BY <3>1, <3>2
  <2>3. CASE j < pos
    <3>1. j \in 1 .. n - 1
      BY <1>1, <1>5, <2>3
    <3>2. rest[j] = level[j]
      BY <1>7, <2>3, <3>1
    <3> QED BY <2>2, <3>1, <3>2
  <2>4. CASE j > pos
    <3>1. j - 1 \in 1 .. n - 1 /\ ~(j - 1 < pos) /\ (j - 1) + 1 = j
      BY <1>1, <1>5, <2>4
    <3>2. rest[j - 1] = level[j]
      BY <1>7, <3>1
    <3> QED BY <2>2, <3>1, <3>2
  <2> QED BY <1>1, <1>5, <2>1, <2>3, <2>4
<1>13. \A i \in P : \E k \in 1 .. n : File(new[k]) = File(tasks[i])
  BY <1>2, <1>12
<1>14. Named(WithLevel(tasks, parent, new)) \subseteq Named(tasks)
  BY <1>11, WithLevelNames DEF n
<1>15. Named(tasks) \subseteq Named(WithLevel(tasks, parent, new))
  BY <1>13, WithLevelNamesAll DEF n
<1> QED BY <1>4, <1>14, <1>15

-----------------------------------------------------------------------------
(* Reordering a level                                                      *)

LEMMA ReorderedNames ==
  ASSUME NEW tasks \in Seq(Tasks), NEW parent, NEW ordered \in Seq(TaskIds),
         Len(ordered) = Len(Level(tasks, parent)), IsInjective(ordered),
         ToSet(ordered) \subseteq {Level(tasks, parent)[i].id : i \in DOMAIN Level(tasks, parent)}
  PROVE  Named(Reordered(tasks, parent, ordered)) = Named(tasks)
<1> DEFINE P == Positions(tasks, parent)
           n == Cardinality(P)
           level == Level(tasks, parent)
           listed == {level[i].id : i \in DOMAIN level}
           pick == [k \in 1 .. n |-> CHOOSE t \in ToSet(level) : t.id = ordered[k]]
           ids == [k \in 1 .. n |-> level[k].id]
<1>1. n \in Nat /\ P \subseteq Nat /\ IsFiniteSet(P) /\ P \subseteq DOMAIN tasks
  BY PositionsAreFinite
<1>2. /\ level \in Seq(Tasks) /\ Len(level) = n
      /\ \A k \in DOMAIN level : \E i \in DOMAIN tasks : level[k] = tasks[i]
      /\ \A i \in P : level[Rank(P, i)] = tasks[i]
  BY LevelTasks
<1>3. DOMAIN level = 1 .. n /\ DOMAIN ordered = 1 .. n
  BY <1>2, LenProperties
<1>4. Reordered(tasks, parent, ordered) = WithLevel(tasks, parent, pick)
  BY <1>3 DEF Reordered
<1>5. /\ \A k \in 1 .. n : ordered[k] \in listed
      /\ \A j, k \in 1 .. n : ordered[j] = ordered[k] => j = k
  <2>1. \A k \in DOMAIN ordered : ordered[k] \in ToSet(ordered)
    BY DEF ToSet
  <2>2. \A j, k \in DOMAIN ordered : ordered[j] = ordered[k] => j = k
    BY DEF IsInjective
  <2> QED BY <1>3, <2>1, <2>2
<1>6. \A i \in P : Rank(P, i) \in 1 .. n
  BY <1>1, RankBounds
<1> HIDE DEF P, n, level
<1>7. \A k \in 1 .. n : \E j \in 1 .. n : pick[k] = level[j] /\ level[j].id = ordered[k]
  <2> TAKE k \in 1 .. n
  <2>1. \E t \in ToSet(level) : t.id = ordered[k]
    BY <1>3, <1>5 DEF ToSet
  <2>2. pick[k] \in ToSet(level) /\ pick[k].id = ordered[k]
    BY <2>1
  <2>3. \E j \in 1 .. n : level[j] = pick[k]
    BY <1>3, <2>2 DEF ToSet
  <2> QED BY <2>2, <2>3
(* As many distinct IDs are asked for as the level holds, so they are all  *)
(* of them, and no two tasks of the level share one.                       *)
<1>8. ids \in Surjection(1 .. n, listed)
  BY <1>3 DEF Surjection
<1> HIDE DEF pick, listed, ids
<1>9. IsFiniteSet(1 .. n) /\ Cardinality(1 .. n) = n
  <2>1. 1 \in Int /\ n \in Int /\ n - 1 + 1 = n /\ (1 > n <=> n = 0)
    BY <1>1
  <2>2. IsFiniteSet(1 .. n) /\ Cardinality(1 .. n) = IF 1 > n THEN 0 ELSE n - 1 + 1
    BY <2>1, FS_Interval
  <2> QED BY <2>1, <2>2
<1>10. /\ IsFiniteSet(listed) /\ Cardinality(listed) <= n
       /\ Cardinality(listed) = n <=> ids \in Injection(1 .. n, listed)
  BY <1>8, <1>9, FS_Surjection
<1>11. ordered \in Injection(1 .. n, listed)
  <2>1. ordered \in [1 .. n -> listed]
    BY <1>3, <1>5
  <2> QED BY <1>5, <2>1 DEF Injection, IsInjective
<1>12. n <= Cardinality(listed) /\ (n = Cardinality(listed) <=> ordered \in Surjection(1 .. n, listed))
  BY <1>9, <1>10, <1>11, FS_Injection
<1>13. n = Cardinality(listed)
  <2>1. Cardinality(listed) \in Nat
    BY <1>10, FS_CardinalityType
  <2> QED BY <1>1, <1>10, <1>12, <2>1
<1>14. \A i, j \in 1 .. n : level[i].id = level[j].id => i = j
  BY <1>10, <1>13 DEF Injection, IsInjective, ids
<1>15. \A x \in listed : \E k \in 1 .. n : ordered[k] = x
  BY <1>12, <1>13 DEF Surjection
<1>16. \A j \in 1 .. n : \E k \in 1 .. n : pick[k] = level[j]
  <2> TAKE j \in 1 .. n
  <2>1. level[j].id \in listed
    BY <1>3 DEF listed
  <2>2. PICK k \in 1 .. n : ordered[k] = level[j].id
    BY <1>15, <2>1
  <2> QED BY <1>7, <1>14, <2>2
<1>17. Named(WithLevel(tasks, parent, pick)) \subseteq Named(tasks)
  <2>1. \A k \in 1 .. n : File(pick[k]) \in Named(tasks)
    BY <1>2, <1>3, <1>7 DEF Named
  <2> QED BY <2>1, WithLevelNames DEF n, P
<1>18. Named(tasks) \subseteq Named(WithLevel(tasks, parent, pick))
  <2>1. ASSUME NEW i \in P PROVE \E k \in 1 .. n : File(pick[k]) = File(tasks[i])
    <3>1. level[Rank(P, i)] = tasks[i] /\ Rank(P, i) \in 1 .. n
      BY <1>2, <1>6
    <3>2. PICK k \in 1 .. n : pick[k] = level[Rank(P, i)]
      BY <1>16, <3>1
    <3> QED BY <3>1, <3>2
  <2>2. \A i \in Positions(tasks, parent) : \E k \in 1 .. Cardinality(Positions(tasks, parent)) :
          File(pick[k]) = File(tasks[i])
    BY <2>1 DEF n, P
  <2> QED BY <2>2, WithLevelNamesAll
<1> QED BY <1>4, <1>17, <1>18

-----------------------------------------------------------------------------
(* The operations                                                          *)

LEMMA PatchedNames ==
  ASSUME NEW doc \in Docs, NEW id \in Ids(doc), NEW t, File(t) = File(Task(doc, id))
  PROVE  Named(Patched(doc, id, t).tasks) = Named(doc.tasks)
<1> DEFINE tasks == doc.tasks
           at == Index(doc, id)
           new == ReplaceAt(tasks, at, t)
<1>1. tasks \in Seq(Tasks)
  BY DEF Docs
<1>2. at \in DOMAIN tasks
  BY DEF Ids, Index
<1>3. Patched(doc, id, t).tasks = new
  BY DEF Patched, WithTasks, Docs
<1>4. Task(doc, id) = tasks[at]
  BY DEF Task
<1> HIDE DEF tasks, at
<1>5. DOMAIN new = DOMAIN tasks /\ \A i \in DOMAIN tasks : new[i] = IF i = at THEN t ELSE tasks[i]
  BY <1>1, LenProperties DEF ReplaceAt
<1> HIDE DEF new
<1>6. \A i \in DOMAIN tasks : File(new[i]) = File(tasks[i])
  BY <1>4, <1>5
<1>7. Named(new) = Named(tasks)
  BY <1>5, <1>6 DEF Named
<1> QED BY <1>3, <1>7 DEF tasks

LEMMA TaskOf ==
  ASSUME NEW doc \in Docs, NEW id \in Ids(doc)
  PROVE  Task(doc, id) \in Tasks
<1>1. doc.tasks \in Seq(Tasks)
  BY DEF Docs
<1>2. Index(doc, id) \in DOMAIN doc.tasks
  BY DEF Ids, Index
<1> QED BY <1>1, <1>2, LenProperties, ElementOfSeq DEF Task

(* What a call adds to the files the document names.                       *)
Added(c, doc) == IF c.op = "create" THEN {File(NewTask(doc, c.parent, c.slug))} ELSE {}

LEMMA ResultNames ==
  ASSUME NEW c \in AllCalls, NEW doc \in Docs, c.op # "decompose", Accepts(c, doc)
  PROVE  Named(Result(c, doc).tasks) = Named(doc.tasks) \cup Added(c, doc)
<1>1. doc.tasks \in Seq(Tasks)
  BY DEF Docs
<1>2. CASE c.op = "create"
  <2> DEFINE t == NewTask(doc, c.parent, c.slug)
  <2>1. Result(c, doc).tasks = Append(doc.tasks, t)
    BY <1>2 DEF Result, WithTasks, Docs
  <2> HIDE DEF t
  <2>2. /\ Len(Append(doc.tasks, t)) = Len(doc.tasks) + 1
        /\ \A i \in 1 .. Len(doc.tasks) : Append(doc.tasks, t)[i] = doc.tasks[i]
        /\ Append(doc.tasks, t)[Len(doc.tasks) + 1] = t
        /\ DOMAIN Append(doc.tasks, t) = 1 .. Len(doc.tasks) + 1
        /\ Len(doc.tasks) \in Nat /\ DOMAIN doc.tasks = 1 .. Len(doc.tasks)
    BY <1>1
  <2>3. \A i : i \in 1 .. Len(doc.tasks) + 1 <=> i \in 1 .. Len(doc.tasks) \/ i = Len(doc.tasks) + 1
    BY <2>2
  <2>4. Named(Append(doc.tasks, t)) = Named(doc.tasks) \cup {File(t)}
    BY <2>2, <2>3 DEF Named
  <2> QED BY <1>2, <2>1, <2>4 DEF Added, t
<1>3. CASE c.op = "status"
  <2>1. c.task \in Ids(doc)
    BY <1>3 DEF Accepts
  <2>2. Result(c, doc) = Patched(doc, c.task, WithStatus(Task(doc, c.task), c.to, c.evidence))
    BY <1>3 DEF Result
  <2>3. File(WithStatus(Task(doc, c.task), c.to, c.evidence)) = File(Task(doc, c.task))
    BY <2>1, TaskOf DEF WithStatus, File, Tasks
  <2> QED BY <1>3, <2>1, <2>2, <2>3, PatchedNames DEF Added
<1>4. CASE c.op = "update"
  <2>1. c.task \in Ids(doc)
    BY <1>4 DEF Accepts
  <2>2. Result(c, doc) = Patched(doc, c.task, Updated(Task(doc, c.task), c.notes, c.deps))
    BY <1>4 DEF Result
  <2>3. File(Updated(Task(doc, c.task), c.notes, c.deps)) = File(Task(doc, c.task))
    BY <2>1, TaskOf DEF Updated, File, Tasks
  <2> QED BY <1>4, <2>1, <2>2, <2>3, PatchedNames DEF Added
<1>5. CASE c.op = "move"
  <2>1. c.task \in Ids(doc)
    BY <1>5 DEF Accepts
  <2>2. c.to \in TaskStatuses
    BY <1>5 DEF AllCalls
  <2>3. Result(c, doc).tasks = Moved(doc.tasks, c.task, c.to, c.index)
    BY <1>5 DEF Result, WithTasks, Docs
  <2>4. \E i \in DOMAIN doc.tasks : doc.tasks[i].id = c.task
    BY <2>1 DEF Ids
  <2>5. Named(Moved(doc.tasks, c.task, c.to, c.index)) = Named(doc.tasks)
    BY <1>1, <2>2, <2>4, MovedNames
  <2> QED BY <1>5, <2>3, <2>5 DEF Added
<1>6. CASE c.op = "reorder"
  <2> DEFINE level == Level(doc.tasks, c.parent)
  <2>1. /\ Len(c.ordered) = Len(level) /\ IsInjective(c.ordered)
        /\ ToSet(c.ordered) \subseteq {level[i].id : i \in DOMAIN level}
    BY <1>6 DEF Accepts
  <2>2. c.ordered \in Seq(TaskIds)
    BY <1>6 DEF AllCalls
  <2>3. Result(c, doc).tasks = Reordered(doc.tasks, c.parent, c.ordered)
    BY <1>6 DEF Result, WithTasks, Docs
  <2>4. Named(Reordered(doc.tasks, c.parent, c.ordered)) = Named(doc.tasks)
    BY <1>1, <2>1, <2>2, ReorderedNames
  <2> QED BY <1>6, <2>3, <2>4 DEF Added
<1>7. CASE c.op \in {"decide", "close", "reopen"}
  <2>1. Result(c, doc).tasks = doc.tasks
    BY <1>7 DEF Result, Docs
  <2> QED BY <1>7, <2>1 DEF Added
<1>8. c.op \in {"create", "status", "update", "move", "reorder", "decide", "close", "reopen"}
  BY DEF AllCalls
<1> QED BY <1>2, <1>3, <1>4, <1>5, <1>6, <1>7, <1>8

-----------------------------------------------------------------------------
(* A new task's number                                                     *)

(* CreateTask numbers a task above every task of the level it joins.       *)
LEMMA NextSeqIsAbove ==
  ASSUME NEW tasks \in Seq(Tasks), NEW parent
  PROVE  /\ NextSeq(tasks, parent) \in Nat
         /\ \A i \in Positions(tasks, parent) : Last(tasks[i].id) < NextSeq(tasks, parent)
<1> DEFINE P == Positions(tasks, parent)
           S == {Last(tasks[i].id) : i \in P}
           last == [i \in P |-> Last(tasks[i].id)]
<1>1. IsFiniteSet(P) /\ P \subseteq DOMAIN tasks
  BY PositionsAreFinite
<1>2. \A i \in P : Last(tasks[i].id) \in Nat
  <2> TAKE i \in P
  <2>1. tasks[i] \in Tasks
    BY <1>1, LenProperties, ElementOfSeq
  <2>2. tasks[i].id \in Seq(Nat) /\ tasks[i].id # << >>
    BY <2>1 DEF Tasks, TaskIds, Root
  <2>3. Len(tasks[i].id) \in 1 .. Len(tasks[i].id)
    BY <2>2, LenProperties, EmptySeq
  <2> QED BY <2>2, <2>3, ElementOfSeq DEF Last
<1>3. last \in Surjection(P, S)
  BY DEF Surjection
<1>4. IsFiniteSet(S)
  BY <1>1, <1>3, FS_Surjection
<1>5. S \subseteq Nat
  BY <1>2
<1>6. NextSeq(tasks, parent) = Max({-1} \cup S) + 1
  BY DEF NextSeq, Positions
<1> HIDE DEF P, S, last
<1>7. \E x \in {-1} \cup S : \A y \in {-1} \cup S : x >= y
  <2>1. CASE S = {}
    BY <2>1
  <2>2. CASE S # {}
    <3>1. Max(S) \in S /\ Max(S) \in Nat /\ \A y \in S : Max(S) >= y
      BY <1>4, <1>5, <2>2, GreatestMember
    <3>2. Max(S) >= -1
      BY <3>1
    <3> QED BY <3>1, <3>2
  <2> QED BY <2>1, <2>2
<1>8. Max({-1} \cup S) \in {-1} \cup S /\ \A y \in {-1} \cup S : Max({-1} \cup S) >= y
  BY <1>7 DEF Max
<1> DEFINE m == Max({-1} \cup S)
<1>9. (m = -1 \/ m \in Nat) /\ \A y \in S : m >= y
  BY <1>5, <1>8
<1> HIDE DEF m
<1>10. m + 1 \in Nat /\ \A y \in S : y < m + 1
  BY <1>5, <1>9
<1> QED BY <1>6, <1>10 DEF m, P, S

(* ... so that no task of the document has the new one's ID.               *)
LEMMA NewTaskIsNew ==
  ASSUME NEW doc \in Docs, NEW parent \in Levels, NEW slug
  PROVE  NewTask(doc, parent, slug).id \notin Ids(doc)
<1> DEFINE tasks == doc.tasks
           seq == NextSeq(tasks, parent)
           id == Append(parent, seq)
<1>1. tasks \in Seq(Tasks) /\ parent \in Seq(Nat)
  <2>1. << >> \in Seq(Nat)
    OBVIOUS
  <2> QED BY <2>1 DEF Docs, Levels, TaskIds, Root
<1>2. seq \in Nat /\ \A i \in Positions(tasks, parent) : Last(tasks[i].id) < seq
  BY <1>1, NextSeqIsAbove
<1>3. NewTask(doc, parent, slug).id = id
  BY DEF NewTask
<1> HIDE DEF tasks, seq
<1>4. /\ id \in Seq(Nat) /\ Len(id) = Len(parent) + 1 /\ id[Len(id)] = seq
      /\ \A k \in 1 .. Len(parent) : id[k] = parent[k]
  BY <1>1, <1>2, AppendProperties
<1>5. Len(parent) \in Nat
  BY <1>1
<1> HIDE DEF id
<1>6. Parent(id) = parent
  <2>1. Parent(id) = SubSeq(id, 1, Len(parent))
    BY <1>4, <1>5 DEF Parent
  <2>2. /\ SubSeq(id, 1, Len(parent)) \in Seq(Nat)
        /\ Len(SubSeq(id, 1, Len(parent))) = Len(parent)
        /\ \A k \in 1 .. Len(parent) : SubSeq(id, 1, Len(parent))[k] = id[k]
    BY <1>4, <1>5
  <2> QED BY <1>1, <1>4, <2>1, <2>2, SeqEqual
<1>7. Last(id) = seq
  BY <1>4 DEF Last
<1>8. ASSUME NEW i \in DOMAIN tasks, tasks[i].id = id
      PROVE  FALSE
  <2>1. i \in Positions(tasks, parent)
    BY <1>6, <1>8 DEF Positions, AtLevel
  <2>2. seq < seq
    BY <1>2, <1>7, <1>8, <2>1
  <2> QED BY <1>2, <2>2
<1> QED BY <1>3, <1>8 DEF Ids, tasks

-----------------------------------------------------------------------------
(* IDs stay unique                                                         *)

LEMMA SameSize ==
  ASSUME NEW c \in AllCalls, NEW doc \in Docs, c.op \notin {"decompose", "create"}
  PROVE  DOMAIN Result(c, doc).tasks = DOMAIN doc.tasks
<1>1. CASE c.op = "status"
  BY <1>1 DEF Result, Patched, WithTasks, ReplaceAt, Docs
<1>2. CASE c.op = "update"
  BY <1>2 DEF Result, Patched, WithTasks, ReplaceAt, Docs
<1>3. CASE c.op = "move"
  BY <1>3 DEF Result, WithTasks, Moved, WithLevel, Docs
<1>4. CASE c.op = "reorder"
  BY <1>4 DEF Result, WithTasks, Reordered, WithLevel, Docs
<1>5. CASE c.op \in {"decide", "close", "reopen"}
  BY <1>5 DEF Result, Docs
<1>6. c.op \in {"status", "update", "move", "reorder", "decide", "close", "reopen"}
  BY DEF AllCalls
<1> QED BY <1>1, <1>2, <1>3, <1>4, <1>5, <1>6

(* As many tasks that name the same files cannot share an ID when the      *)
(* tasks they come from do not.                                            *)
LEMMA SameNamesSameIds ==
  ASSUME NEW n \in Nat, NEW old, NEW new, DOMAIN old = 1 .. n, DOMAIN new = 1 .. n,
         Named(new) = Named(old), UniqueIds(old)
  PROVE  UniqueIds(new)
<1> DEFINE ids == {old[i].id : i \in 1 .. n}
           f == [i \in 1 .. n |-> old[i].id]
           g == [i \in 1 .. n |-> new[i].id]
<1>1. IsFiniteSet(1 .. n) /\ Cardinality(1 .. n) = n
  <2>1. 1 \in Int /\ n \in Int /\ n - 1 + 1 = n /\ (1 > n <=> n = 0)
    OBVIOUS
  <2>2. IsFiniteSet(1 .. n) /\ Cardinality(1 .. n) = IF 1 > n THEN 0 ELSE n - 1 + 1
    BY <2>1, FS_Interval
  <2> QED BY <2>1, <2>2
<1>2. f \in Surjection(1 .. n, ids)
  BY DEF Surjection
<1>3. f \in Injection(1 .. n, ids)
  BY DEF UniqueIds, Injection, IsInjective
<1>4. \A i \in 1 .. n : \E j \in 1 .. n : new[i].id = old[j].id
  <2> TAKE i \in 1 .. n
  <2>1. File(new[i]) \in Named(old)
    BY DEF Named
  <2>2. PICK j \in 1 .. n : File(new[i]) = File(old[j])
    BY <2>1 DEF Named
  <2> QED BY <2>2 DEF File
<1>5. \A i \in 1 .. n : \E j \in 1 .. n : old[i].id = new[j].id
  <2> TAKE i \in 1 .. n
  <2>1. File(old[i]) \in Named(new)
    BY DEF Named
  <2>2. PICK j \in 1 .. n : File(old[i]) = File(new[j])
    BY <2>1 DEF Named
  <2> QED BY <2>2 DEF File
<1>6. g \in Surjection(1 .. n, ids)
  <2>1. g \in [1 .. n -> ids]
    BY <1>4
  <2>2. ASSUME NEW x \in ids PROVE \E i \in 1 .. n : g[i] = x
    <3>1. PICK i \in 1 .. n : x = old[i].id
      OBVIOUS
    <3>2. PICK j \in 1 .. n : old[i].id = new[j].id
      BY <1>5
    <3>3. g[j] = x
      BY <3>1, <3>2
    <3> QED BY <3>3
  <2> HIDE DEF g, ids
  <2> QED BY <2>1, <2>2 DEF Surjection
<1> HIDE DEF f, ids
<1>7. Cardinality(ids) = n
  BY <1>1, <1>2, <1>3, FS_Surjection
<1>8. g \in Injection(1 .. n, ids)
  <2> HIDE DEF g
  <2> QED BY <1>1, <1>6, <1>7, FS_Surjection
<1>9. \A i, j \in 1 .. n : g[i] = g[j] => i = j
  <2> HIDE DEF g
  <2> QED BY <1>8 DEF Injection, IsInjective
<1> QED BY <1>9 DEF UniqueIds

(* An operation of the store neither loses nor invents a task, and gives   *)
(* none another ID or prose file, wherever it moves it: the files its      *)
(* document names are those of the document it read, and of the one task   *)
(* it creates, and IDs that were distinct stay so (CreateTask,             *)
(* SetTaskStatus, MoveTask, UpdateTask, ReorderTasks).                     *)
THEOREM OperationsKeepTasks ==
  ASSUME NEW c \in AllCalls, NEW doc \in Docs, c.op # "decompose", Accepts(c, doc)
  PROVE  /\ Named(Result(c, doc).tasks) = Named(doc.tasks) \cup Added(c, doc)
         /\ UniqueIds(doc.tasks) => UniqueIds(Result(c, doc).tasks)
<1>1. Named(Result(c, doc).tasks) = Named(doc.tasks) \cup Added(c, doc)
  BY ResultNames
<1>2. doc.tasks \in Seq(Tasks) /\ Len(doc.tasks) \in Nat /\ DOMAIN doc.tasks = 1 .. Len(doc.tasks)
  BY DEF Docs
<1>3. CASE c.op # "create" /\ UniqueIds(doc.tasks)
  <2>1. DOMAIN Result(c, doc).tasks = 1 .. Len(doc.tasks)
    BY <1>2, <1>3, SameSize
  <2>2. Named(Result(c, doc).tasks) = Named(doc.tasks)
    BY <1>1, <1>3 DEF Added
  <2> QED BY <1>1, <1>2, <1>3, <2>1, <2>2, SameNamesSameIds
<1>4. CASE c.op = "create" /\ UniqueIds(doc.tasks)
  <2> DEFINE t == NewTask(doc, c.parent, c.slug)
             tasks == doc.tasks
             n == Len(tasks)
             new == Append(tasks, t)
  <2>1. c.parent \in Levels
    BY <1>4 DEF AllCalls
  <2>2. \A i \in 1 .. n : tasks[i].id # t.id
    BY <1>2, <2>1, NewTaskIsNew DEF Ids
  <2>3. Result(c, doc).tasks = new
    BY <1>4 DEF Result, WithTasks, Docs
  <2>4. tasks \in Seq(Tasks) /\ n \in Nat /\ \A i, j \in 1 .. n : tasks[i].id = tasks[j].id => i = j
    BY <1>2, <1>4 DEF UniqueIds
  <2> HIDE DEF t, tasks
  <2>5. /\ DOMAIN new = 1 .. n + 1 /\ new[n + 1] = t
        /\ \A i \in 1 .. n : new[i] = tasks[i]
    BY <2>4
  <2>6. \A i : i \in 1 .. n + 1 <=> i \in 1 .. n \/ i = n + 1
    BY <2>4
  <2> HIDE DEF n, new
  <2>7. \A i, j \in 1 .. n + 1 : new[i].id = new[j].id => i = j
    BY <2>2, <2>4, <2>5, <2>6
  <2> QED BY <1>1, <2>3, <2>5, <2>7 DEF UniqueIds
<1> QED BY <1>1, <1>3, <1>4

-----------------------------------------------------------------------------
(* No listed task without its prose file                                   *)

(* A document on its way to the disk names files that are written already, *)
(* and a call that has reached its read is one that mutates the document.  *)
WritesListed(p) == pc[p] \in {"save", "syncSave"} => FilesOf(work[p]) \subseteq prose
ReadsMutate(p) == pc[p] = "read" => call[p] \in Calls /\ call[p].op # "decompose"
ProcsCovered == \A p \in Procs : WritesListed(p) /\ ReadsMutate(p)
ProseInv ==
  /\ ListedTasksHaveProse
  /\ ProcsCovered
  /\ work = [p \in Procs |-> work[p]]

LEMMA FilesAreNamed ==
  ASSUME NEW doc, doc # Unreadable
  PROVE  FilesOf(doc) = Named(doc.tasks)
BY DEF FilesOf, Named

LEMMA InitProse == Init => ProseInv
BY DEF Init, ProseInv, ProcsCovered, ListedTasksHaveProse, WritesListed, ReadsMutate

(* Nobody else is disturbed by a step of p that only adds prose files.     *)
LEMMA StepCovers ==
  ASSUME TypeOK, ProcsCovered, NEW p \in Procs, NEW label \in Labels, Goto(p, label),
         prose \subseteq prose', \A q \in Procs : q # p => work'[q] = work[q],
         label # "read", label \in {"save", "syncSave"} => FilesOf(work'[p]) \subseteq prose'
  PROVE  ProcsCovered'
<1>1. pc'[p] = label /\ \A q \in Procs : q # p => pc'[q] = pc[q]
  BY DEF Goto, TypeOK
<1>2. \A q \in Procs : q # p => call'[q] = call[q]
  BY DEF Goto, TypeOK
<1>3. ASSUME NEW q \in Procs PROVE (WritesListed(q) /\ ReadsMutate(q))'
  <2>1. CASE q = p
    BY <1>1, <2>1 DEF WritesListed, ReadsMutate
  <2>2. CASE q # p
    BY <1>1, <1>2, <2>2 DEF ProcsCovered, WritesListed, ReadsMutate
  <2> QED BY <2>1, <2>2
<1> QED BY <1>3 DEF ProcsCovered

(* A step that leaves the disk and the prose alone, and writes nothing.    *)
LEMMA QuietStep ==
  ASSUME TypeOK, ProseInv, NEW p \in Procs, NEW label \in Labels \ {"read", "save", "syncSave"},
         Goto(p, label), FilesOf(disk') \subseteq prose', prose' = prose,
         work' = [work EXCEPT ![p] = None] \/ work' = work
  PROVE  ProseInv'
<1>1. ProcsCovered'
  BY StepCovers DEF ProseInv
<1> QED
  BY <1>1 DEF ProseInv, ListedTasksHaveProse

LEMMA StepProse ==
  ASSUME TypeOK, ProseInv, Next
  PROVE  ProseInv'
<1> USE DEF ProseInv
<1>1. ASSUME NEW p \in Clients, NEW c \in Calls, Begin(p, c)
      PROVE  ProseInv'
  <2>1. disk' = disk /\ prose' = prose /\ work' = work
    BY <1>1 DEF Begin, held
  <2>2. /\ call'[p] = c /\ pc'[p] \in {"scan", "read"} /\ (pc'[p] = "read" => c.op # "decompose")
        /\ \A q \in Procs : q # p => call'[q] = call[q] /\ pc'[q] = pc[q]
    BY <1>1 DEF Begin, TypeOK, Procs
  <2>3. ProcsCovered'
    BY <2>1, <2>2 DEF ProcsCovered, WritesListed, ReadsMutate
  <2> QED
    BY <2>1, <2>3 DEF ListedTasksHaveProse
<1>2. ASSUME NEW p \in Clients, Read(p)
      PROVE  ProseInv'
  <2> DEFINE c == call[p]
  <2>1. p \in Procs
    BY DEF Procs
  <2>2. c \in AllCalls /\ c.op # "decompose"
    BY <1>2, <2>1, StoreAssumption DEF Read, At, ProcsCovered, ReadsMutate
  <2>3. disk \in Docs /\ disk # Unreadable /\ Accepts(c, disk)
    BY <1>2 DEF Read, TypeOK, Files
  <2>4. prose' = prose \cup Added(c, disk) /\ disk' = disk /\ Goto(p, "save")
    BY <1>2 DEF Read, Added
  <2>5. work' = [work EXCEPT ![p] = Result(c, disk)]
    BY <1>2 DEF Read
  <2> HIDE DEF c
  <2>6. work'[p] = Result(c, disk) /\ \A q \in Procs : q # p => work'[q] = work[q]
    BY <2>1, <2>5
  <2>7. FilesOf(work'[p]) \subseteq prose'
    <3>1. Named(Result(c, disk).tasks) = Named(disk.tasks) \cup Added(c, disk)
      BY <2>2, <2>3, ResultNames
    <3>2. Named(disk.tasks) \subseteq prose
      BY <2>3, FilesAreNamed DEF ListedTasksHaveProse
    <3>3. CASE Result(c, disk) = Unreadable
      BY <2>6, <3>3 DEF FilesOf
    <3>4. CASE Result(c, disk) # Unreadable
      BY <2>4, <2>6, <3>1, <3>2, <3>4, FilesAreNamed
    <3> QED BY <3>3, <3>4
  <2>8. ProcsCovered'
    BY <2>1, <2>4, <2>6, <2>7, StepCovers DEF Labels
  <2> QED
    BY <2>4, <2>5, <2>8 DEF ListedTasksHaveProse
<1>3. ASSUME NEW p \in Clients, Refuse(p) \/ SaveFails(p)
      PROVE  ProseInv'
  BY <1>3, QuietStep DEF Refuse, SaveFails, stored, held, Procs, Labels, ListedTasksHaveProse
<1>4. ASSUME NEW p \in Procs, Save(p) \/ SyncSave(p)
      PROVE  ProseInv'
  <2>1. FilesOf(disk') \subseteq prose' /\ prose' = prose
    BY <1>4 DEF Save, SyncSave, At, ProcsCovered, WritesListed
  <2>2. work' = [work EXCEPT ![p] = None] /\ \E label \in {"scan", "scan2"} : Goto(p, label)
    BY <1>4 DEF Save, SyncSave
  <2> QED BY <2>1, <2>2, QuietStep DEF Labels
<1>5. ASSUME NEW p \in Procs, Scan(p) \/ Swap(p) \/ Sync(p) \/ SyncFails(p)
      PROVE  ProseInv'
  <2>1. FilesOf(disk') \subseteq prose' /\ prose' = prose
    BY <1>5 DEF Scan, Swap, Sync, SyncFails, stored, ListedTasksHaveProse
  <2>2. work' = [work EXCEPT ![p] = None] \/ work' = work
    BY <1>5 DEF Scan, Swap, Sync, SyncFails, held
  <2>3. \E label \in {"swap", "swap2", "sync", "idle", "syncRead"} : Goto(p, label)
    BY <1>5 DEF Scan, Swap, AfterSwap, Sync, SyncFails
  <2> QED BY <2>1, <2>2, <2>3, QuietStep DEF Labels
<1>6. ASSUME NEW p \in Procs, SyncRead(p)
      PROVE  ProseInv'
  <2>1. FilesOf(disk') \subseteq prose' /\ prose' = prose
    BY <1>6 DEF SyncRead, stored, ListedTasksHaveProse
  <2>2. CASE ~(disk # Unreadable /\ disk.status.derived)
    <3>1. Goto(p, "idle") /\ work' = work
      BY <1>6, <2>2 DEF SyncRead, held
    <3> QED BY <2>1, <3>1, QuietStep DEF Labels
  <2>3. CASE disk # Unreadable /\ disk.status.derived
    <3>1. Goto(p, "syncSave") /\ work' = [work EXCEPT ![p] = Converged(disk, snap[p])]
      BY <1>6, <2>3 DEF SyncRead
    <3>2. disk \in Docs
      BY <2>3 DEF TypeOK, Files
    <3>3. Converged(disk, snap[p]).tasks = disk.tasks
      BY <3>2 DEF Converged, Docs
    <3>4. FilesOf(Converged(disk, snap[p])) \subseteq prose'
      <4>1. CASE Converged(disk, snap[p]) = Unreadable
        BY <4>1 DEF FilesOf
      <4>2. CASE Converged(disk, snap[p]) # Unreadable
        BY <1>6, <2>1, <2>3, <3>3, <4>2, FilesAreNamed DEF SyncRead, stored, ListedTasksHaveProse
      <4> QED BY <4>1, <4>2
    <3>5. work'[p] = Converged(disk, snap[p]) /\ \A q \in Procs : q # p => work'[q] = work[q]
      BY <3>1
    <3>6. ProcsCovered'
      BY <2>1, <3>1, <3>4, <3>5, StepCovers DEF Labels
    <3> QED BY <2>1, <3>1, <3>6 DEF ListedTasksHaveProse
  <2> QED BY <2>2, <2>3
<1>7. CASE Fire
  <2>1. Goto(Watcher, "scan") /\ work' = work /\ prose' = prose /\ disk' = disk
    BY <1>7 DEF Fire, stored, held
  <2> QED BY <2>1, QuietStep DEF Procs, Labels, ListedTasksHaveProse
<1>8. ASSUME NEW doc \in ExternalDocs, External(doc)
      PROVE  ProseInv'
  <2>1. /\ disk' = doc /\ prose' = prose \cup FilesOf(doc)
        /\ pc' = pc /\ call' = call /\ work' = work
    BY <1>8 DEF External, held
  <2> QED BY <2>1 DEF ProcsCovered, WritesListed, ReadsMutate, ListedTasksHaveProse
<1>9. CASE Restart
  BY <1>9 DEF Restart, stored, ProcsCovered, WritesListed, ReadsMutate, ListedTasksHaveProse
<1>10. ASSUME NEW p \in Clients, CallStep(p) PROVE ProseInv'
  <2>1. p \in Procs
    BY DEF Procs
  <2> QED BY <1>2, <1>3, <1>4, <1>10, <2>1 DEF CallStep
<1>11. ASSUME NEW p \in Procs, ReloadStep(p) \/ SyncStep(p) PROVE ProseInv'
  BY <1>4, <1>5, <1>6, <1>11 DEF ReloadStep, SyncStep
<1> HIDE DEF ProseInv
<1> QED
  BY <1>1, <1>7, <1>8, <1>9, <1>10, <1>11 DEF Next

(* Every task the state file lists has its prose file on disk, whatever    *)
(* calls, edits and rescans overlap and wherever a restart falls: the      *)
(* order of CreateTask's two writes, and no operation naming a file that   *)
(* the document it read, or its own creation, did not (ResultNames).       *)
THEOREM ListedTasksAreWritten == Spec => []ListedTasksHaveProse
<1>1. Init => ProseInv
  BY InitProse
<1>2. TypeOK /\ ProseInv /\ [Next]_vars => ProseInv'
  <2>1. ASSUME ProseInv, UNCHANGED vars PROVE ProseInv'
    BY <2>1 DEF ProseInv, ProcsCovered, ListedTasksHaveProse, WritesListed, ReadsMutate, vars, stored, held
  <2> QED BY <2>1, StepProse
<1>3. ProseInv => ListedTasksHaveProse
  BY DEF ProseInv
<1> QED
  BY <1>1, <1>2, <1>3, TypeCorrect, PTL DEF Spec

-----------------------------------------------------------------------------
(* Ranks in an ordering                                                    *)

(* R, a set of pairs, orders S strictly and totally.                       *)
Orders(R, S) ==
  /\ \A x \in S : <<x, x>> \notin R
  /\ \A x, y, z \in S : <<x, y>> \in R /\ <<y, z>> \in R => <<x, z>> \in R
  /\ \A x, y \in S : x = y \/ <<x, y>> \in R \/ <<y, x>> \in R
Foremost(R, S, x) == \A y \in S \ {x} : <<x, y>> \in R
UpTo(R, S, x) == {y \in S : y = x \/ <<y, x>> \in R}

LEMMA UpToBounds ==
  ASSUME NEW S, IsFiniteSet(S), NEW R, NEW x \in S
  PROVE  Cardinality(UpTo(R, S, x)) \in 1 .. Cardinality(S)
<1> DEFINE T == UpTo(R, S, x)
<1>1. T \in SUBSET S /\ x \in T
  BY DEF UpTo
<1> HIDE DEF T
<1>2. /\ IsFiniteSet(T) /\ Cardinality(T) <= Cardinality(S) /\ Cardinality(T) \in Nat
      /\ Cardinality(S) \in Nat
  BY <1>1, FS_Subset, FS_CardinalityType
<1>3. Cardinality(T) # 0
  BY <1>1, <1>2, FS_EmptySet
<1> QED BY <1>2, <1>3 DEF T

LEMMA UpToGrows ==
  ASSUME NEW S, IsFiniteSet(S), NEW R, Orders(R, S), NEW x \in S, NEW y \in S, <<x, y>> \in R
  PROVE  Cardinality(UpTo(R, S, x)) < Cardinality(UpTo(R, S, y))
<1> DEFINE T == UpTo(R, S, x)
           U == UpTo(R, S, y)
<1>1. U \in SUBSET S
  BY DEF UpTo
<1>2. T \in SUBSET U
  BY DEF Orders, UpTo
<1>3. y \in U /\ y \notin T
  BY DEF Orders, UpTo
<1> HIDE DEF T, U
<1>4. IsFiniteSet(U) /\ Cardinality(U) \in Nat
  BY <1>1, FS_Subset, FS_CardinalityType
<1>5. IsFiniteSet(T) /\ Cardinality(T) <= Cardinality(U) /\ Cardinality(T) \in Nat
  BY <1>2, <1>4, FS_Subset, FS_CardinalityType
<1>6. Cardinality(T) # Cardinality(U)
  BY <1>2, <1>3, <1>4, FS_Subset
<1> QED BY <1>4, <1>5, <1>6 DEF T, U

(* In such an order no two members have one rank ...                       *)
LEMMA UpToTells ==
  ASSUME NEW S, IsFiniteSet(S), NEW R, Orders(R, S), NEW x \in S, NEW y \in S,
         Cardinality(UpTo(R, S, x)) = Cardinality(UpTo(R, S, y))
  PROVE  x = y
<1>1. /\ Cardinality(UpTo(R, S, x)) \in Nat
      /\ Cardinality(S) \in Nat
  <2>1. Cardinality(S) \in Nat
    BY FS_CardinalityType
  <2>2. Cardinality(UpTo(R, S, x)) \in 1 .. Cardinality(S)
    BY UpToBounds
  <2> QED BY <2>1, <2>2
<1>2. <<x, y>> \notin R
  <2>1. SUFFICES ASSUME <<x, y>> \in R PROVE FALSE
    OBVIOUS
  <2>2. Cardinality(UpTo(R, S, x)) < Cardinality(UpTo(R, S, y))
    BY <2>1, UpToGrows
  <2> QED BY <1>1, <2>2
<1>3. <<y, x>> \notin R
  <2>1. SUFFICES ASSUME <<y, x>> \in R PROVE FALSE
    OBVIOUS
  <2>2. Cardinality(UpTo(R, S, y)) < Cardinality(UpTo(R, S, x))
    BY <2>1, UpToGrows
  <2> QED BY <1>1, <2>2
<1> QED BY <1>2, <1>3 DEF Orders

(* ... and every rank is somebody's.                                       *)
LEMMA UpToReaches ==
  ASSUME NEW S, IsFiniteSet(S), NEW R, Orders(R, S), NEW k \in 1 .. Cardinality(S)
  PROVE  \E x \in S : Cardinality(UpTo(R, S, x)) = k
<1> DEFINE n == Cardinality(S)
           rank == [x \in S |-> Cardinality(UpTo(R, S, x))]
<1>1. n \in Nat
  BY FS_CardinalityType
<1>2. rank \in [S -> 1 .. n]
  BY UpToBounds
<1>3. \A x, y \in S : rank[x] = rank[y] => x = y
  <2> TAKE x \in S, y \in S
  <2> HAVE rank[x] = rank[y]
  <2>1. Cardinality(UpTo(R, S, x)) = Cardinality(UpTo(R, S, y))
    OBVIOUS
  <2> QED BY <2>1, UpToTells
<1> HIDE DEF n, rank
<1>4. rank \in Injection(S, 1 .. n)
  BY <1>2, <1>3 DEF Injection, IsInjective
<1>5. IsFiniteSet(1 .. n) /\ Cardinality(1 .. n) = n
  BY <1>1, FS_Interval
<1>6. rank \in Surjection(S, 1 .. n)
  BY <1>4, <1>5, FS_Injection DEF n
<1>7. \E x \in S : rank[x] = k
  BY <1>6 DEF Surjection, n
<1> QED BY <1>7 DEF rank

(* A finite set that is not empty has a first member.                      *)
LEMMA OrdersFirst ==
  ASSUME NEW S, NEW R, IsFiniteSet(S), S # {}, Orders(R, S)
  PROVE  \E x \in S : Foremost(R, S, x)
<1>1. Cardinality(S) \in Nat /\ Cardinality(S) # 0
  BY FS_CardinalityType, FS_EmptySet
<1>2. 1 \in 1 .. Cardinality(S)
  BY <1>1
<1>3. PICK x \in S : Cardinality(UpTo(R, S, x)) = 1
  BY <1>2, UpToReaches
<1>4. \A y \in S \ {x} : <<x, y>> \in R
  <2> TAKE y \in S \ {x}
  <2>1. SUFFICES ASSUME <<y, x>> \in R PROVE FALSE
    BY DEF Orders
  <2>2. Cardinality(UpTo(R, S, y)) < 1
    BY <1>3, <2>1, UpToGrows
  <2>3. Cardinality(UpTo(R, S, y)) \in 1 .. Cardinality(S)
    BY UpToBounds
  <2> QED BY <1>1, <2>2, <2>3
<1> QED BY <1>4 DEF Foremost

(* The least number of which something is true.                            *)
LEMMA LeastIndex ==
  ASSUME NEW n \in Nat, NEW S \in SUBSET (1 .. n), S # {}
  PROVE  \E i \in S : \A j \in 1 .. i - 1 : j \notin S
<1> DEFINE R == {p \in S \X S : p[1] < p[2]}
<1>1. IsFiniteSet(1 .. n)
  BY FS_Interval
<1>2. IsFiniteSet(S)
  BY <1>1, FS_Subset
<1>3. \A x \in S : x \in Nat
  OBVIOUS
<1>4. \A x, y \in S : <<x, y>> \in R <=> x < y
  OBVIOUS
<1> HIDE DEF R
<1>5. Orders(R, S)
  BY <1>3, <1>4 DEF Orders
<1>6. PICK i \in S : Foremost(R, S, i)
  BY <1>2, <1>5, OrdersFirst
<1>7. \A y \in S \ {i} : i < y
  BY <1>4, <1>6 DEF Foremost
<1>8. \A j \in 1 .. i - 1 : j \notin S
  BY <1>3, <1>7
<1> QED BY <1>8

-----------------------------------------------------------------------------
(* The walk's order                                                        *)

LEMMA RowsType ==
  ASSUME NEW tree, IsTree(tree), NEW k
  PROVE  /\ Rows(tree, k) \in Seq(TaskRows)
         /\ Len(Rows(tree, k)) \in Nat
         /\ DOMAIN Rows(tree, k) = 1 .. Len(Rows(tree, k))
<1>1. Rows(tree, k) \in Seq(TaskRows)
  <2>1. CASE k \in DOMAIN tree.rows
    BY <2>1 DEF Rows, IsTree
  <2>2. CASE k \notin DOMAIN tree.rows
    BY <2>2, EmptySeq DEF Rows
  <2> QED BY <2>1, <2>2
<1> QED BY <1>1, LenProperties

LEMMA TurnType ==
  ASSUME NEW tree, IsTree(tree), NEW id
  PROVE  Turn(tree, id) \in Nat
<1> DEFINE rows == Rows(tree, Parent(id))
           mine == {i \in DOMAIN rows : rows[i].file[1] = id}
           first == CHOOSE i \in mine : TRUE
<1>1. Len(rows) \in Nat /\ DOMAIN rows = 1 .. Len(rows)
  BY RowsType
<1>2. Turn(tree, id) = IF mine = {} THEN Len(rows) + 1 ELSE first
  BY DEF Turn
<1>3. mine # {} => first \in mine
  OBVIOUS
<1>4. mine \subseteq 1 .. Len(rows)
  BY <1>1
<1>5. \A i \in 1 .. Len(rows) : i \in Nat
  BY <1>1
<1> HIDE DEF mine, rows, first
<1>6. CASE mine = {}
  BY <1>1, <1>2, <1>6
<1>7. CASE mine # {}
  BY <1>2, <1>3, <1>4, <1>5, <1>7
<1> QED BY <1>6, <1>7

LEMMA UptoType ==
  ASSUME NEW a \in Seq(Nat), NEW n \in 0 .. Len(a)
  PROVE  /\ Upto(a, n) \in Seq(Nat) /\ Len(Upto(a, n)) = n
         /\ \A i \in 1 .. n : Upto(a, n)[i] = a[i]
<1>1. Len(a) \in Nat /\ \A i \in 1 .. n : a[i] \in Nat
  BY LenProperties, ElementOfSeq
<1>2. /\ SubSeq(a, 1, n) \in Seq(Nat)
      /\ Len(SubSeq(a, 1, n)) = IF 1 <= n THEN n - 1 + 1 ELSE 0
      /\ \A i \in 1 .. n - 1 + 1 : SubSeq(a, 1, n)[i] = a[1 + i - 1]
  BY <1>1, SubSeqProperties
<1>3. Len(SubSeq(a, 1, n)) = n
  BY <1>1, <1>2
<1>4. ASSUME NEW i \in 1 .. n PROVE SubSeq(a, 1, n)[i] = a[i]
  <2>1. i \in 1 .. n - 1 + 1 /\ 1 + i - 1 = i
    BY <1>1
  <2>2. SubSeq(a, 1, n)[i] = a[1 + i - 1]
    BY <1>2, <2>1
  <2> QED BY <2>1, <2>2
<1> QED BY <1>2, <1>3, <1>4 DEF Upto

LEMMA UptoSame ==
  ASSUME NEW a \in Seq(Nat), NEW b \in Seq(Nat), NEW n \in 0 .. Len(a), n <= Len(b),
         \A i \in 1 .. n : a[i] = b[i]
  PROVE  Upto(a, n) = Upto(b, n)
<1>1. n \in 0 .. Len(b)
  BY LenProperties
<1>2. /\ Upto(a, n) \in Seq(Nat) /\ Len(Upto(a, n)) = n
      /\ \A i \in 1 .. n : Upto(a, n)[i] = a[i]
  BY UptoType
<1>3. /\ Upto(b, n) \in Seq(Nat) /\ Len(Upto(b, n)) = n
      /\ \A i \in 1 .. n : Upto(b, n)[i] = b[i]
  BY <1>1, UptoType
<1> QED BY <1>2, <1>3, SeqEqual

LEMMA UptoAll ==
  ASSUME NEW a \in Seq(Nat)
  PROVE  Upto(a, Len(a)) = a
BY SubSeqFull DEF Upto

(* What two IDs share up to n they share before it.                        *)
LEMMA UptoShorter ==
  ASSUME NEW a \in Seq(Nat), NEW b \in Seq(Nat), NEW n \in 0 .. Len(a), n <= Len(b),
         Upto(a, n) = Upto(b, n), NEW k \in 0 .. n
  PROVE  Upto(a, k) = Upto(b, k)
<1>1. Len(a) \in Nat /\ Len(b) \in Nat /\ n \in 0 .. Len(b) /\ k \in 0 .. Len(a) /\ k <= Len(b)
  BY LenProperties
<1>2. \A i \in 1 .. n : Upto(a, n)[i] = a[i]
  BY UptoType
<1>3. \A i \in 1 .. n : Upto(b, n)[i] = b[i]
  BY <1>1, UptoType
<1>4. \A i \in 1 .. k : a[i] = b[i]
  <2> TAKE i \in 1 .. k
  <2>1. i \in 1 .. n
    BY <1>1
  <2> QED BY <1>2, <1>3, <2>1
<1> QED BY <1>1, <1>4, UptoSame

LEMMA UptoTask ==
  ASSUME NEW a \in Seq(Nat), NEW n \in 1 .. Len(a)
  PROVE  /\ Upto(a, n) \in TaskIds /\ Parent(Upto(a, n)) = Upto(a, n - 1)
         /\ Last(Upto(a, n)) = a[n] /\ a[n] \in Nat
<1>1. Len(a) \in Nat /\ n \in 0 .. Len(a) /\ n - 1 \in 0 .. Len(a) /\ n \in Nat
  BY LenProperties
<1> DEFINE u == Upto(a, n)
<1>2. u \in Seq(Nat) /\ Len(u) = n /\ \A i \in 1 .. n : u[i] = a[i]
  BY <1>1, UptoType
<1> HIDE DEF u
<1>3. u # <<>>
  BY <1>1, <1>2, EmptySeq
<1>4. n - 1 \in 0 .. Len(u) /\ n - 1 <= Len(a)
  BY <1>1, <1>2
<1>5. \A i \in 1 .. n - 1 : u[i] = a[i]
  BY <1>1, <1>2
<1>6. Upto(u, n - 1) = Upto(a, n - 1)
  BY <1>2, <1>4, <1>5, UptoSame
<1>7. Parent(u) = Upto(u, n - 1)
  BY <1>2 DEF Parent, Upto
<1>8. Last(u) = a[n]
  BY <1>1, <1>2 DEF Last
<1>9. a[n] \in Nat
  BY ElementOfSeq
<1> QED BY <1>2, <1>3, <1>6, <1>7, <1>8, <1>9 DEF TaskIds, Root, u

LEMMA AheadIrreflexive ==
  ASSUME NEW tree, IsTree(tree), NEW a, Last(a) \in Nat
  PROVE  ~Ahead(tree, a, a)
<1>1. Turn(tree, a) \in Nat
  BY TurnType
<1> QED BY <1>1 DEF Ahead

LEMMA AheadTransitive ==
  ASSUME NEW tree, IsTree(tree), NEW a, NEW b, NEW c,
         Last(a) \in Nat, Last(b) \in Nat, Last(c) \in Nat,
         Ahead(tree, a, b), Ahead(tree, b, c)
  PROVE  Ahead(tree, a, c)
<1>1. Turn(tree, a) \in Nat /\ Turn(tree, b) \in Nat /\ Turn(tree, c) \in Nat
  BY TurnType
<1> QED BY <1>1 DEF Ahead

(* Two IDs that first differ at n are ordered there.                       *)
LEMMA AheadTotal ==
  ASSUME NEW tree, IsTree(tree), NEW a \in Seq(Nat), NEW b \in Seq(Nat),
         NEW n \in 1 .. Len(a), n <= Len(b), a[n] # b[n]
  PROVE  Ahead(tree, Upto(a, n), Upto(b, n)) \/ Ahead(tree, Upto(b, n), Upto(a, n))
<1>1. n \in 1 .. Len(b)
  BY LenProperties
<1>2. Last(Upto(a, n)) = a[n] /\ a[n] \in Nat
  BY UptoTask
<1>3. Last(Upto(b, n)) = b[n] /\ b[n] \in Nat
  BY <1>1, UptoTask
<1>4. Turn(tree, Upto(a, n)) \in Nat /\ Turn(tree, Upto(b, n)) \in Nat
  BY TurnType
<1> QED BY <1>2, <1>3, <1>4 DEF Ahead

(* The two ways of being met earlier.                                      *)
Above(a, b) == Len(a) < Len(b) /\ a = Upto(b, Len(a))
Parts(tree, a, b, n) ==
  /\ n \in 1 .. Len(a) /\ n <= Len(b) /\ Upto(a, n - 1) = Upto(b, n - 1)
  /\ Ahead(tree, Upto(a, n), Upto(b, n))

LEMMA BeforeWays ==
  ASSUME NEW tree, NEW a, NEW b
  PROVE  Before(tree, a, b) <=> Above(a, b) \/ \E n \in 1 .. Len(a) : Parts(tree, a, b, n)
BY DEF Before, Above, Parts

LEMMA BeforeIrreflexive ==
  ASSUME NEW tree, IsTree(tree), NEW a \in Seq(Nat)
  PROVE  ~Before(tree, a, a)
<1>1. ~Above(a, a)
  BY LenProperties DEF Above
<1>2. ASSUME NEW n \in 1 .. Len(a) PROVE ~Parts(tree, a, a, n)
  <2>1. Last(Upto(a, n)) \in Nat
    BY UptoTask
  <2> QED BY <2>1, AheadIrreflexive DEF Parts
<1> QED BY <1>1, <1>2, BeforeWays

LEMMA BeforeTotal ==
  ASSUME NEW tree, IsTree(tree), NEW a \in Seq(Nat), NEW b \in Seq(Nat), a # b
  PROVE  Before(tree, a, b) \/ Before(tree, b, a)
<1> DEFINE m == IF Len(a) <= Len(b) THEN Len(a) ELSE Len(b)
           S == {i \in 1 .. m : a[i] # b[i]}
<1>1. Len(a) \in Nat /\ Len(b) \in Nat
  BY LenProperties
<1>2. m \in Nat /\ m <= Len(a) /\ m <= Len(b)
  BY <1>1
<1>3. CASE S = {}
  <2>1. \A i \in 1 .. m : a[i] = b[i]
    BY <1>3
  <2>2. m \in 0 .. Len(a)
    BY <1>1, <1>2
  <2> HIDE DEF S
  <2>3. Upto(a, m) = Upto(b, m)
    BY <1>2, <2>1, <2>2, UptoSame
  <2>4. CASE Len(a) <= Len(b)
    <3>1. m = Len(a)
      BY <2>4
    <3>2. a = Upto(b, Len(a))
      BY <2>3, <3>1, UptoAll
    <3>3. Len(a) # Len(b)
      BY <3>2, UptoAll
    <3>4. Above(a, b)
      BY <1>1, <2>4, <3>2, <3>3 DEF Above
    <3> QED BY <3>4, BeforeWays
  <2>5. CASE ~(Len(a) <= Len(b))
    <3>1. m = Len(b)
      BY <2>5
    <3>2. b = Upto(a, Len(b))
      BY <2>3, <3>1, UptoAll
    <3>3. Above(b, a)
      BY <1>1, <2>5, <3>2 DEF Above
    <3> QED BY <3>3, BeforeWays
  <2> QED BY <2>4, <2>5
<1>4. CASE S # {}
  <2>1. S \in SUBSET (1 .. m)
    OBVIOUS
  <2>2. \A i \in 1 .. m : i \in S <=> a[i] # b[i]
    OBVIOUS
  <2> HIDE DEF S, m
  <2>3. PICK n \in S : \A j \in 1 .. n - 1 : j \notin S
    BY <1>2, <1>4, <2>1, LeastIndex
  <2>4. /\ n \in 1 .. m /\ a[n] # b[n]
        /\ n \in 1 .. Len(a) /\ n <= Len(b) /\ n \in 1 .. Len(b) /\ n <= Len(a)
    BY <1>1, <1>2, <2>1, <2>2, <2>3
  <2>5. \A j \in 1 .. n - 1 : a[j] = b[j]
    <3> TAKE j \in 1 .. n - 1
    <3>1. j \in 1 .. m
      BY <1>2, <2>4
    <3> QED BY <2>2, <2>3, <3>1
  <2>6. n - 1 \in 0 .. Len(a) /\ n - 1 <= Len(b)
    BY <1>1, <2>4
  <2>7. Upto(a, n - 1) = Upto(b, n - 1)
    BY <2>5, <2>6, UptoSame
  <2>8. CASE Ahead(tree, Upto(a, n), Upto(b, n))
    <3>1. Parts(tree, a, b, n)
      BY <2>4, <2>7, <2>8 DEF Parts
    <3> QED BY <2>4, <3>1, BeforeWays
  <2>9. CASE Ahead(tree, Upto(b, n), Upto(a, n))
    <3>1. Parts(tree, b, a, n)
      BY <2>4, <2>7, <2>9 DEF Parts
    <3> QED BY <2>4, <3>1, BeforeWays
  <2>10. Ahead(tree, Upto(a, n), Upto(b, n)) \/ Ahead(tree, Upto(b, n), Upto(a, n))
    BY <2>4, AheadTotal
  <2> QED BY <2>8, <2>9, <2>10
<1> QED BY <1>3, <1>4

LEMMA BeforeTransitive ==
  ASSUME NEW tree, IsTree(tree), NEW a \in Seq(Nat), NEW b \in Seq(Nat), NEW c \in Seq(Nat),
         Before(tree, a, b), Before(tree, b, c)
  PROVE  Before(tree, a, c)
<1>0. Len(a) \in Nat /\ Len(b) \in Nat /\ Len(c) \in Nat
  BY LenProperties
<1>1. ASSUME Above(a, b), Above(b, c) PROVE Above(a, c)
  <2>1. Len(a) < Len(b) /\ Len(b) < Len(c) /\ a = Upto(b, Len(a)) /\ b = Upto(c, Len(b))
    BY <1>1 DEF Above
  <2>2. Len(b) \in 0 .. Len(b) /\ Len(a) \in 0 .. Len(b) /\ Len(b) <= Len(c)
    BY <1>0, <2>1
  <2>3. Upto(b, Len(b)) = Upto(c, Len(b))
    BY <2>1, UptoAll
  <2>4. Upto(b, Len(a)) = Upto(c, Len(a))
    BY <2>2, <2>3, UptoShorter
  <2> QED BY <1>0, <2>1, <2>4 DEF Above
<1>2. ASSUME Above(a, b), NEW n \in 1 .. Len(b), Parts(tree, b, c, n)
      PROVE  Before(tree, a, c)
  <2>1. Len(a) < Len(b) /\ a = Upto(b, Len(a))
    BY <1>2 DEF Above
  <2>2. n <= Len(c) /\ Upto(b, n - 1) = Upto(c, n - 1) /\ Ahead(tree, Upto(b, n), Upto(c, n))
    BY <1>2 DEF Parts
  <2>3. Upto(a, Len(a)) = Upto(b, Len(a))
    BY <2>1, UptoAll
  <2>4. CASE n <= Len(a)
    <3>1. n \in 1 .. Len(a) /\ n \in 0 .. Len(a) /\ n - 1 \in 0 .. Len(a) /\ Len(a) \in 0 .. Len(a)
          /\ Len(a) <= Len(b)
      BY <1>0, <2>1, <2>4
    <3>2. Upto(a, n) = Upto(b, n) /\ Upto(a, n - 1) = Upto(b, n - 1)
      BY <2>3, <3>1, UptoShorter
    <3>3. Parts(tree, a, c, n)
      BY <2>2, <3>1, <3>2 DEF Parts
    <3> QED BY <3>1, <3>3, BeforeWays
  <2>5. CASE ~(n <= Len(a))
    <3>1. Len(a) \in 0 .. n - 1 /\ n - 1 \in 0 .. Len(b) /\ n - 1 <= Len(c) /\ Len(a) < Len(c)
      BY <1>0, <2>2, <2>5
    <3>2. Upto(b, Len(a)) = Upto(c, Len(a))
      BY <2>2, <3>1, UptoShorter
    <3>3. Above(a, c)
      BY <2>1, <3>1, <3>2 DEF Above
    <3> QED BY <3>3, BeforeWays
  <2> QED BY <2>4, <2>5
<1>3. ASSUME NEW n \in 1 .. Len(a), Parts(tree, a, b, n), Above(b, c)
      PROVE  Before(tree, a, c)
  <2>1. Len(b) < Len(c) /\ b = Upto(c, Len(b))
    BY <1>3 DEF Above
  <2>2. n <= Len(b) /\ Upto(a, n - 1) = Upto(b, n - 1) /\ Ahead(tree, Upto(a, n), Upto(b, n))
    BY <1>3 DEF Parts
  <2>3. Upto(b, Len(b)) = Upto(c, Len(b))
    BY <2>1, UptoAll
  <2>4. Len(b) \in 0 .. Len(b) /\ Len(b) <= Len(c) /\ n \in 0 .. Len(b) /\ n - 1 \in 0 .. Len(b)
        /\ n <= Len(c)
    BY <1>0, <2>1, <2>2
  <2>5. Upto(b, n) = Upto(c, n) /\ Upto(b, n - 1) = Upto(c, n - 1)
    BY <2>3, <2>4, UptoShorter
  <2>6. Parts(tree, a, c, n)
    BY <2>2, <2>4, <2>5 DEF Parts
  <2> QED BY <2>6, BeforeWays
<1>4. ASSUME NEW n \in 1 .. Len(a), Parts(tree, a, b, n),
             NEW m \in 1 .. Len(b), Parts(tree, b, c, m)
      PROVE  Before(tree, a, c)
  <2>1. n <= Len(b) /\ Upto(a, n - 1) = Upto(b, n - 1) /\ Ahead(tree, Upto(a, n), Upto(b, n))
    BY <1>4 DEF Parts
  <2>2. m <= Len(c) /\ Upto(b, m - 1) = Upto(c, m - 1) /\ Ahead(tree, Upto(b, m), Upto(c, m))
    BY <1>4 DEF Parts
  <2>3. CASE n < m
    <3>1. n \in Nat /\ m \in Nat /\ 1 <= n /\ m <= Len(b) /\ m <= Len(c)
      BY <1>0, <2>2
    <3>2. n \in 0 .. m - 1 /\ n - 1 \in 0 .. m - 1
      BY <2>3, <3>1
    <3>3. m - 1 \in 0 .. Len(b) /\ m - 1 <= Len(c) /\ n <= Len(c)
      BY <1>0, <2>3, <3>1
    <3>4. Upto(b, n) = Upto(c, n) /\ Upto(b, n - 1) = Upto(c, n - 1)
      BY <2>2, <3>2, <3>3, UptoShorter
    <3>5. Parts(tree, a, c, n)
      BY <2>1, <3>3, <3>4 DEF Parts
    <3> QED BY <3>5, BeforeWays
  <2>4. CASE m < n
    <3>1. n \in Nat /\ m \in Nat /\ 1 <= m /\ n <= Len(a) /\ n <= Len(b)
      BY <1>0, <2>1
    <3>2. m \in 0 .. n - 1 /\ m - 1 \in 0 .. n - 1
      BY <2>4, <3>1
    <3>3. n - 1 \in 0 .. Len(a) /\ n - 1 <= Len(b) /\ m \in 1 .. Len(a)
      BY <1>0, <2>4, <3>1
    <3>4. Upto(a, m) = Upto(b, m) /\ Upto(a, m - 1) = Upto(b, m - 1)
      BY <2>1, <3>2, <3>3, UptoShorter
    <3>5. Parts(tree, a, c, m)
      BY <2>2, <3>3, <3>4 DEF Parts
    <3> QED BY <3>3, <3>5, BeforeWays
  <2>5. CASE m = n
    <3>1. n \in 1 .. Len(b) /\ n \in 1 .. Len(c)
      BY <1>0, <2>1, <2>2, <2>5
    <3>2. Last(Upto(a, n)) \in Nat /\ Last(Upto(b, n)) \in Nat /\ Last(Upto(c, n)) \in Nat
      BY <3>1, UptoTask
    <3>3. Ahead(tree, Upto(a, n), Upto(c, n))
      BY <2>1, <2>2, <2>5, <3>2, AheadTransitive
    <3>4. Parts(tree, a, c, n)
      BY <1>0, <2>1, <2>2, <2>5, <3>3 DEF Parts
    <3> QED BY <3>4, BeforeWays
  <2> QED BY <2>3, <2>4, <2>5
<1>5. CASE Above(a, b) /\ Above(b, c)
  BY <1>1, <1>5, BeforeWays
<1>6. CASE Above(a, b) /\ \E n \in 1 .. Len(b) : Parts(tree, b, c, n)
  BY <1>2, <1>6
<1>7. CASE (\E n \in 1 .. Len(a) : Parts(tree, a, b, n)) /\ Above(b, c)
  BY <1>3, <1>7
<1>8. CASE (\E n \in 1 .. Len(a) : Parts(tree, a, b, n)) /\ \E n \in 1 .. Len(b) : Parts(tree, b, c, n)
  BY <1>4, <1>8
<1> QED BY <1>5, <1>6, <1>7, <1>8, BeforeWays

-----------------------------------------------------------------------------
(* What a reading of the markdown says                                     *)

Earlier(tree) == {p \in tree.files \X tree.files : Before(tree, p[1][1], p[2][1])}

LEMMA EarlierPairs ==
  ASSUME NEW tree, NEW f \in tree.files, NEW g \in tree.files
  PROVE  <<f, g>> \in Earlier(tree) <=> Before(tree, f[1], g[1])
BY DEF Earlier

LEMMA FileIds ==
  ASSUME NEW tree, IsTree(tree), NEW f \in tree.files
  PROVE  /\ f = <<f[1], f[2]>> /\ f[1] \in TaskIds /\ f[1] \in Seq(Nat) /\ f[1] # Root
         /\ f[2] \in Slugs
BY DEF IsTree, TaskIds

LEMMA EarlierOrders ==
  ASSUME NEW tree, IsTree(tree), WellFormed(tree)
  PROVE  Orders(Earlier(tree), tree.files)
<1>1. \A f \in tree.files : <<f, f>> \notin Earlier(tree)
  BY FileIds, EarlierPairs, BeforeIrreflexive
<1>2. ASSUME NEW f \in tree.files, NEW g \in tree.files, NEW h \in tree.files,
             <<f, g>> \in Earlier(tree), <<g, h>> \in Earlier(tree)
      PROVE  <<f, h>> \in Earlier(tree)
  <2>1. f[1] \in Seq(Nat) /\ g[1] \in Seq(Nat) /\ h[1] \in Seq(Nat)
    BY FileIds
  <2>2. Before(tree, f[1], g[1]) /\ Before(tree, g[1], h[1])
    BY <1>2, EarlierPairs
  <2>3. Before(tree, f[1], h[1])
    BY <2>1, <2>2, BeforeTransitive
  <2> QED BY <2>3, EarlierPairs
<1>3. ASSUME NEW f \in tree.files, NEW g \in tree.files
      PROVE  f = g \/ <<f, g>> \in Earlier(tree) \/ <<g, f>> \in Earlier(tree)
  <2>1. f[1] \in Seq(Nat) /\ g[1] \in Seq(Nat)
    BY FileIds
  <2>2. f[1] = g[1] => f = g
    BY DEF WellFormed
  <2>3. f[1] # g[1] => Before(tree, f[1], g[1]) \/ Before(tree, g[1], f[1])
    BY <2>1, BeforeTotal
  <2> QED BY <2>2, <2>3, EarlierPairs
<1> QED BY <1>1, <1>2, <1>3 DEF Orders

LEMMA PlaceIsRank ==
  ASSUME NEW tree, WellFormed(tree), NEW f \in tree.files
  PROVE  Place(tree, f[1]) = Cardinality(UpTo(Earlier(tree), tree.files, f))
<1>1. \A g \in tree.files : g[1] = f[1] <=> g = f
  BY DEF WellFormed
<1>2. \A g \in tree.files : <<g, f>> \in Earlier(tree) <=> Before(tree, g[1], f[1])
  BY EarlierPairs
<1>3. {g \in tree.files : g[1] = f[1] \/ Before(tree, g[1], f[1])}
        = {g \in tree.files : g = f \/ <<g, f>> \in Earlier(tree)}
  BY <1>1, <1>2
<1> QED BY <1>3 DEF Place, UpTo

(* The walk gives every file of a well formed tree a place of its own, and *)
(* every place to a file.                                                  *)
LEMMA PlaceCounts ==
  ASSUME NEW tree, IsTree(tree), WellFormed(tree)
  PROVE  /\ Cardinality(tree.files) \in Nat
         /\ \A f \in tree.files : Place(tree, f[1]) \in 1 .. Cardinality(tree.files)
         /\ \A f, g \in tree.files : Place(tree, f[1]) = Place(tree, g[1]) => f = g
         /\ \A k \in 1 .. Cardinality(tree.files) : \E f \in tree.files : Place(tree, f[1]) = k
<1> DEFINE S == tree.files
           R == Earlier(tree)
<1>1. IsFiniteSet(S) /\ Orders(R, S)
  BY EarlierOrders DEF IsTree
<1>2. \A f \in S : Place(tree, f[1]) = Cardinality(UpTo(R, S, f))
  BY PlaceIsRank
<1> HIDE DEF S, R
<1>3. Cardinality(S) \in Nat
  BY <1>1, FS_CardinalityType
<1>4. \A f \in S : Place(tree, f[1]) \in 1 .. Cardinality(S)
  BY <1>1, <1>2, UpToBounds
<1>5. ASSUME NEW f \in S, NEW g \in S, Place(tree, f[1]) = Place(tree, g[1])
      PROVE  f = g
  <2>1. Cardinality(UpTo(R, S, f)) = Cardinality(UpTo(R, S, g))
    BY <1>2, <1>5
  <2> QED BY <1>1, <2>1, UpToTells
<1>6. ASSUME NEW k \in 1 .. Cardinality(S) PROVE \E f \in S : Place(tree, f[1]) = k
  <2>1. PICK f \in S : Cardinality(UpTo(R, S, f)) = k
    BY <1>1, UpToReaches
  <2> QED BY <1>2, <2>1
<1> QED BY <1>3, <1>4, <1>5, <1>6 DEF S

LEMMA RecordedTask ==
  ASSUME NEW tree, IsTree(tree), NEW f \in tree.files
  PROVE  /\ Recorded(tree, f) \in Tasks /\ File(Recorded(tree, f)) = f
         /\ f \in RowFiles(tree, Parent(f[1])) \/ Recorded(tree, f).status = "Not started"
<1> DEFINE rows == Rows(tree, Parent(f[1]))
           mine == {i \in DOMAIN rows : rows[i].file = f}
           i1 == CHOOSE i \in mine : TRUE
<1>1. f = <<f[1], f[2]>> /\ f[1] \in TaskIds /\ f[2] \in Slugs
  BY FileIds
<1>2. rows \in Seq(TaskRows) /\ DOMAIN rows = 1 .. Len(rows)
  BY RowsType
<1>3. Recorded(tree, f) = IF mine = {} THEN FileTask(f) ELSE RowTask(rows[i1])
  BY DEF Recorded
<1>4. mine # {} => i1 \in mine
  OBVIOUS
<1>5. \A i \in mine : rows[i] \in TaskRows /\ rows[i].file = f /\ i \in DOMAIN rows
  BY <1>2, ElementOfSeq
<1> HIDE DEF i1, mine
<1>6. CASE mine = {}
  <2>1. Recorded(tree, f) = FileTask(f)
    BY <1>3, <1>6
  <2>2. FileTask(f) \in Tasks
    BY <1>1 DEF FileTask, Tasks, TaskStatuses
  <2>3. File(FileTask(f)) = f /\ FileTask(f).status = "Not started"
    BY <1>1 DEF FileTask, File
  <2> QED BY <2>1, <2>2, <2>3
<1>7. CASE mine # {}
  <2> DEFINE r == rows[i1]
  <2>1. r \in TaskRows /\ r.file = f /\ i1 \in DOMAIN rows
    BY <1>4, <1>5, <1>7
  <2>2. Recorded(tree, f) = RowTask(r)
    BY <1>3, <1>7
  <2>3. f \in RowFiles(tree, Parent(f[1]))
    BY <2>1 DEF RowFiles
  <2> HIDE DEF r
  <2>4. RowTask(r) \in Tasks
    BY <1>1, <2>1 DEF RowTask, Tasks, TaskRows
  <2>5. File(RowTask(r)) = f
    BY <1>1, <2>1 DEF RowTask, File
  <2> QED BY <2>2, <2>3, <2>4, <2>5
<1> QED BY <1>6, <1>7

LEMMA WalkTasks ==
  ASSUME NEW tree, IsTree(tree), WellFormed(tree)
  PROVE  /\ Walk(tree) \in Seq(Tasks) /\ Len(Walk(tree)) = Cardinality(tree.files)
         /\ DOMAIN Walk(tree) = 1 .. Cardinality(tree.files)
         /\ \A i \in DOMAIN Walk(tree) : \E f \in tree.files : Walk(tree)[i] = Recorded(tree, f)
         /\ \A f \in tree.files : \E i \in DOMAIN Walk(tree) : Walk(tree)[i] = Recorded(tree, f)
<1> DEFINE n == Cardinality(tree.files)
           at(k) == CHOOSE f \in tree.files : Place(tree, f[1]) = k
<1>1. n \in Nat
  BY PlaceCounts
<1>2. Walk(tree) = [k \in 1 .. n |-> Recorded(tree, at(k))]
  BY DEF Walk
<1>3. \A k \in 1 .. n : at(k) \in tree.files /\ Place(tree, at(k)[1]) = k
  <2> TAKE k \in 1 .. n
  <2>1. \E f \in tree.files : Place(tree, f[1]) = k
    BY PlaceCounts
  <2> QED BY <2>1
<1>4. \A f \in tree.files : Place(tree, f[1]) \in 1 .. n
  BY PlaceCounts
<1>5. ASSUME NEW f \in tree.files PROVE at(Place(tree, f[1])) = f
  <2>1. at(Place(tree, f[1])) \in tree.files
        /\ Place(tree, at(Place(tree, f[1]))[1]) = Place(tree, f[1])
    BY <1>3, <1>4
  <2> HIDE DEF at
  <2> QED BY <2>1, PlaceCounts
<1> HIDE DEF n, at
<1>6. \A k \in 1 .. n : Walk(tree)[k] = Recorded(tree, at(k))
  BY <1>2
<1>7. \A k \in 1 .. n : Recorded(tree, at(k)) \in Tasks
  BY <1>3, RecordedTask
<1>8. Walk(tree) \in [1 .. n -> Tasks]
  BY <1>2, <1>7
<1>9. Walk(tree) \in Seq(Tasks) /\ Len(Walk(tree)) = n /\ DOMAIN Walk(tree) = 1 .. n
  BY <1>1, <1>8, LenProperties
<1>10. \A i \in DOMAIN Walk(tree) : \E f \in tree.files : Walk(tree)[i] = Recorded(tree, f)
  BY <1>3, <1>6, <1>9
<1>11. \A f \in tree.files : \E i \in DOMAIN Walk(tree) : Walk(tree)[i] = Recorded(tree, f)
  BY <1>4, <1>5, <1>6, <1>9
<1> QED BY <1>9, <1>10, <1>11 DEF n

(* A document read from a well formed tree, whose levels begin with their  *)
(* ledger's rows, says what the tree says.                                 *)
LEMMA CollectedSays ==
  ASSUME NEW tree, IsTree(tree), WellFormed(tree), Reproduces(Collected(tree), tree)
  PROVE  Says(Collected(tree), tree)
<1> DEFINE doc == Collected(tree)
<1>1. doc.status.value = tree.overall /\ doc.log = tree.log /\ doc.tasks = Walk(tree)
  BY DEF Collected, StatusOf
<1>2. \A f \in tree.files : File(Recorded(tree, f)) = f
  BY RecordedTask
<1>3. {File(Walk(tree)[i]) : i \in DOMAIN Walk(tree)} = tree.files
  <2>1. ASSUME NEW i \in DOMAIN Walk(tree) PROVE File(Walk(tree)[i]) \in tree.files
    <3>1. PICK f \in tree.files : Walk(tree)[i] = Recorded(tree, f)
      BY WalkTasks
    <3> QED BY <1>2, <3>1
  <2>2. ASSUME NEW f \in tree.files PROVE \E i \in DOMAIN Walk(tree) : File(Walk(tree)[i]) = f
    <3>1. PICK i \in DOMAIN Walk(tree) : Walk(tree)[i] = Recorded(tree, f)
      BY WalkTasks
    <3> QED BY <1>2, <3>1
  <2> QED BY <2>1, <2>2
<1>4. Len(Walk(tree)) = Cardinality(tree.files)
  BY WalkTasks
<1>5. ASSUME NEW k \in DOMAIN tree.rows, NEW i \in DOMAIN tree.rows[k]
      PROVE  Level(Walk(tree), k)[i] = RowTask(tree.rows[k][i])
  <2>1. k \in {Root} \cup tree.dirs
    BY DEF IsTree
  <2>2. Rows(tree, k) = tree.rows[k]
    BY DEF Rows
  <2> QED BY <1>1, <2>1, <2>2 DEF Reproduces
<1>6. ASSUME NEW i \in DOMAIN Walk(tree)
      PROVE  \/ \E k \in DOMAIN tree.rows : File(Walk(tree)[i]) \in RowFiles(tree, k)
             \/ Walk(tree)[i].status = "Not started"
  <2>1. PICK f \in tree.files : Walk(tree)[i] = Recorded(tree, f)
    BY WalkTasks
  <2>2. f \in RowFiles(tree, Parent(f[1])) \/ Recorded(tree, f).status = "Not started"
    BY RecordedTask
  <2>3. ASSUME f \in RowFiles(tree, Parent(f[1])) PROVE Parent(f[1]) \in DOMAIN tree.rows
    <3>1. ASSUME Parent(f[1]) \notin DOMAIN tree.rows PROVE DOMAIN Rows(tree, Parent(f[1])) = {}
      <4>1. Rows(tree, Parent(f[1])) = <<>>
        BY <3>1 DEF Rows
      <4> QED BY <4>1
    <3> QED BY <2>3, <3>1 DEF RowFiles
  <2> QED BY <1>2, <2>1, <2>2, <2>3
<1> HIDE DEF doc
<1>7. {File(doc.tasks[i]) : i \in DOMAIN doc.tasks} = tree.files
  BY <1>1, <1>3
<1>8. \A k \in DOMAIN tree.rows : \A i \in DOMAIN tree.rows[k] :
        Level(doc.tasks, k)[i] = RowTask(tree.rows[k][i])
  BY <1>1, <1>5
<1>9. \A i \in DOMAIN doc.tasks :
        \/ \E k \in DOMAIN tree.rows : File(doc.tasks[i]) \in RowFiles(tree, k)
        \/ doc.tasks[i].status = "Not started"
  BY <1>1, <1>6
<1>10. Len(doc.tasks) = Cardinality(tree.files)
  BY <1>1, <1>4
<1>11. Says(doc, tree)
  BY <1>1, <1>7, <1>8, <1>9, <1>10 DEF Says
<1> QED BY <1>11 DEF doc

-----------------------------------------------------------------------------
(* The steps of a migration                                                *)

(* What the verification has found of the source.                          *)
Verified ==
  /\ IsInjective(source.order)
  /\ \A c \in Changes : /\ WellFormed(Tree(c)) /\ Reproduces(Collected(Tree(c)), Tree(c))
                        /\ Valid(Collected(Tree(c)))
Singles == {"mkdir", "index", "root", "ignore"}

LEMMA SourceFacts ==
  ASSUME source \in Sources
  PROVE  /\ Len(source.order) \in Nat /\ DOMAIN source.order = 1 .. Len(source.order)
         /\ \A i \in DOMAIN source.order : source.order[i] \in Changes
         /\ \A c \in Changes : IsTree(Tree(c))
         /\ \A c \in Changes : \E i \in DOMAIN source.order : source.order[i] = c
<1>1. source.order \in Seq(DOMAIN source.tree)
  BY MigrationAssumption
<1>2. Changes = {source.order[i] : i \in DOMAIN source.order}
  BY DEF Changes, ToSet
<1>3. Len(source.order) \in Nat /\ DOMAIN source.order = 1 .. Len(source.order)
  BY <1>1, LenProperties
<1>4. \A i \in DOMAIN source.order : source.order[i] \in DOMAIN source.tree
  BY <1>1, <1>3, ElementOfSeq
<1>5. \A c \in Changes : c \in DOMAIN source.tree
  BY <1>2, <1>4
<1>6. \A c \in Changes : IsTree(Tree(c))
  BY <1>5, MigrationAssumption DEF Tree
<1> QED BY <1>2, <1>3, <1>6

LEMMA ChangeAtType ==
  ASSUME source \in Sources, NEW c
  PROVE  /\ ChangeAt(c) \in Nat
         /\ c \in Changes => source.order[ChangeAt(c)] = c
<1>1. CASE c \in Changes
  <2> DEFINE k == CHOOSE i \in DOMAIN source.order : source.order[i] = c
  <2>1. \E i \in DOMAIN source.order : source.order[i] = c
    BY <1>1, SourceFacts
  <2>2. k \in DOMAIN source.order /\ source.order[k] = c
    BY <2>1
  <2>3. ChangeAt(c) = k
    BY <1>1 DEF ChangeAt
  <2> HIDE DEF k
  <2> QED BY <2>2, <2>3, SourceFacts
<1>2. CASE c \notin Changes
  BY <1>2 DEF ChangeAt
<1> QED BY <1>1, <1>2

LEMMA StepForms ==
  ASSUME NEW s \in Steps
  PROVE  \/ s.op \in Singles /\ s = Single(s.op)
         \/ s.op = "state" /\ s.change \in Changes /\ s = Step("state", s.change, Root)
         \/ /\ s.op = "prose" /\ s.change \in Changes /\ s = Step("prose", s.change, s.at)
            /\ \E f \in Tree(s.change).files : s.at = f[1]
         \/ /\ s.op = "ledger" /\ s.change \in Changes /\ s = Step("ledger", s.change, s.at)
            /\ s.at \in {Root} \cup Tree(s.change).dirs
<1>1. CASE s \in {Single(op) : op \in Singles}
  BY <1>1 DEF Single, Step
<1>2. CASE s \in {Step("state", c, Root) : c \in Changes}
  BY <1>2 DEF Step
<1>3. CASE s \in UNION {{Step("prose", c, f[1]) : f \in Tree(c).files} : c \in Changes}
  <2>1. PICK c \in Changes : s \in {Step("prose", c, f[1]) : f \in Tree(c).files}
    BY <1>3
  <2>2. PICK f \in Tree(c).files : s = Step("prose", c, f[1])
    BY <2>1
  <2> QED BY <2>2 DEF Step
<1>4. CASE s \in UNION {{Step("ledger", c, k) : k \in {Root} \cup Tree(c).dirs} : c \in Changes}
  <2>1. PICK c \in Changes : s \in {Step("ledger", c, k) : k \in {Root} \cup Tree(c).dirs}
    BY <1>4
  <2>2. PICK k \in {Root} \cup Tree(c).dirs : s = Step("ledger", c, k)
    BY <2>1
  <2> QED BY <2>2 DEF Step
<1> QED BY <1>1, <1>2, <1>3, <1>4 DEF Steps, Singles

(* ... and the other way round.                                            *)
LEMMA StepsMade ==
  /\ \A op \in Singles : Single(op) \in Steps
  /\ \A c \in Changes : Step("state", c, Root) \in Steps
  /\ \A c \in Changes : \A f \in Tree(c).files : Step("prose", c, f[1]) \in Steps
  /\ \A c \in Changes : \A k \in {Root} \cup Tree(c).dirs : Step("ledger", c, k) \in Steps
BY DEF Steps, Singles

LEMMA StageValues ==
  /\ Stage["mkdir"] = 1 /\ Stage["state"] = 2 /\ Stage["index"] = 3 /\ Stage["prose"] = 4
  /\ Stage["root"] = 5 /\ Stage["ledger"] = 6 /\ Stage["ignore"] = 7
BY DEF Stage

LEMMA OpsOfSteps ==
  ASSUME NEW s \in Steps
  PROVE  s.op \in {"mkdir", "state", "index", "prose", "root", "ledger", "ignore"}
BY StepForms DEF Singles

(* Every directory of a well formed tree is a task's, with a place.        *)
LEMMA DirPlaces ==
  ASSUME NEW tree, IsTree(tree), WellFormed(tree), NEW k \in tree.dirs
  PROVE  k # Root /\ Place(tree, k) \in Nat /\ Place(tree, k) # 0 /\ \E f \in tree.files : f[1] = k
<1>1. PICK f \in tree.files : f[1] = k
  BY DEF WellFormed
<1>2. Place(tree, f[1]) \in 1 .. Cardinality(tree.files) /\ Cardinality(tree.files) \in Nat
  BY PlaceCounts
<1>3. f[1] # Root
  BY FileIds
<1> QED BY <1>1, <1>2, <1>3

LEMMA MetType ==
  ASSUME source \in Sources, Verified, NEW s \in Steps
  PROVE  /\ Met(s) \in Nat
         /\ s.op = "ledger" => (Met(s) = 0 <=> s.at = Root)
<1>1. \A c \in Changes : IsTree(Tree(c)) /\ WellFormed(Tree(c))
  BY SourceFacts DEF Verified
<1>2. CASE s.op = "prose"
  <2>1. s.change \in Changes
    BY <1>2, StepForms DEF Singles
  <2>2. PICK f \in Tree(s.change).files : s.at = f[1]
    BY <1>2, StepForms DEF Singles
  <2>3. Place(Tree(s.change), f[1]) \in Nat
    BY <1>1, <2>1, PlaceCounts
  <2> QED BY <1>2, <2>2, <2>3 DEF Met
<1>3. CASE s.op = "ledger"
  <2>1. s.change \in Changes /\ s.at \in {Root} \cup Tree(s.change).dirs
    BY <1>3, StepForms DEF Singles
  <2>2. s.at # Root => Place(Tree(s.change), s.at) \in Nat /\ Place(Tree(s.change), s.at) # 0
    BY <1>1, <2>1, DirPlaces
  <2> QED BY <1>3, <2>2 DEF Met
<1>4. CASE s.op \notin {"prose", "ledger"}
  BY <1>4 DEF Met
<1> QED BY <1>2, <1>3, <1>4

LEMMA Measures ==
  ASSUME source \in Sources, Verified, NEW s \in Steps
  PROVE  Stage[s.op] \in Nat /\ ChangeAt(s.change) \in Nat /\ Met(s) \in Nat
<1>1. Stage[s.op] \in Nat
  BY OpsOfSteps, StageValues
<1> QED BY <1>1, ChangeAtType, MetType

(* Steps that nothing puts before or after each other are one.             *)
LEMMA MeasuresTell ==
  ASSUME source \in Sources, Verified, NEW s \in Steps, NEW t \in Steps,
         Stage[s.op] = Stage[t.op], ChangeAt(s.change) = ChangeAt(t.change), Met(s) = Met(t)
  PROVE  s = t
<1>0. \A c \in Changes : IsTree(Tree(c)) /\ WellFormed(Tree(c))
  BY SourceFacts DEF Verified
<1>1. s.op = t.op
  BY OpsOfSteps, StageValues
<1>2. ASSUME s.change \in Changes, t.change \in Changes PROVE s.change = t.change
  BY <1>2, ChangeAtType
<1>3. CASE s.op \in Singles
  <2>1. s = Single(s.op)
    BY <1>3, StepForms DEF Singles
  <2>2. t = Single(t.op)
    BY <1>1, <1>3, StepForms DEF Singles
  <2> QED BY <1>1, <2>1, <2>2
<1>4. CASE s.op = "state"
  <2>1. s.change \in Changes /\ s = Step("state", s.change, Root)
    BY <1>4, StepForms DEF Singles
  <2>2. t.change \in Changes /\ t = Step("state", t.change, Root)
    BY <1>1, <1>4, StepForms DEF Singles
  <2> QED BY <1>2, <2>1, <2>2
<1>5. CASE s.op = "prose"
  <2>1. s.change \in Changes /\ s = Step("prose", s.change, s.at)
    BY <1>5, StepForms DEF Singles
  <2>2. t.change \in Changes /\ t = Step("prose", t.change, t.at)
    BY <1>1, <1>5, StepForms DEF Singles
  <2>3. s.change = t.change
    BY <1>2, <2>1, <2>2
  <2>4. PICK f \in Tree(s.change).files : s.at = f[1]
    BY <1>5, StepForms DEF Singles
  <2>5. PICK g \in Tree(t.change).files : t.at = g[1]
    BY <1>1, <1>5, StepForms DEF Singles
  <2>6. f[1] # Root /\ g[1] # Root
    BY <1>0, <2>1, <2>2, FileIds
  <2>7. Met(s) = Place(Tree(s.change), f[1]) /\ Met(t) = Place(Tree(s.change), g[1])
    BY <1>1, <1>5, <2>3, <2>4, <2>5, <2>6 DEF Met
  <2>8. f = g
    <3> DEFINE tree == Tree(s.change)
    <3>1. f \in tree.files /\ g \in tree.files /\ Place(tree, f[1]) = Place(tree, g[1])
      BY <2>3, <2>4, <2>5, <2>7
    <3>2. IsTree(tree) /\ WellFormed(tree)
      BY <1>0, <2>1
    <3> HIDE DEF tree
    <3> QED BY <3>1, <3>2, PlaceCounts
  <2> QED BY <2>1, <2>2, <2>3, <2>4, <2>5, <2>8
<1>6. CASE s.op = "ledger"
  <2>1. s.change \in Changes /\ s = Step("ledger", s.change, s.at)
        /\ s.at \in {Root} \cup Tree(s.change).dirs
    BY <1>6, StepForms DEF Singles
  <2>2. t.change \in Changes /\ t = Step("ledger", t.change, t.at)
        /\ t.at \in {Root} \cup Tree(t.change).dirs
    BY <1>1, <1>6, StepForms DEF Singles
  <2>3. s.change = t.change
    BY <1>2, <2>1, <2>2
  <2>4. s.at = Root <=> t.at = Root
    BY <1>1, <1>6, MetType
  <2>5. CASE s.at = Root
    BY <2>1, <2>2, <2>3, <2>4, <2>5
  <2>6. CASE s.at # Root
    <3>1. s.at \in Tree(s.change).dirs /\ t.at \in Tree(s.change).dirs
      BY <2>1, <2>2, <2>3, <2>4, <2>6
    <3>2. PICK f \in Tree(s.change).files : f[1] = s.at
      BY <1>0, <2>1, <3>1, DirPlaces
    <3>3. PICK g \in Tree(s.change).files : g[1] = t.at
      BY <1>0, <2>1, <3>1, DirPlaces
    <3>4. Met(s) = Place(Tree(s.change), f[1]) /\ Met(t) = Place(Tree(s.change), g[1])
      BY <1>1, <1>6, <2>3, <2>4, <2>6, <3>2, <3>3 DEF Met
    <3>5. f = g
      <4> DEFINE tree == Tree(s.change)
      <4>1. f \in tree.files /\ g \in tree.files /\ Place(tree, f[1]) = Place(tree, g[1])
        BY <3>2, <3>3, <3>4
      <4>2. IsTree(tree) /\ WellFormed(tree)
        BY <1>0, <2>1
      <4> HIDE DEF tree
      <4> QED BY <4>1, <4>2, PlaceCounts
    <3> QED BY <2>1, <2>2, <2>3, <3>2, <3>3, <3>5
  <2> QED BY <2>5, <2>6
<1> QED BY <1>3, <1>4, <1>5, <1>6, OpsOfSteps DEF Singles

LEMMA SoonerTotal ==
  ASSUME source \in Sources, Verified, NEW s \in Steps, NEW t \in Steps, s # t
  PROVE  Sooner(s, t) \/ Sooner(t, s)
<1>1. /\ Stage[s.op] \in Nat /\ ChangeAt(s.change) \in Nat /\ Met(s) \in Nat
      /\ Stage[t.op] \in Nat /\ ChangeAt(t.change) \in Nat /\ Met(t) \in Nat
  BY Measures
<1>2. ~(Stage[s.op] = Stage[t.op] /\ ChangeAt(s.change) = ChangeAt(t.change) /\ Met(s) = Met(t))
  BY MeasuresTell
<1> QED BY <1>1, <1>2 DEF Sooner

LEMMA SoonerAsymmetric ==
  ASSUME source \in Sources, Verified, NEW s \in Steps, NEW t \in Steps, Sooner(s, t)
  PROVE  ~Sooner(t, s) /\ s # t
<1>1. /\ Stage[s.op] \in Nat /\ ChangeAt(s.change) \in Nat /\ Met(s) \in Nat
      /\ Stage[t.op] \in Nat /\ ChangeAt(t.change) \in Nat /\ Met(t) \in Nat
  BY Measures
<1> QED BY <1>1 DEF Sooner

LEMMA LeastNumber ==
  ASSUME NEW S \in SUBSET Nat, NEW x \in S
  PROVE  \E i \in S : \A j \in S : i <= j
<1> DEFINE T == {i \in 1 .. x + 1 : i - 1 \in S}
<1>1. x \in Nat
  OBVIOUS
<1>2. T \in SUBSET (1 .. x + 1) /\ x + 1 \in Nat /\ x + 1 \in T
  BY <1>1
<1>3. \A i \in 1 .. x + 1 : i \in T <=> i - 1 \in S
  OBVIOUS
<1> HIDE DEF T
<1>4. T # {}
  BY <1>2
<1>5. PICK i \in T : \A j \in 1 .. i - 1 : j \notin T
  BY <1>2, <1>4, LeastIndex
<1>6. i - 1 \in S /\ i \in Nat /\ i <= x + 1
  BY <1>1, <1>2, <1>3, <1>5
<1>7. \A j \in S : i - 1 <= j
  <2> TAKE j \in S
  <2>1. SUFFICES ASSUME j < i - 1 PROVE FALSE
    BY <1>6
  <2>2. j + 1 \in 1 .. i - 1 /\ j + 1 \in 1 .. x + 1 /\ (j + 1) - 1 = j
    BY <1>1, <1>6, <2>1
  <2> QED BY <1>3, <1>5, <2>2
<1> QED BY <1>6, <1>7

LEMMA SoonestExists ==
  ASSUME source \in Sources, Verified, NEW todo \in SUBSET Steps, todo # {}
  PROVE  \E s \in todo : \A t \in todo \ {s} : Sooner(s, t)
<1> DEFINE A == {Stage[s.op] : s \in todo}
<1>1. A \in SUBSET Nat
  BY Measures
<1>2. PICK s0 \in todo : TRUE
  OBVIOUS
<1>3. PICK a \in A : \A j \in A : a <= j
  <2>1. Stage[s0.op] \in A
    BY <1>2
  <2> HIDE DEF A
  <2> QED BY <1>1, <2>1, LeastNumber
<1>4. PICK s1 \in todo : Stage[s1.op] = a
  BY <1>3
<1>5. \A t \in todo : a <= Stage[t.op]
  BY <1>3
<1> HIDE DEF A
<1> DEFINE B == {ChangeAt(s.change) : s \in {t \in todo : Stage[t.op] = a}}
<1>6. B \in SUBSET Nat
  BY Measures
<1>7. PICK b \in B : \A j \in B : b <= j
  <2>1. ChangeAt(s1.change) \in B
    BY <1>4
  <2> HIDE DEF B
  <2> QED BY <1>6, <2>1, LeastNumber
<1>8. PICK s2 \in todo : Stage[s2.op] = a /\ ChangeAt(s2.change) = b
  BY <1>7
<1>9. \A t \in todo : Stage[t.op] = a => b <= ChangeAt(t.change)
  BY <1>7
<1> HIDE DEF B
<1> DEFINE C == {Met(s) : s \in {t \in todo : Stage[t.op] = a /\ ChangeAt(t.change) = b}}
<1>10. C \in SUBSET Nat
  BY Measures
<1>11. PICK c \in C : \A j \in C : c <= j
  <2>1. Met(s2) \in C
    BY <1>8
  <2> HIDE DEF C
  <2> QED BY <1>10, <2>1, LeastNumber
<1>12. PICK s \in todo : Stage[s.op] = a /\ ChangeAt(s.change) = b /\ Met(s) = c
  BY <1>11
<1>13. \A t \in todo : Stage[t.op] = a /\ ChangeAt(t.change) = b => c <= Met(t)
  BY <1>11
<1> HIDE DEF C
<1>14. ASSUME NEW t \in todo \ {s} PROVE Sooner(s, t)
  <2>1. Sooner(s, t) \/ Sooner(t, s)
    BY SoonerTotal
  <2>2. /\ Stage[s.op] \in Nat /\ ChangeAt(s.change) \in Nat /\ Met(s) \in Nat
        /\ Stage[t.op] \in Nat /\ ChangeAt(t.change) \in Nat /\ Met(t) \in Nat
    BY Measures
  <2>3. ~Sooner(t, s)
    BY <1>5, <1>9, <1>12, <1>13, <2>2 DEF Sooner
  <2> QED BY <2>1, <2>3
<1> QED BY <1>14

(* The step a process takes next is the first of those it still has to do. *)
LEMMA NextStepFirst ==
  ASSUME source \in Sources, Verified, NEW todo \in SUBSET Steps, todo # {}
  PROVE  /\ NextStep(todo) \in todo
         /\ \A t \in todo \ {NextStep(todo)} : Sooner(NextStep(todo), t)
         /\ \A t \in Steps : Sooner(t, NextStep(todo)) => t \notin todo
<1>1. \E s \in todo : \A t \in todo \ {s} : Sooner(s, t)
  BY SoonestExists
<1>2. NextStep(todo) \in todo /\ \A t \in todo \ {NextStep(todo)} : Sooner(NextStep(todo), t)
  BY <1>1 DEF NextStep
<1>3. ASSUME NEW t \in Steps, Sooner(t, NextStep(todo)), t \in todo PROVE FALSE
  <2>1. NextStep(todo) \in Steps
    BY <1>2
  <2>2. ~Sooner(NextStep(todo), t) /\ t # NextStep(todo)
    BY <1>3, <2>1, SoonerAsymmetric
  <2> QED BY <1>2, <1>3, <2>2
<1> QED BY <1>2, <1>3

-----------------------------------------------------------------------------
(* The inductive invariant                                                 *)

Readings == {Collected(Tree(c)) : c \in Changes}
PlansTyped == plan \in [Runs -> [docs : Seq(Readings), todo : SUBSET Steps]]

(* A step has had its effect.                                              *)
Made(s) ==
  /\ s.op = "state" => states[s.change] = Collected(Tree(s.change))
  /\ s.op = "index" => index
  /\ s.op = "prose" => \A e \in front : ~(e[1] = s.change /\ e[2][1] = s.at)
  /\ s.op = "root" => ~root
  /\ s.op = "ledger" => <<s.change, s.at>> \notin ledgers
  /\ s.op = "ignore" => ~hidden

(* A collecting process has read the first changes, and refused none.      *)
CollectsOf(m) == doing[m] = "collect" =>
  /\ Len(plan[m].docs) <= Len(source.order)
  /\ \A i \in DOMAIN plan[m].docs :
       /\ plan[m].docs[i] = Collected(Tree(source.order[i]))
       /\ WellFormed(Tree(source.order[i]))
       /\ Reproduces(Collected(Tree(source.order[i])), Tree(source.order[i]))
(* A writing one has made the steps it no longer has to do, which are the  *)
(* first of all.                                                           *)
WritesOf(m) == doing[m] = "write" =>
  /\ Verified
  /\ \A c \in Changes : DocOf(m, c) = Collected(Tree(c))
  /\ \A s \in plan[m].todo : \A t \in Steps : Sooner(s, t) => t \in plan[m].todo
  /\ \A s \in Steps : s \notin plan[m].todo => Made(s)
(* A process past the renaming of the directory has no old one before it,  *)
(* unless the renaming failed.                                             *)
AdoptsOf(m) == doing[m] \in {"look", "collect", "write"} => ~legacy \/ stuck

Stored ==
  /\ index => Verified /\ \A c \in Changes : states[c] = Collected(Tree(c))
  /\ ~index => Intact

(* While nothing has failed, what is made of the index and of all after it *)
(* is a living writer's, and so the rest will be made; or all is made.     *)
Owned(s) == \E m \in Runs : doing[m] = "write" /\ s \notin plan[m].todo
Opened(s) == s.op \notin {"mkdir", "state"}
LeftTo == faults = 0 /\ Verified =>
  \/ \A s \in Steps : Made(s)
  \/ \A s \in Steps : Opened(s) /\ Made(s) => Owned(s)

MigrationInv ==
  /\ MigrationTypeOK /\ PlansTyped /\ Stored /\ LeftTo /\ LegacyAdopted
  /\ \A m \in Runs : CollectsOf(m) /\ WritesOf(m) /\ AdoptsOf(m)

-----------------------------------------------------------------------------
(* What stays as it is                                                     *)

LEMMA RigidSource ==
  ASSUME source' = source
  PROVE  /\ Changes' = Changes /\ Steps' = Steps /\ Readings' = Readings
         /\ SourceFront' = SourceFront /\ SourceLedgers' = SourceLedgers
         /\ \A c : Tree(c)' = Tree(c)
<1>1. Changes' = Changes
  BY DEF Changes
<1>2. \A c : Tree(c)' = Tree(c)
  BY DEF Tree
<1>3. Steps' = Steps
  BY <1>1, <1>2 DEF Steps
<1>4. Readings' = Readings
  BY <1>1, <1>2 DEF Readings
<1>5. SourceFront' = SourceFront
  BY <1>1, <1>2 DEF SourceFront
<1>6. SourceLedgers' = SourceLedgers
  BY <1>1, <1>2 DEF SourceLedgers
<1> QED BY <1>1, <1>2, <1>3, <1>4, <1>5, <1>6

LEMMA RigidVerified ==
  ASSUME source' = source
  PROVE  Verified' <=> Verified
BY RigidSource DEF Verified

LEMMA RigidSooner ==
  ASSUME source' = source, NEW s, NEW t
  PROVE  Sooner(s, t)' <=> Sooner(s, t)
<1>1. \A c : ChangeAt(c)' = ChangeAt(c)
  BY RigidSource DEF ChangeAt
<1>2. \A u : Met(u)' = Met(u)
  BY RigidSource DEF Met
<1>3. Stage' = Stage
  BY DEF Stage
<1> QED BY <1>1, <1>2, <1>3 DEF Sooner

(* What a process knows it still knows when another one moves.             *)
LEMMA ProcessKept ==
  ASSUME source' = source, NEW n \in Runs, doing'[n] = doing[n], plan'[n] = plan[n],
         \A s \in Steps : Made(s) => Made(s)',
         CollectsOf(n), WritesOf(n)
  PROVE  CollectsOf(n)' /\ WritesOf(n)'
<1>1. CollectsOf(n)'
  BY RigidSource DEF CollectsOf
<1>2. ASSUME doing[n] = "write" PROVE WritesOf(n)'
  <2>1. Verified'
    BY <1>2, RigidVerified DEF WritesOf
  <2>2. \A c : DocOf(n, c)' = DocOf(n, c)
    BY DEF DocOf
  <2>3. ASSUME NEW c \in Changes' PROVE DocOf(n, c)' = Collected(Tree(c)')
    BY <1>2, <2>2, <2>3, RigidSource DEF WritesOf
  <2>4. ASSUME NEW s \in plan'[n].todo, NEW t \in Steps', Sooner(s, t)' PROVE t \in plan'[n].todo
    <3>1. s \in plan[n].todo /\ t \in Steps /\ Sooner(s, t)
      BY <2>4, RigidSource, RigidSooner
    <3> QED BY <1>2, <3>1 DEF WritesOf
  <2>5. ASSUME NEW s \in Steps', s \notin plan'[n].todo PROVE Made(s)'
    <3>1. s \in Steps /\ s \notin plan[n].todo
      BY <2>5, RigidSource
    <3> QED BY <1>2, <3>1 DEF WritesOf
  <2> QED BY <2>1, <2>3, <2>4, <2>5 DEF WritesOf
<1>3. ASSUME doing[n] # "write" PROVE WritesOf(n)'
  BY <1>3 DEF WritesOf
<1> QED BY <1>1, <1>2, <1>3

(* A step of m that touches neither the markdown nor the JSON store.       *)
Quiet(m) ==
  /\ source' = source /\ root' = root /\ ledgers' = ledgers /\ front' = front
  /\ states' = states /\ index' = index /\ hidden' = hidden
  /\ \A n \in Runs \ {m} : doing'[n] = doing[n] /\ plan'[n] = plan[n]

LEMMA QuietMade ==
  ASSUME NEW m, Quiet(m), NEW s
  PROVE  Made(s)' <=> Made(s)
BY RigidSource DEF Quiet, Made

LEMMA QuietStored ==
  ASSUME NEW m, Quiet(m), Stored
  PROVE  Stored'
<1>1. Intact' <=> Intact
  BY RigidSource DEF Quiet, Intact
<1> QED BY <1>1, RigidSource, RigidVerified DEF Quiet, Stored

LEMMA QuietLeftTo ==
  ASSUME NEW m, Quiet(m), LeftTo,
         \/ faults' # 0
         \/ faults' = faults /\ (doing[m] = "write" => doing'[m] = "write" /\ plan'[m] = plan[m])
  PROVE  LeftTo'
<1>1. SUFFICES ASSUME faults' = 0, Verified' PROVE
        (\A s \in Steps' : Made(s)') \/ (\A s \in Steps' : Opened(s)' /\ Made(s)' => Owned(s)')
  BY DEF LeftTo
<1>2. faults = 0 /\ Verified
  BY <1>1, RigidVerified DEF Quiet
<1>3. ASSUME NEW s, Owned(s) PROVE Owned(s)'
  <2>1. PICK n \in Runs : doing[n] = "write" /\ s \notin plan[n].todo
    BY <1>3 DEF Owned
  <2>2. doing'[n] = "write" /\ s \notin plan'[n].todo
    BY <1>1, <2>1 DEF Quiet
  <2> QED BY <2>2 DEF Owned
<1>4. Steps' = Steps
  BY RigidSource DEF Quiet
<1>5. \A s : Made(s)' <=> Made(s)
  BY QuietMade
<1>6. \A s : Opened(s)' <=> Opened(s)
  BY DEF Opened
<1> QED BY <1>2, <1>3, <1>4, <1>5, <1>6 DEF LeftTo

LEMMA QuietStepInv ==
  ASSUME MigrationInv, NEW m \in Runs, Quiet(m),
         MigrationTypeOK', PlansTyped', LeftTo', LegacyAdopted', CollectsOf(m)', WritesOf(m)',
         \A n \in Runs : AdoptsOf(n)'
  PROVE  MigrationInv'
<1>1. Stored'
  BY QuietStored DEF MigrationInv
<1>2. ASSUME NEW n \in Runs, n # m PROVE CollectsOf(n)' /\ WritesOf(n)'
  <2>1. \A s \in Steps : Made(s) => Made(s)'
    BY QuietMade
  <2>2. source' = source /\ doing'[n] = doing[n] /\ plan'[n] = plan[n]
    BY <1>2 DEF Quiet
  <2>3. CollectsOf(n) /\ WritesOf(n)
    BY DEF MigrationInv
  <2> QED BY <2>1, <2>2, <2>3, ProcessKept
<1> QED BY <1>1, <1>2 DEF MigrationInv

-----------------------------------------------------------------------------
(* The steps that write nothing                                            *)

Doings == {"off", "dir", "rename", "look", "collect", "write", "open", "serving"}

LEMMA NoPlanType == NoPlan \in [docs : Seq(Readings), todo : SUBSET Steps]
<1>1. <<>> \in Seq(Readings)
  BY EmptySeq
<1> QED BY <1>1 DEF NoPlan

LEMMA QuietTypes ==
  ASSUME MigrationTypeOK, NEW m \in Runs, NEW label \in Doings, Quiet(m),
         doing' = [doing EXCEPT ![m] = label],
         legacy' \in BOOLEAN, current' \in BOOLEAN, stuck' \in BOOLEAN,
         starts' \in 0 .. MaxStarts, faults' \in 0 .. MaxFaults
  PROVE  MigrationTypeOK'
<1>1. doing' \in [Runs -> Doings]
  BY DEF MigrationTypeOK, Doings
<1>2. Changes' = Changes /\ SourceFront' = SourceFront /\ SourceLedgers' = SourceLedgers
  BY RigidSource DEF Quiet
<1>3. /\ source' \in Sources
      /\ root' \in BOOLEAN /\ ledgers' \subseteq SourceLedgers' /\ front' \subseteq SourceFront'
      /\ DOMAIN states' = Changes' /\ \A c \in Changes' : states'[c] # NoDoc => Valid(states'[c])
      /\ index' \in BOOLEAN /\ hidden' \in BOOLEAN
  BY <1>2 DEF Quiet, MigrationTypeOK
<1> QED BY <1>1, <1>3 DEF MigrationTypeOK, Doings

LEMMA QuietPlans ==
  ASSUME PlansTyped, NEW m \in Runs, Quiet(m),
         plan' = plan \/ plan' = [plan EXCEPT ![m] = NoPlan]
  PROVE  PlansTyped'
<1>1. Readings' = Readings /\ Steps' = Steps
  BY RigidSource DEF Quiet
<1>2. plan' \in [Runs -> [docs : Seq(Readings), todo : SUBSET Steps]]
  <2> DEFINE T == [docs : Seq(Readings), todo : SUBSET Steps]
  <2>1. NoPlan \in T /\ plan \in [Runs -> T]
    BY NoPlanType DEF PlansTyped
  <2> HIDE DEF T
  <2>2. plan' \in [Runs -> T]
    BY <2>1
  <2> QED BY <2>2 DEF T
<1> QED BY <1>1, <1>2 DEF PlansTyped

(* A step of m to a label at which it neither collects with documents read *)
(* nor writes.                                                             *)
LEMMA QuietInv ==
  ASSUME MigrationInv, NEW m \in Runs, NEW label \in Doings \ {"write"},
         doing' = [doing EXCEPT ![m] = label],
         source' = source, root' = root, ledgers' = ledgers, front' = front,
         states' = states, index' = index, hidden' = hidden,
         plan' = plan \/ plan' = [plan EXCEPT ![m] = NoPlan],
         legacy' \in BOOLEAN, current' \in BOOLEAN, stuck' \in BOOLEAN,
         starts' \in 0 .. MaxStarts, faults' \in 0 .. MaxFaults,
         legacy' => legacy, stuck => stuck', LegacyAdopted', LeftTo',
         label = "collect" => plan'[m] = NoPlan,
         label \in {"look", "collect"} => ~legacy' \/ stuck'
  PROVE  MigrationInv'
<1>1. doing \in [Runs -> Doings] /\ plan \in [Runs -> [docs : Seq(Readings), todo : SUBSET Steps]]
  BY DEF MigrationInv, MigrationTypeOK, PlansTyped, Doings
<1>2. doing'[m] = label /\ \A n \in Runs \ {m} : doing'[n] = doing[n] /\ plan'[n] = plan[n]
  BY <1>1
<1>3. Quiet(m)
  BY <1>2 DEF Quiet
<1>4. MigrationTypeOK' /\ PlansTyped'
  BY <1>3, QuietTypes, QuietPlans DEF MigrationInv
<1>5. CollectsOf(m)'
  <2>1. SUFFICES ASSUME label = "collect" PROVE CollectsOf(m)'
    BY <1>2 DEF CollectsOf
  <2>2. plan'[m].docs = <<>>
    BY <2>1 DEF NoPlan
  <2>3. source \in Sources
    BY DEF MigrationInv, MigrationTypeOK
  <2>4. Len(source.order) \in Nat
    BY <2>3, SourceFacts
  <2>5. Len(plan'[m].docs) <= Len(source'.order) /\ DOMAIN plan'[m].docs = {}
    BY <2>2, <2>4
  <2> QED BY <2>5 DEF CollectsOf
<1>6. WritesOf(m)'
  BY <1>2 DEF WritesOf
<1>7. \A n \in Runs : AdoptsOf(n)'
  <2> TAKE n \in Runs
  <2>1. AdoptsOf(n)
    BY DEF MigrationInv
  <2>2. CASE n = m
    BY <1>2, <2>2 DEF AdoptsOf
  <2>3. CASE n # m
    BY <1>2, <2>1, <2>3 DEF AdoptsOf
  <2> QED BY <2>2, <2>3
<1> QED BY <1>3, <1>4, <1>5, <1>6, <1>7, QuietStepInv

(* A label that does not change the directories or the counts.             *)
LEMMA OnlyInv ==
  ASSUME MigrationInv, NEW m \in Runs, NEW label \in Doings \ {"write"}, Only(m, label),
         plan' = plan \/ plan' = [plan EXCEPT ![m] = NoPlan],
         doing[m] # "write" \/ LeftTo',
         label = "collect" => plan'[m] = NoPlan,
         label \in {"look", "collect"} => ~legacy \/ stuck
  PROVE  MigrationInv'
<1>1. /\ doing' = [doing EXCEPT ![m] = label]
      /\ source' = source /\ root' = root /\ ledgers' = ledgers /\ front' = front
      /\ states' = states /\ index' = index /\ hidden' = hidden
      /\ legacy' = legacy /\ current' = current /\ stuck' = stuck
      /\ starts' = starts /\ faults' = faults
  BY DEF Only, Proceed, Bounded, markdown, json, dirs
<1>2. /\ legacy' \in BOOLEAN /\ current' \in BOOLEAN /\ stuck' \in BOOLEAN
      /\ starts' \in 0 .. MaxStarts /\ faults' \in 0 .. MaxFaults
  BY <1>1 DEF MigrationInv, MigrationTypeOK
<1>3. LegacyAdopted'
  BY <1>1 DEF MigrationInv, LegacyAdopted
<1>4. doing \in [Runs -> Doings] /\ plan \in [Runs -> [docs : Seq(Readings), todo : SUBSET Steps]]
  BY DEF MigrationInv, MigrationTypeOK, PlansTyped, Doings
<1>5. Quiet(m)
  BY <1>1, <1>4 DEF Quiet
<1>6. LeftTo'
  <2>1. SUFFICES ASSUME doing[m] # "write" PROVE LeftTo'
    OBVIOUS
  <2>2. LeftTo
    BY DEF MigrationInv
  <2> QED BY <1>1, <1>5, <2>1, <2>2, QuietLeftTo
<1> QED BY <1>1, <1>2, <1>3, <1>6, QuietInv

LEMMA StartInv ==
  ASSUME MigrationInv, NEW m \in Runs, Start(m)
  PROVE  MigrationInv'
<1>1. /\ doing[m] = "off" /\ starts < MaxStarts /\ starts' = starts + 1
      /\ doing' = [doing EXCEPT ![m] = "dir"]
      /\ source' = source /\ root' = root /\ ledgers' = ledgers /\ front' = front
      /\ states' = states /\ index' = index /\ hidden' = hidden
      /\ legacy' = legacy /\ current' = current /\ stuck' = stuck /\ plan' = plan
      /\ faults' = faults
  BY DEF Start, Proceed, markdown, json, dirs
<1>2. /\ legacy' \in BOOLEAN /\ current' \in BOOLEAN /\ stuck' \in BOOLEAN
      /\ faults' \in 0 .. MaxFaults /\ starts \in 0 .. MaxStarts
  BY <1>1 DEF MigrationInv, MigrationTypeOK
<1>3. starts' \in 0 .. MaxStarts
  BY <1>1, <1>2, MigrationAssumption
<1>4. LegacyAdopted'
  BY <1>1 DEF MigrationInv, LegacyAdopted
<1>5. doing \in [Runs -> Doings]
  BY DEF MigrationInv, MigrationTypeOK, Doings
<1>6. Quiet(m)
  BY <1>1, <1>5 DEF Quiet
<1>7. LeftTo'
  BY <1>1, <1>6, QuietLeftTo DEF MigrationInv
<1>8. "dir" \in Doings \ {"write"} /\ "dir" \notin {"look", "collect"}
  BY DEF Doings
<1> QED BY <1>1, <1>2, <1>3, <1>4, <1>7, <1>8, QuietInv

LEMMA LookDirInv ==
  ASSUME MigrationInv, NEW m \in Runs, LookDir(m)
  PROVE  MigrationInv'
<1>1. "look" \in Doings \ {"write"} /\ "rename" \in Doings \ {"write"}
  BY DEF Doings
<1>2. doing[m] = "dir" /\ plan' = plan
  BY DEF LookDir
<1>3. CASE ~current /\ legacy
  <2>1. Only(m, "rename")
    BY <1>3 DEF LookDir
  <2> QED BY <1>1, <1>2, <2>1, OnlyInv
<1>4. CASE ~(~current /\ legacy)
  <2>1. Only(m, "look")
    BY <1>4 DEF LookDir
  <2>2. ~legacy \/ stuck
    BY <1>4 DEF MigrationInv, LegacyAdopted
  <2> QED BY <1>1, <1>2, <2>1, <2>2, OnlyInv
<1> QED BY <1>3, <1>4

LEMMA RenameInv ==
  ASSUME MigrationInv, NEW m \in Runs, Rename(m) \/ RenameFails(m)
  PROVE  MigrationInv'
<1>1. /\ doing[m] = "rename" /\ doing' = [doing EXCEPT ![m] = "look"]
      /\ source' = source /\ root' = root /\ ledgers' = ledgers /\ front' = front
      /\ states' = states /\ index' = index /\ hidden' = hidden
      /\ plan' = plan /\ starts' = starts
  BY DEF Rename, RenameFails, Proceed, Bounded, markdown, json
<1>2. \/ /\ faults' = faults /\ stuck' = stuck
         /\ \/ legacy' = FALSE /\ current' = TRUE
            \/ ~(legacy /\ ~current) /\ legacy' = legacy /\ current' = current
      \/ /\ faults < MaxFaults /\ faults' = faults + 1
         /\ stuck' = TRUE /\ legacy' = legacy /\ current' = current
  BY DEF Rename, RenameFails, Bounded
<1>3. /\ legacy \in BOOLEAN /\ current \in BOOLEAN /\ stuck \in BOOLEAN
      /\ starts \in 0 .. MaxStarts /\ faults \in 0 .. MaxFaults
  BY DEF MigrationInv, MigrationTypeOK
<1>4. /\ legacy' \in BOOLEAN /\ current' \in BOOLEAN /\ stuck' \in BOOLEAN
      /\ starts' \in 0 .. MaxStarts /\ (legacy' => legacy) /\ (stuck => stuck')
  <2>1. starts' \in 0 .. MaxStarts
    BY <1>1, <1>3
  <2>2. legacy' \in BOOLEAN /\ current' \in BOOLEAN /\ stuck' \in BOOLEAN
    BY <1>2, <1>3
  <2>3. (legacy' => legacy) /\ (stuck => stuck')
    BY <1>2, <1>3
  <2> QED BY <2>1, <2>2, <2>3
<1>5. LegacyAdopted' /\ (~legacy' \/ stuck')
  BY <1>2, <1>3 DEF MigrationInv, LegacyAdopted
<1>6. doing \in [Runs -> Doings]
  BY DEF MigrationInv, MigrationTypeOK, Doings
<1>7. Quiet(m)
  BY <1>1, <1>6 DEF Quiet
<1>8. faults' \in 0 .. MaxFaults /\ (faults' = faults \/ faults' # 0)
  BY <1>2, <1>3, MigrationAssumption
<1>9. LeftTo'
  BY <1>1, <1>7, <1>8, QuietLeftTo DEF MigrationInv
<1>10. "look" \in Doings \ {"write"} /\ "look" # "collect"
  BY DEF Doings
<1> QED BY <1>1, <1>4, <1>5, <1>8, <1>9, <1>10, QuietInv

LEMMA LookInv ==
  ASSUME MigrationInv, NEW m \in Runs, Look(m)
  PROVE  MigrationInv'
<1>1. "open" \in Doings \ {"write"} /\ "collect" \in Doings \ {"write"}
  BY DEF Doings
<1>2. doing[m] = "look"
  BY DEF Look
<1>3. plan \in [Runs -> [docs : Seq(Readings), todo : SUBSET Steps]]
  BY DEF MigrationInv, PlansTyped
<1>4. CASE Only(m, "open") /\ UNCHANGED plan
  BY <1>1, <1>2, <1>4, OnlyInv
<1>5. CASE Only(m, "collect") /\ plan' = [plan EXCEPT ![m] = NoPlan]
  <2>1. plan'[m] = NoPlan
    BY <1>3, <1>5
  <2>2. ~legacy \/ stuck
    BY <1>2 DEF MigrationInv, AdoptsOf
  <2> QED BY <1>1, <1>2, <1>5, <2>1, <2>2, OnlyInv
<1> QED BY <1>4, <1>5 DEF Look

LEMMA OpenExitInv ==
  ASSUME MigrationInv, NEW m \in Runs, Open(m) \/ Exit(m)
  PROVE  MigrationInv'
<1>1. "serving" \in Doings \ {"write"} /\ "off" \in Doings \ {"write"}
  BY DEF Doings
<1>2. doing[m] # "write" /\ plan' = plan
  BY DEF Open, Exit
<1>3. Only(m, "serving") \/ Only(m, "off")
  BY DEF Open, Exit
<1> QED BY <1>1, <1>2, <1>3, OnlyInv

LEMMA StopInv ==
  ASSUME MigrationInv, NEW m \in Runs, Stop(m)
  PROVE  MigrationInv'
<1>1. /\ faults < MaxFaults /\ faults' = faults + 1
      /\ doing' = [doing EXCEPT ![m] = "off"] /\ plan' = [plan EXCEPT ![m] = NoPlan]
      /\ source' = source /\ root' = root /\ ledgers' = ledgers /\ front' = front
      /\ states' = states /\ index' = index /\ hidden' = hidden
      /\ legacy' = legacy /\ current' = current /\ stuck' = stuck
      /\ starts' = starts
  BY DEF Stop, Proceed, markdown, json, dirs
<1>2. /\ legacy' \in BOOLEAN /\ current' \in BOOLEAN /\ stuck' \in BOOLEAN
      /\ faults \in 0 .. MaxFaults /\ starts' \in 0 .. MaxStarts
  BY <1>1 DEF MigrationInv, MigrationTypeOK
<1>3. faults' \in 0 .. MaxFaults /\ faults' # 0
  BY <1>1, <1>2, MigrationAssumption
<1>4. LegacyAdopted'
  BY <1>1 DEF MigrationInv, LegacyAdopted
<1>5. doing \in [Runs -> Doings] /\ plan \in [Runs -> [docs : Seq(Readings), todo : SUBSET Steps]]
  BY DEF MigrationInv, MigrationTypeOK, PlansTyped, Doings
<1>6. Quiet(m)
  BY <1>1, <1>5 DEF Quiet
<1>7. LeftTo'
  <2>1. LeftTo
    BY DEF MigrationInv
  <2> QED BY <1>3, <1>6, <2>1, QuietLeftTo
<1>8. "off" \in Doings \ {"write"} /\ "off" \notin {"look", "collect"}
  BY DEF Doings
<1> QED BY <1>1, <1>2, <1>3, <1>4, <1>7, <1>8, QuietInv

(* One change more is read, or the run ends.                               *)
LEMMA CollectInv ==
  ASSUME MigrationInv, NEW m \in Runs, Collect(m)
  PROVE  MigrationInv'
<1> DEFINE docs == plan[m].docs
           c == source.order[Len(docs) + 1]
<1>1. source \in Sources /\ doing \in [Runs -> Doings]
      /\ plan \in [Runs -> [docs : Seq(Readings), todo : SUBSET Steps]]
  BY DEF MigrationInv, MigrationTypeOK, PlansTyped, Doings
<1>2. /\ docs \in Seq(Readings) /\ Len(docs) \in Nat /\ DOMAIN docs = 1 .. Len(docs)
      /\ plan[m].todo \in SUBSET Steps
  <2>1. plan[m] \in [docs : Seq(Readings), todo : SUBSET Steps]
    BY <1>1
  <2>2. docs \in Seq(Readings) /\ plan[m].todo \in SUBSET Steps
    BY <2>1
  <2> HIDE DEF docs
  <2> QED BY <2>2, LenProperties
<1>3. doing[m] = "collect" /\ Len(docs) < Len(source.order)
  BY DEF Collect
<1>4. CASE Only(m, "off") /\ plan' = [plan EXCEPT ![m] = NoPlan]
  <2>1. "off" \in Doings \ {"write"} /\ "off" \notin {"look", "collect"}
    BY DEF Doings
  <2> QED BY <1>3, <1>4, <2>1, OnlyInv
<1>5. CASE /\ Collectable(c) /\ Reproduces(Collected(Tree(c)), Tree(c))
           /\ plan' = [plan EXCEPT ![m].docs = Append(docs, Collected(Tree(c)))]
           /\ Only(m, "collect")
  <2>1. /\ doing' = [doing EXCEPT ![m] = "collect"]
        /\ source' = source /\ root' = root /\ ledgers' = ledgers /\ front' = front
        /\ states' = states /\ index' = index /\ hidden' = hidden
        /\ legacy' = legacy /\ current' = current /\ stuck' = stuck
        /\ starts' = starts /\ faults' = faults
    BY <1>5 DEF Only, Proceed, Bounded, markdown, json, dirs
  <2>2. doing' = doing
    BY <1>1, <1>3, <2>1
  <2>3. \A n \in Runs \ {m} : plan'[n] = plan[n]
    BY <1>1, <1>5
  <2>4. Quiet(m)
    BY <2>1, <2>2, <2>3 DEF Quiet
  <2>5. /\ legacy' \in BOOLEAN /\ current' \in BOOLEAN /\ stuck' \in BOOLEAN
        /\ starts' \in 0 .. MaxStarts /\ faults' \in 0 .. MaxFaults
    BY <2>1 DEF MigrationInv, MigrationTypeOK
  <2>6. MigrationTypeOK'
    <3>1. "collect" \in Doings
      BY DEF Doings
    <3> QED BY <2>1, <2>4, <2>5, <3>1, QuietTypes DEF MigrationInv
  <2>7. c \in Changes /\ Len(docs) + 1 <= Len(source.order)
    <3>1. Len(docs) + 1 \in 1 .. Len(source.order)
      BY <1>1, <1>2, <1>3, SourceFacts
    <3> QED BY <1>1, <3>1, SourceFacts
  <2> DEFINE e == Collected(Tree(c))
             new == Append(docs, e)
  <2>8. e \in Readings
    BY <2>7 DEF Readings
  <2>9. /\ new \in Seq(Readings) /\ Len(new) = Len(docs) + 1
        /\ \A i \in 1 .. Len(docs) : new[i] = docs[i]
        /\ new[Len(docs) + 1] = e /\ DOMAIN new = 1 .. Len(docs) + 1
    <3> HIDE DEF docs, e
    <3>1. new \in Seq(Readings) /\ Len(new) = Len(docs) + 1
      BY <1>2, <2>8, AppendProperties
    <3> QED BY <1>2, <2>8, <3>1, AppendProperties, LenProperties
  <2>10. plan' = [plan EXCEPT ![m].docs = new]
    BY <1>5
  <2> HIDE DEF new
  <2>11. plan'[m].docs = new
    BY <1>1, <2>10
  <2>12. PlansTyped'
    <3>1. plan' \in [Runs -> [docs : Seq(Readings), todo : SUBSET Steps]]
      BY <1>1, <2>9, <2>10
    <3>2. Readings' = Readings /\ Steps' = Steps
      BY <2>1, RigidSource
    <3> QED BY <3>1, <3>2 DEF PlansTyped
  <2>13. LeftTo'
    BY <1>3, <2>1, <2>4, QuietLeftTo DEF MigrationInv
  <2>14. LegacyAdopted'
    BY <2>1 DEF MigrationInv, LegacyAdopted
  <2>15. \A i \in DOMAIN docs :
           /\ docs[i] = Collected(Tree(source.order[i]))
           /\ WellFormed(Tree(source.order[i]))
           /\ Reproduces(Collected(Tree(source.order[i])), Tree(source.order[i]))
    BY <1>3 DEF MigrationInv, CollectsOf
  <2>16. WellFormed(Tree(c)) /\ Reproduces(Collected(Tree(c)), Tree(c))
    BY <1>5 DEF Collectable
  <2>17. ASSUME NEW i \in DOMAIN new
         PROVE  /\ new[i] = Collected(Tree(source.order[i]))
                /\ WellFormed(Tree(source.order[i]))
                /\ Reproduces(Collected(Tree(source.order[i])), Tree(source.order[i]))
    <3>1. CASE i = Len(docs) + 1
      BY <2>9, <2>16, <3>1
    <3>2. CASE i # Len(docs) + 1
      <4>1. i \in 1 .. Len(docs)
        BY <1>2, <2>9, <3>2
      <4> QED BY <1>2, <2>9, <2>15, <4>1
    <3> QED BY <3>1, <3>2
  <2>18. CollectsOf(m)'
    <3>1. Len(plan'[m].docs) <= Len(source'.order)
      BY <2>1, <2>7, <2>9, <2>11
    <3>2. \A i \in DOMAIN plan'[m].docs :
            /\ plan'[m].docs[i] = Collected(Tree(source.order[i]))
            /\ WellFormed(Tree(source.order[i]))
            /\ Reproduces(Collected(Tree(source.order[i])), Tree(source.order[i]))
      BY <2>11, <2>17
    <3> HIDE DEF docs, e, c
    <3> QED BY <2>1, <3>1, <3>2, RigidSource DEF CollectsOf
  <2>19. WritesOf(m)'
    BY <1>3, <2>2 DEF WritesOf
  <2>20. \A n \in Runs : AdoptsOf(n)'
    BY <2>1, <2>2 DEF MigrationInv, AdoptsOf
  <2> QED BY <2>4, <2>6, <2>12, <2>13, <2>14, <2>18, <2>19, <2>20, QuietStepInv
<1> QED BY <1>4, <1>5 DEF Collect

-----------------------------------------------------------------------------
(* From reading to writing                                                 *)

LEMMA VerifiedNow ==
  ASSUME MigrationInv, NEW m \in Runs, doing[m] = "collect", Len(plan[m].docs) = Len(source.order),
         IsInjective(source.order), \A i \in DOMAIN plan[m].docs : Valid(plan[m].docs[i])
  PROVE  Verified /\ \A c \in Changes : DocOf(m, c) = Collected(Tree(c))
<1>1. source \in Sources /\ plan \in [Runs -> [docs : Seq(Readings), todo : SUBSET Steps]]
  BY DEF MigrationInv, MigrationTypeOK, PlansTyped
<1>2. DOMAIN plan[m].docs = DOMAIN source.order
  <2>1. plan[m].docs \in Seq(Readings)
    BY <1>1
  <2>2. DOMAIN plan[m].docs = 1 .. Len(plan[m].docs)
    BY <2>1, LenProperties
  <2> QED BY <1>1, <2>2, SourceFacts
<1>3. \A i \in DOMAIN source.order :
        /\ plan[m].docs[i] = Collected(Tree(source.order[i]))
        /\ WellFormed(Tree(source.order[i]))
        /\ Reproduces(Collected(Tree(source.order[i])), Tree(source.order[i]))
  BY <1>2 DEF MigrationInv, CollectsOf
<1>4. ASSUME NEW c \in Changes
      PROVE  /\ WellFormed(Tree(c)) /\ Reproduces(Collected(Tree(c)), Tree(c))
             /\ Valid(Collected(Tree(c)))
  <2>1. PICK i \in DOMAIN source.order : source.order[i] = c
    BY <1>1, SourceFacts
  <2> QED BY <1>2, <1>3, <2>1
<1>5. ASSUME NEW c \in Changes PROVE DocOf(m, c) = Collected(Tree(c))
  <2> DEFINE k == CHOOSE i \in DOMAIN source.order : source.order[i] = c
  <2>1. \E i \in DOMAIN source.order : source.order[i] = c
    BY <1>1, SourceFacts
  <2>2. k \in DOMAIN source.order /\ source.order[k] = c
    BY <2>1
  <2>3. DocOf(m, c) = plan[m].docs[k]
    BY DEF DocOf
  <2> HIDE DEF k
  <2> QED BY <1>3, <2>2, <2>3
<1> QED BY <1>4, <1>5 DEF Verified

LEMMA VerifyInv ==
  ASSUME MigrationInv, NEW m \in Runs, Verify(m)
  PROVE  MigrationInv'
<1>1. source \in Sources /\ doing \in [Runs -> Doings]
      /\ plan \in [Runs -> [docs : Seq(Readings), todo : SUBSET Steps]]
  BY DEF MigrationInv, MigrationTypeOK, PlansTyped, Doings
<1>2. doing[m] = "collect" /\ Len(plan[m].docs) = Len(source.order)
  BY DEF Verify
<1>3. CASE Only(m, "off") /\ plan' = [plan EXCEPT ![m] = NoPlan]
  <2>1. "off" \in Doings \ {"write"} /\ "off" \notin {"look", "collect"}
    BY DEF Doings
  <2> QED BY <1>2, <1>3, <2>1, OnlyInv
<1>4. CASE /\ IsInjective(source.order) /\ \A i \in DOMAIN plan[m].docs : Valid(plan[m].docs[i])
           /\ plan' = [plan EXCEPT ![m].todo = Steps] /\ Only(m, "write")
  <2>1. /\ doing' = [doing EXCEPT ![m] = "write"]
        /\ source' = source /\ root' = root /\ ledgers' = ledgers /\ front' = front
        /\ states' = states /\ index' = index /\ hidden' = hidden
        /\ legacy' = legacy /\ current' = current /\ stuck' = stuck
        /\ starts' = starts /\ faults' = faults
    BY <1>4 DEF Only, Proceed, Bounded, markdown, json, dirs
  <2>2. /\ doing'[m] = "write" /\ plan'[m].docs = plan[m].docs /\ plan'[m].todo = Steps
        /\ \A n \in Runs \ {m} : doing'[n] = doing[n] /\ plan'[n] = plan[n]
    BY <1>1, <1>4, <2>1
  <2>3. Quiet(m)
    BY <2>1, <2>2 DEF Quiet
  <2>4. MigrationTypeOK'
    <3>1. /\ legacy' \in BOOLEAN /\ current' \in BOOLEAN /\ stuck' \in BOOLEAN
          /\ starts' \in 0 .. MaxStarts /\ faults' \in 0 .. MaxFaults
      BY <2>1 DEF MigrationInv, MigrationTypeOK
    <3>2. "write" \in Doings
      BY DEF Doings
    <3> QED BY <2>1, <2>3, <3>1, <3>2, QuietTypes DEF MigrationInv
  <2>5. PlansTyped'
    <3>1. plan' \in [Runs -> [docs : Seq(Readings), todo : SUBSET Steps]]
      BY <1>1, <1>4
    <3>2. Readings' = Readings /\ Steps' = Steps
      BY <2>1, RigidSource
    <3> QED BY <3>1, <3>2 DEF PlansTyped
  <2>6. LeftTo'
    BY <1>2, <2>1, <2>3, QuietLeftTo DEF MigrationInv
  <2>7. LegacyAdopted'
    BY <2>1 DEF MigrationInv, LegacyAdopted
  <2>8. CollectsOf(m)'
    BY <2>2 DEF CollectsOf
  <2>9. \A n \in Runs : AdoptsOf(n)'
    <3> TAKE n \in Runs
    <3>1. AdoptsOf(n) /\ AdoptsOf(m)
      BY DEF MigrationInv
    <3>2. CASE n = m
      BY <1>2, <2>1, <3>1, <3>2 DEF AdoptsOf
    <3>3. CASE n # m
      BY <2>1, <2>2, <3>1, <3>3 DEF AdoptsOf
    <3> QED BY <3>2, <3>3
  <2>10. WritesOf(m)'
    <3>1. Verified /\ \A c \in Changes : DocOf(m, c) = Collected(Tree(c))
      BY <1>2, <1>4, VerifiedNow
    <3>2. Verified' /\ Steps' = Steps /\ Changes' = Changes /\ \A c : Tree(c)' = Tree(c)
      BY <2>1, <3>1, RigidSource, RigidVerified
    <3>3. \A c : DocOf(m, c)' = DocOf(m, c)
      BY <2>1, <2>2 DEF DocOf
    <3>4. \A c \in Changes' : DocOf(m, c)' = Collected(Tree(c)')
      BY <3>1, <3>2, <3>3
    <3>5. plan'[m].todo = Steps'
      BY <2>2, <3>2
    <3> QED BY <3>2, <3>4, <3>5 DEF WritesOf
  <2> QED BY <2>3, <2>4, <2>5, <2>6, <2>7, <2>8, <2>9, <2>10, QuietStepInv
<1> QED BY <1>3, <1>4 DEF Verify

-----------------------------------------------------------------------------
(* The ends of a writer                                                    *)

LEMMA WriterFacts ==
  ASSUME MigrationInv, NEW m \in Runs, doing[m] = "write"
  PROVE  /\ source \in Sources /\ Verified /\ plan[m].todo \in SUBSET Steps
         /\ \A c \in Changes : DocOf(m, c) = Collected(Tree(c))
         /\ \A s \in plan[m].todo : \A t \in Steps : Sooner(s, t) => t \in plan[m].todo
         /\ \A s \in Steps : s \notin plan[m].todo => Made(s)
<1>1. source \in Sources /\ plan \in [Runs -> [docs : Seq(Readings), todo : SUBSET Steps]]
  BY DEF MigrationInv, MigrationTypeOK, PlansTyped
<1>2. WritesOf(m)
  BY DEF MigrationInv
<1> QED BY <1>1, <1>2 DEF WritesOf

LEMMA FinishInv ==
  ASSUME MigrationInv, NEW m \in Runs, Finish(m)
  PROVE  MigrationInv'
<1>1. /\ doing[m] = "write" /\ plan[m].todo = {} /\ plan' = [plan EXCEPT ![m] = NoPlan]
      /\ Only(m, "open")
  BY DEF Finish
<1>2. \A s \in Steps : Made(s)
  BY <1>1, WriterFacts
<1>3. source' = source /\ root' = root /\ ledgers' = ledgers /\ front' = front
      /\ states' = states /\ index' = index /\ hidden' = hidden
  BY <1>1 DEF Only, markdown, json
<1>4. \A s \in Steps' : Made(s)'
  <2>1. Steps' = Steps
    BY <1>3, RigidSource
  <2>2. \A s : Made(s)' <=> Made(s)
    BY <1>3, RigidSource DEF Made
  <2> QED BY <1>2, <2>1, <2>2
<1>5. LeftTo'
  BY <1>4 DEF LeftTo
<1>6. "open" \in Doings \ {"write"} /\ "open" \notin {"look", "collect"}
  BY DEF Doings
<1> QED BY <1>1, <1>5, <1>6, OnlyInv

(* The steps made by one of two writers are among those of the other; so   *)
(* what a refused one has made is the one's that was before it.            *)
LEMMA WriteRefusedInv ==
  ASSUME MigrationInv, NEW m \in Runs, WriteRefused(m)
  PROVE  MigrationInv'
<1> DEFINE step == NextStep(plan[m].todo)
<1>1. /\ doing[m] = "write" /\ plan[m].todo # {} /\ Gone(step)
      /\ plan' = [plan EXCEPT ![m] = NoPlan] /\ Only(m, "off")
  BY DEF WriteRefused
<1>2. /\ source \in Sources /\ Verified /\ plan[m].todo \in SUBSET Steps
      /\ \A s \in plan[m].todo : \A t \in Steps : Sooner(s, t) => t \in plan[m].todo
  BY <1>1, WriterFacts
<1>3. step \in plan[m].todo /\ step \in Steps
  BY <1>1, <1>2, NextStepFirst
<1> HIDE DEF step
<1>4. Made(step) /\ Opened(step)
  BY <1>1 DEF Gone, Made, Opened
<1>5. source' = source /\ root' = root /\ ledgers' = ledgers /\ front' = front
      /\ states' = states /\ index' = index /\ hidden' = hidden /\ faults' = faults
      /\ doing' = [doing EXCEPT ![m] = "off"]
  BY <1>1 DEF Only, Proceed, Bounded, markdown, json
<1>6. doing \in [Runs -> Doings] /\ plan \in [Runs -> [docs : Seq(Readings), todo : SUBSET Steps]]
  BY DEF MigrationInv, MigrationTypeOK, PlansTyped, Doings
<1>7. \A n \in Runs \ {m} : doing'[n] = doing[n] /\ plan'[n] = plan[n]
  BY <1>1, <1>5, <1>6
<1>8. /\ Steps' = Steps
      /\ \A s : (Made(s)' <=> Made(s)) /\ (Opened(s)' <=> Opened(s))
  BY <1>5, RigidSource DEF Made, Opened
<1>9. LeftTo'
  <2>1. SUFFICES ASSUME faults' = 0
        PROVE (\A s \in Steps' : Made(s)') \/ (\A s \in Steps' : Opened(s)' /\ Made(s)' => Owned(s)')
    BY DEF LeftTo
  <2>2. LeftTo /\ faults = 0
    BY <1>5, <2>1 DEF MigrationInv
  <2>3. CASE \A s \in Steps : Made(s)
    BY <1>8, <2>3
  <2>4. CASE \A s \in Steps : Opened(s) /\ Made(s) => Owned(s)
    <3>1. PICK n \in Runs : doing[n] = "write" /\ step \notin plan[n].todo
      BY <1>3, <1>4, <2>4 DEF Owned
    <3>2. n # m
      BY <1>3, <3>1
    <3>3. /\ plan[n].todo \in SUBSET Steps
          /\ \A s \in plan[n].todo : \A t \in Steps : Sooner(s, t) => t \in plan[n].todo
      BY <3>1, WriterFacts
    <3>4. ASSUME NEW s \in Steps, s \notin plan[m].todo PROVE s \notin plan[n].todo
      <4>1. s # step /\ ~Sooner(step, s)
        BY <1>2, <1>3, <3>4
      <4>2. Sooner(s, step)
        BY <1>2, <1>3, <4>1, SoonerTotal
      <4> QED BY <1>3, <3>1, <3>3, <4>2
    <3>5. ASSUME NEW s \in Steps, Opened(s), Made(s) PROVE Owned(s)'
      <4>1. PICK r \in Runs : doing[r] = "write" /\ s \notin plan[r].todo
        BY <2>4, <3>5 DEF Owned
      <4>2. CASE r = m
        <5>1. s \notin plan'[n].todo /\ doing'[n] = "write"
          BY <1>7, <3>1, <3>2, <3>4, <4>1, <4>2
        <5> QED BY <5>1 DEF Owned
      <4>3. CASE r # m
        <5>1. s \notin plan'[r].todo /\ doing'[r] = "write"
          BY <1>7, <4>1, <4>3
        <5> QED BY <5>1 DEF Owned
      <4> QED BY <4>2, <4>3
    <3> QED BY <1>8, <3>5
  <2> QED BY <1>2, <2>2, <2>3, <2>4 DEF LeftTo
<1>10. "off" \in Doings \ {"write"} /\ "off" \notin {"look", "collect"}
  BY DEF Doings
<1> QED BY <1>1, <1>9, <1>10, OnlyInv

-----------------------------------------------------------------------------
(* A write                                                                 *)

LEMMA WriteInv ==
  ASSUME MigrationInv, NEW m \in Runs, Write(m)
  PROVE  MigrationInv'
<1>0. PICK step : step = NextStep(plan[m].todo)
  OBVIOUS
<1> DEFINE done == plan[m].todo \ {step}
<1>1. /\ doing[m] = "write" /\ plan[m].todo # {} /\ Effect(m, step)
      /\ plan' = [plan EXCEPT ![m].todo = done]
      /\ source' = source /\ doing' = doing /\ legacy' = legacy /\ stuck' = stuck
      /\ starts' = starts /\ faults' = faults
  BY <1>0 DEF Write
<1>2. /\ source \in Sources /\ Verified /\ plan[m].todo \in SUBSET Steps
      /\ \A c \in Changes : DocOf(m, c) = Collected(Tree(c))
      /\ \A s \in plan[m].todo : \A t \in Steps : Sooner(s, t) => t \in plan[m].todo
      /\ \A s \in Steps : s \notin plan[m].todo => Made(s)
  BY <1>1, WriterFacts
<1>3. /\ step \in plan[m].todo /\ step \in Steps
      /\ \A t \in Steps : Sooner(t, step) => t \notin plan[m].todo
  BY <1>0, <1>1, <1>2, NextStepFirst
<1>4. done \in SUBSET Steps /\ \A s : s \in done <=> s \in plan[m].todo /\ s # step
  BY <1>2
<1>5. \A t \in Steps : Sooner(t, step) => Made(t)
  BY <1>2, <1>3
<1> HIDE DEF done
<1>6. MigrationTypeOK /\ Stored /\ LegacyAdopted /\ LeftTo /\ doing \in [Runs -> Doings]
      /\ plan \in [Runs -> [docs : Seq(Readings), todo : SUBSET Steps]]
      /\ \A n \in Runs : CollectsOf(n) /\ WritesOf(n) /\ AdoptsOf(n)
  BY DEF MigrationInv, MigrationTypeOK, PlansTyped, Doings
<1>7. /\ plan'[m].docs = plan[m].docs /\ plan'[m].todo = done
      /\ \A n \in Runs \ {m} : plan'[n] = plan[n]
  BY <1>1, <1>6
<1>8. /\ Changes' = Changes /\ Steps' = Steps /\ Readings' = Readings
      /\ SourceFront' = SourceFront /\ SourceLedgers' = SourceLedgers
      /\ \A c : Tree(c)' = Tree(c)
  BY <1>1, RigidSource
<1>9. step.op = "state" => step.change \in Changes
  BY <1>3, StepForms DEF Singles
<1>10. step.op = "state" => DocOf(m, step.change) = Collected(Tree(step.change))
  BY <1>2, <1>9
<1>11. DOMAIN states = Changes
  BY <1>6 DEF MigrationTypeOK
<1>12. /\ DOMAIN states' = Changes
       /\ \A c \in Changes : \/ states'[c] = states[c]
                              \/ states'[c] = Collected(Tree(c))
       /\ step.op = "state" => states'[step.change] = Collected(Tree(step.change))
  BY <1>1, <1>9, <1>10, <1>11 DEF Effect
<1>13. /\ front' \subseteq front /\ ledgers' \subseteq ledgers /\ (root' => root) /\ (index => index')
       /\ (hidden' => hidden) /\ (current => current')
  BY <1>1 DEF Effect
<1>14. MigrationTypeOK'
  <2>1. \A c \in Changes : states'[c] # NoDoc => Valid(states'[c])
    BY <1>2, <1>6, <1>12 DEF Verified, MigrationTypeOK
  <2>2. root' \in BOOLEAN /\ index' \in BOOLEAN /\ hidden' \in BOOLEAN /\ current' \in BOOLEAN
    BY <1>1, <1>6 DEF Effect, MigrationTypeOK
  <2> QED BY <1>1, <1>6, <1>8, <1>12, <1>13, <2>1, <2>2 DEF MigrationTypeOK
<1>15. PlansTyped'
  <2>1. plan' \in [Runs -> [docs : Seq(Readings), todo : SUBSET Steps]]
    BY <1>1, <1>4, <1>6
  <2> QED BY <1>8, <2>1 DEF PlansTyped
<1>16. \A s \in Steps : Made(s) => Made(s)'
  <2> TAKE s \in Steps
  <2> HAVE Made(s)
  <2>1. s.op = "state" => s.change \in Changes
    BY StepForms DEF Singles
  <2>2. s.op = "state" => states'[s.change] = Collected(Tree(s.change))
    BY <1>12, <2>1 DEF Made
  <2>3. s.op = "prose" => \A e \in front' : ~(e[1] = s.change /\ e[2][1] = s.at)
    BY <1>13 DEF Made
  <2>4. s.op = "ledger" => <<s.change, s.at>> \notin ledgers'
    BY <1>13 DEF Made
  <2> QED BY <1>8, <1>13, <2>2, <2>3, <2>4 DEF Made
<1>17. Made(step)'
  <2>1. step.op = "state" => states'[step.change] = Collected(Tree(step.change)')
    BY <1>8, <1>12
  <2>2. /\ step.op = "index" => index'
        /\ step.op = "prose" => \A e \in front' : ~(e[1] = step.change /\ e[2][1] = step.at)
        /\ step.op = "root" => ~root'
        /\ step.op = "ledger" => <<step.change, step.at>> \notin ledgers'
        /\ step.op = "ignore" => ~hidden'
    BY <1>1 DEF Effect
  <2> QED BY <2>1, <2>2 DEF Made
(* What comes to be made is the step's, or a state file's.                 *)
<1>18. \A s \in Steps : (Opened(s) /\ Made(s)') => (Made(s) \/ s = step)
  <2> TAKE s \in Steps
  <2> HAVE Opened(s) /\ Made(s)'
  <2>1. SUFFICES ASSUME s # step PROVE Made(s)
    OBVIOUS
  <2>2. \/ s.op \in {"index", "root", "ignore"} /\ s = Single(s.op)
        \/ s.op = "prose" /\ s = Step("prose", s.change, s.at)
        \/ s.op = "ledger" /\ s = Step("ledger", s.change, s.at)
    BY StepForms DEF Singles, Opened
  <2>3. CASE s.op \in {"index", "root", "ignore"}
    <3>1. step.op # s.op
      <4>1. SUFFICES ASSUME step.op = s.op PROVE FALSE
        OBVIOUS
      <4>2. step = Single(step.op)
        BY <1>3, <2>3, <4>1, StepForms DEF Singles
      <4> QED BY <2>1, <2>2, <2>3, <4>1, <4>2
    <3> QED BY <1>1, <2>3, <3>1 DEF Effect, Made
  <2>4. CASE s.op = "prose"
    <3>1. SUFFICES ASSUME NEW e \in front, e[1] = s.change, e[2][1] = s.at PROVE FALSE
      BY <2>4 DEF Made
    <3>2. e \notin front'
      BY <2>4, <3>1 DEF Made
    <3>3. step.op = "prose" /\ e[1] = step.change /\ e[2][1] = step.at
      BY <1>1, <3>2 DEF Effect
    <3>4. step = Step("prose", step.change, step.at)
      BY <1>3, <3>3, StepForms DEF Singles
    <3> QED BY <2>1, <2>2, <2>4, <3>1, <3>3, <3>4
  <2>5. CASE s.op = "ledger"
    <3>1. SUFFICES ASSUME <<s.change, s.at>> \in ledgers PROVE FALSE
      BY <2>5 DEF Made
    <3>2. <<s.change, s.at>> \notin ledgers'
      BY <2>5 DEF Made
    <3>3. step.op = "ledger" /\ <<s.change, s.at>> = <<step.change, step.at>>
      BY <1>1, <3>1, <3>2 DEF Effect
    <3>4. step = Step("ledger", step.change, step.at)
      BY <1>3, <3>3, StepForms DEF Singles
    <3> QED BY <2>1, <2>2, <2>5, <3>3, <3>4
  <2> QED BY <2>2, <2>3, <2>4, <2>5
<1>19. Verified'
  BY <1>1, <1>2, RigidVerified
<1>20. Stored'
  <2>1. ASSUME index' PROVE \A c \in Changes : states'[c] = Collected(Tree(c))
    <3>1. ASSUME index, NEW c \in Changes PROVE states[c] = Collected(Tree(c))
      BY <1>6, <3>1 DEF Stored
    <3>2. ASSUME ~index, NEW c \in Changes PROVE states[c] = Collected(Tree(c))
      <4>1. step.op = "index"
        BY <1>1, <2>1, <3>2 DEF Effect
      <4> DEFINE s == Step("state", c, Root)
      <4>2. s \in Steps /\ s.op = "state" /\ s.change = c
        BY StepsMade DEF Step
      <4> HIDE DEF s
      <4>3. Sooner(s, step)
        BY <4>1, <4>2, StageValues DEF Sooner
      <4> QED BY <1>5, <4>2, <4>3 DEF Made
    <3> QED BY <1>12, <3>1, <3>2
  <2>2. ASSUME ~index' PROVE Intact'
    <3>1. step.op \in {"mkdir", "state"} \/ ~(step.op \in {"index", "prose", "root", "ledger", "ignore"})
      <4>1. SUFFICES ASSUME step.op \in {"index", "prose", "root", "ledger", "ignore"} PROVE FALSE
        BY <1>3, OpsOfSteps
      <4>2. step.op # "index"
        BY <1>1, <2>2 DEF Effect
      <4> DEFINE s == Single("index")
      <4>3. s \in Steps /\ s.op = "index"
        BY StepsMade DEF Singles, Single, Step
      <4> HIDE DEF s
      <4>4. Sooner(s, step)
        BY <4>1, <4>2, <4>3, StageValues DEF Sooner
      <4>5. index
        BY <1>5, <4>3, <4>4 DEF Made
      <4> QED BY <1>13, <2>2, <4>5
    <3>2. step.op \in {"mkdir", "state"}
      BY <1>3, <3>1, OpsOfSteps
    <3>3. root' = root /\ ledgers' = ledgers /\ front' = front
      BY <1>1, <1>6, <3>2 DEF Effect, MigrationTypeOK
    <3>4. Intact
      BY <1>6, <1>13, <2>2 DEF Stored
    <3> QED BY <1>8, <3>3, <3>4 DEF Intact
  <2> QED BY <1>8, <1>19, <2>1, <2>2 DEF Stored
<1>21. LegacyAdopted' /\ \A n \in Runs : AdoptsOf(n)'
  <2>1. AdoptsOf(m)
    BY <1>6
  <2>2. LegacyAdopted'
    BY <1>1, <2>1 DEF AdoptsOf, LegacyAdopted
  <2>3. \A n \in Runs : AdoptsOf(n)'
    BY <1>1, <1>6 DEF AdoptsOf
  <2> QED BY <2>2, <2>3
<1>22. ASSUME NEW n \in Runs PROVE CollectsOf(n)' /\ WritesOf(n)'
  <2>1. CASE n # m
    BY <1>1, <1>6, <1>7, <1>16, <2>1, ProcessKept
  <2>2. CASE n = m
    <3>1. CollectsOf(m)'
      BY <1>1 DEF CollectsOf
    <3>2. \A c : DocOf(m, c)' = DocOf(m, c)
      BY <1>1, <1>7 DEF DocOf
    <3>3. \A c \in Changes' : DocOf(m, c)' = Collected(Tree(c)')
      BY <1>2, <1>8, <3>2
    <3>4. ASSUME NEW s \in done, NEW t \in Steps, Sooner(s, t) PROVE t \in done
      <4>1. s \in plan[m].todo /\ s # step /\ s \in Steps
        BY <1>4, <3>4
      <4>2. t \in plan[m].todo
        BY <1>2, <3>4, <4>1
      <4>3. t # step
        BY <1>3, <3>4, <4>1
      <4> QED BY <1>4, <4>2, <4>3
    <3>5. \A s, t : Sooner(s, t)' <=> Sooner(s, t)
      BY <1>1, RigidSooner
    <3>6. \A s \in plan'[m].todo : \A t \in Steps' : Sooner(s, t)' => t \in plan'[m].todo
      BY <1>7, <1>8, <3>4, <3>5
    <3>7. ASSUME NEW s \in Steps, s \notin done PROVE Made(s)'
      <4>1. CASE s = step
        BY <1>17, <4>1
      <4>2. CASE s # step
        <5>1. s \notin plan[m].todo
          BY <1>4, <3>7, <4>2
        <5> QED BY <1>2, <1>16, <5>1
      <4> QED BY <4>1, <4>2
    <3>8. \A s \in Steps' : s \notin plan'[m].todo => Made(s)'
      BY <1>7, <1>8, <3>7
    <3> QED BY <1>19, <2>2, <3>1, <3>3, <3>6, <3>8 DEF WritesOf
  <2> QED BY <2>1, <2>2
<1>23. LeftTo'
  <2>1. SUFFICES ASSUME faults' = 0
        PROVE (\A s \in Steps' : Made(s)') \/ (\A s \in Steps' : Opened(s)' /\ Made(s)' => Owned(s)')
    BY DEF LeftTo
  <2>2. CASE \A s \in Steps : Made(s)
    BY <1>8, <1>16, <2>2
  <2>3. CASE \A s \in Steps : Opened(s) /\ Made(s) => Owned(s)
    <3>1. ASSUME NEW s \in Steps, Opened(s), Made(s)' PROVE Owned(s)'
      <4>1. CASE s = step
        <5>1. s \notin plan'[m].todo /\ doing'[m] = "write"
          BY <1>1, <1>4, <1>7, <4>1
        <5> QED BY <5>1 DEF Owned
      <4>2. CASE s # step
        <5>1. Made(s)
          BY <1>18, <3>1, <4>2
        <5>2. PICK r \in Runs : doing[r] = "write" /\ s \notin plan[r].todo
          BY <2>3, <3>1, <5>1 DEF Owned
        <5>3. s \notin plan'[r].todo /\ doing'[r] = "write"
          <6>1. CASE r = m
            BY <1>1, <1>4, <1>7, <5>2, <6>1
          <6>2. CASE r # m
            BY <1>1, <1>7, <5>2, <6>2
          <6> QED BY <6>1, <6>2
        <5> QED BY <5>3 DEF Owned
      <4> QED BY <4>1, <4>2
    <3>2. \A s : Opened(s)' <=> Opened(s)
      BY DEF Opened
    <3> QED BY <1>8, <3>1, <3>2
  <2> QED BY <1>1, <1>2, <1>6, <2>1, <2>2, <2>3 DEF LeftTo
<1> QED BY <1>14, <1>15, <1>20, <1>21, <1>22, <1>23 DEF MigrationInv

LEMMA StutterInv ==
  ASSUME MigrationInv, UNCHANGED migrationVars
  PROVE  MigrationInv'
<1>1. /\ source' = source /\ root' = root /\ ledgers' = ledgers /\ front' = front
      /\ states' = states /\ index' = index /\ hidden' = hidden
      /\ legacy' = legacy /\ current' = current /\ stuck' = stuck
      /\ doing' = doing /\ plan' = plan /\ starts' = starts /\ faults' = faults
  BY DEF migrationVars, markdown, json, dirs, procs
<1>2. \A m : Quiet(m)
  BY <1>1 DEF Quiet
<1>3. MigrationTypeOK /\ PlansTyped /\ Stored /\ LeftTo /\ LegacyAdopted
      /\ \A m \in Runs : CollectsOf(m) /\ WritesOf(m) /\ AdoptsOf(m)
  BY DEF MigrationInv
<1>4. /\ Changes' = Changes /\ Steps' = Steps /\ Readings' = Readings
      /\ SourceFront' = SourceFront /\ SourceLedgers' = SourceLedgers
  BY <1>1, RigidSource
<1>5. MigrationTypeOK'
  BY <1>1, <1>3, <1>4 DEF MigrationTypeOK
<1>6. PlansTyped'
  BY <1>1, <1>3, <1>4 DEF PlansTyped
<1>7. Stored'
  BY <1>2, <1>3, QuietStored
<1>8. LeftTo'
  <2>1. \A m : doing[m] = "write" => doing'[m] = "write" /\ plan'[m] = plan[m]
    BY <1>1
  <2> QED BY <1>1, <1>2, <1>3, <2>1, QuietLeftTo
<1>9. LegacyAdopted' /\ \A m \in Runs : AdoptsOf(m)'
  BY <1>1, <1>3 DEF LegacyAdopted, AdoptsOf
<1>10. ASSUME NEW m \in Runs PROVE CollectsOf(m)' /\ WritesOf(m)'
  <2>1. \A s \in Steps : Made(s) => Made(s)'
    BY <1>2, QuietMade
  <2> QED BY <1>1, <1>3, <2>1, ProcessKept
<1> QED BY <1>5, <1>6, <1>7, <1>8, <1>9, <1>10 DEF MigrationInv

-----------------------------------------------------------------------------
(* The beginning                                                           *)

LEMMA SourceMembers ==
  /\ \A c \in Changes : \A f \in Tree(c).files : <<c, f>> \in SourceFront
  /\ \A c \in Changes : \A k \in DOMAIN Tree(c).rows : <<c, k>> \in SourceLedgers
  /\ \A e \in SourceFront : \E c \in Changes : \E f \in Tree(c).files : e = <<c, f>>
  /\ \A e \in SourceLedgers : \E c \in Changes : \E k \in DOMAIN Tree(c).rows : e = <<c, k>>
<1>1. \A c \in Changes : \A f \in Tree(c).files : <<c, f>> \in SourceFront
  BY DEF SourceFront
<1>2. \A c \in Changes : \A k \in DOMAIN Tree(c).rows : <<c, k>> \in SourceLedgers
  BY DEF SourceLedgers
<1>3. ASSUME NEW e \in SourceFront PROVE \E c \in Changes : \E f \in Tree(c).files : e = <<c, f>>
  BY DEF SourceFront
<1>4. ASSUME NEW e \in SourceLedgers PROVE \E c \in Changes : \E k \in DOMAIN Tree(c).rows : e = <<c, k>>
  BY DEF SourceLedgers
<1> QED BY <1>1, <1>2, <1>3, <1>4

LEMMA InitInv == MigrationInit => MigrationInv
<1> SUFFICES ASSUME MigrationInit PROVE MigrationInv
  OBVIOUS
<1>1. /\ source \in Sources /\ root = TRUE /\ ledgers = SourceLedgers /\ front = SourceFront
      /\ states = [c \in Changes |-> NoDoc] /\ index = FALSE /\ hidden = TRUE
      /\ legacy \in BOOLEAN /\ current \in BOOLEAN /\ ~(legacy /\ current)
      /\ stuck = FALSE
      /\ doing = [m \in Runs |-> "off"] /\ plan = [m \in Runs |-> NoPlan]
      /\ starts = 0 /\ faults = 0
  BY DEF MigrationInit
<1>2. MigrationTypeOK
  <2>1. doing \in [Runs -> {"off", "dir", "rename", "look", "collect", "write", "open", "serving"}]
    BY <1>1
  <2>2. starts \in 0 .. MaxStarts /\ faults \in 0 .. MaxFaults
    BY <1>1, MigrationAssumption
  <2>3. DOMAIN states = Changes /\ \A c \in Changes : states[c] # NoDoc => Valid(states[c])
    BY <1>1
  <2> QED BY <1>1, <2>1, <2>2, <2>3 DEF MigrationTypeOK
<1>3. PlansTyped
  <2> DEFINE T == [docs : Seq(Readings), todo : SUBSET Steps]
  <2>1. NoPlan \in T
    BY NoPlanType
  <2> HIDE DEF T
  <2>2. plan \in [Runs -> T]
    BY <1>1, <2>1
  <2> QED BY <2>2 DEF PlansTyped, T
<1>4. Stored /\ LegacyAdopted
  BY <1>1 DEF Stored, Intact, LegacyAdopted
<1>5. \A m \in Runs : CollectsOf(m) /\ WritesOf(m) /\ AdoptsOf(m)
  BY <1>1 DEF CollectsOf, WritesOf, AdoptsOf
<1>6. ASSUME Verified, NEW s \in Steps, Opened(s) PROVE ~Made(s)
  <2>1. CASE s.op \in {"index", "root", "ignore"}
    BY <1>1, <2>1 DEF Made
  <2>2. CASE s.op = "prose"
    <3>1. s.change \in Changes
      BY <2>2, StepForms DEF Singles
    <3>2. PICK f \in Tree(s.change).files : s.at = f[1]
      BY <2>2, StepForms DEF Singles
    <3>3. <<s.change, f>> \in front
      BY <1>1, <3>1, SourceMembers
    <3> QED BY <2>2, <3>2, <3>3 DEF Made
  <2>3. CASE s.op = "ledger"
    <3>1. s.change \in Changes /\ s.at \in {Root} \cup Tree(s.change).dirs
      BY <2>3, StepForms DEF Singles
    <3>2. s.at \in DOMAIN Tree(s.change).rows
      BY <1>6, <3>1 DEF Verified, WellFormed
    <3>3. <<s.change, s.at>> \in ledgers
      BY <1>1, <3>1, <3>2, SourceMembers
    <3> QED BY <2>3, <3>3 DEF Made
  <2> QED BY <1>6, <2>1, <2>2, <2>3, OpsOfSteps DEF Opened
<1>7. LeftTo
  BY <1>6 DEF LeftTo
<1> QED BY <1>2, <1>3, <1>4, <1>5, <1>7 DEF MigrationInv

LEMMA MigrationStep == MigrationInv /\ [MigrationNext]_migrationVars => MigrationInv'
<1> SUFFICES ASSUME MigrationInv, [MigrationNext]_migrationVars PROVE MigrationInv'
  OBVIOUS
<1>1. ASSUME NEW m \in Runs, Start(m) PROVE MigrationInv'
  BY <1>1, StartInv
<1>2. ASSUME NEW m \in Runs, LookDir(m) PROVE MigrationInv'
  BY <1>2, LookDirInv
<1>3. ASSUME NEW m \in Runs, Rename(m) \/ RenameFails(m) PROVE MigrationInv'
  BY <1>3, RenameInv
<1>4. ASSUME NEW m \in Runs, Look(m) PROVE MigrationInv'
  BY <1>4, LookInv
<1>5. ASSUME NEW m \in Runs, Open(m) \/ Exit(m) PROVE MigrationInv'
  BY <1>5, OpenExitInv
<1>6. ASSUME NEW m \in Runs, Collect(m) PROVE MigrationInv'
  BY <1>6, CollectInv
<1>7. ASSUME NEW m \in Runs, Verify(m) PROVE MigrationInv'
  BY <1>7, VerifyInv
<1>8. ASSUME NEW m \in Runs, Write(m) PROVE MigrationInv'
  BY <1>8, WriteInv
<1>9. ASSUME NEW m \in Runs, WriteRefused(m) PROVE MigrationInv'
  BY <1>9, WriteRefusedInv
<1>10. ASSUME NEW m \in Runs, Finish(m) PROVE MigrationInv'
  BY <1>10, FinishInv
<1>11. ASSUME NEW m \in Runs, Stop(m) PROVE MigrationInv'
  BY <1>11, StopInv
<1>12. CASE UNCHANGED migrationVars
  BY <1>12, StutterInv
<1> QED BY <1>1, <1>2, <1>3, <1>4, <1>5, <1>6, <1>7, <1>8, <1>9, <1>10, <1>11, <1>12
     DEF MigrationNext

LEMMA MigrationInvariant == MigrationSpec => []MigrationInv
BY InitInv, MigrationStep, PTL DEF MigrationSpec

(* The type invariant, for any trees and processes: what stays of the      *)
(* markdown is a part of what it was, and a state file holds a document    *)
(* the store accepts.                                                      *)
THEOREM MigrationTypeCorrect == MigrationSpec => []MigrationTypeOK
<1>1. MigrationInv => MigrationTypeOK
  BY DEF MigrationInv
<1> QED BY <1>1, MigrationInvariant, PTL

(* Whatever the trees, however many processes migrate them at once and     *)
(* whichever of them fail or die at whatever step: with the index, every   *)
(* change's state file says all that its markdown said, in a document the  *)
(* store accepts; without it the markdown is untouched.                    *)
THEOREM NothingIsLost == MigrationSpec => []NothingLost
<1>1. MigrationInv => NothingLost
  <2> SUFFICES ASSUME MigrationInv PROVE NothingLost
    OBVIOUS
  <2>1. Stored /\ source \in Sources
    BY DEF MigrationInv, MigrationTypeOK
  <2>2. ASSUME index, NEW c \in Changes
        PROVE  states[c] # NoDoc /\ Valid(states[c]) /\ Says(states[c], Tree(c))
    <3>1. states[c] = Collected(Tree(c)) /\ Verified
      BY <2>1, <2>2 DEF Stored
    <3>2. /\ IsTree(Tree(c)) /\ WellFormed(Tree(c)) /\ Reproduces(Collected(Tree(c)), Tree(c))
          /\ Valid(Collected(Tree(c)))
      BY <2>1, <3>1, SourceFacts DEF Verified
    <3>3. Says(Collected(Tree(c)), Tree(c))
      BY <3>2, CollectedSays
    <3>4. Collected(Tree(c)) # NoDoc
      BY <3>2, MigrationAssumption DEF Valid
    <3> QED BY <3>1, <3>2, <3>3, <3>4
  <2> QED BY <2>1, <2>2 DEF NothingLost, Whole, Stored
<1> QED BY <1>1, MigrationInvariant, PTL

(* The tooling directory of the old name and that of the new one are never *)
(* both there unless the renaming has failed.                              *)
THEOREM LegacyIsAdopted == MigrationSpec => []LegacyAdopted
<1>1. MigrationInv => LegacyAdopted
  BY DEF MigrationInv
<1> QED BY <1>1, MigrationInvariant, PTL

(* When no process is at work any more and none has failed, a repository   *)
(* with an index has neither ledger nor frontmatter left, and its state    *)
(* directory is tracked: a process whose removal is refused because the    *)
(* ledger is gone leaves the rest to the one that removed it.              *)
THEOREM NothingStaysBehind == MigrationSpec => []NothingLeftOver
<1>1. MigrationInv => NothingLeftOver
  <2> SUFFICES ASSUME MigrationInv, index, faults = 0, \A m \in Runs : Idle(m)
               PROVE  ~root /\ ledgers = {} /\ front = {} /\ ~hidden
    BY DEF NothingLeftOver
  <2>1. /\ Stored /\ LeftTo /\ source \in Sources
        /\ ledgers \subseteq SourceLedgers /\ front \subseteq SourceFront
    BY DEF MigrationInv, MigrationTypeOK
  <2>2. Verified
    BY <2>1 DEF Stored
  <2>3. \A s \in Steps : Made(s)
    <3> DEFINE s == Single("index")
    <3>1. s \in Steps /\ s.op = "index"
      BY StepsMade DEF Singles, Single, Step
    <3> HIDE DEF s
    <3>2. Opened(s) /\ Made(s)
      BY <3>1 DEF Opened, Made
    <3>3. ~Owned(s)
      BY DEF Owned, Idle
    <3> QED BY <2>1, <2>2, <3>1, <3>2, <3>3 DEF LeftTo
  <2>4. ~root /\ ~hidden
    <3> DEFINE r == Single("root")
               h == Single("ignore")
    <3>1. r \in Steps /\ r.op = "root" /\ h \in Steps /\ h.op = "ignore"
      BY StepsMade DEF Singles, Single, Step
    <3> HIDE DEF r, h
    <3> QED BY <2>3, <3>1 DEF Made
  <2>5. ASSUME NEW e \in ledgers PROVE FALSE
    <3>1. PICK c \in Changes : \E k \in DOMAIN Tree(c).rows : e = <<c, k>>
      BY <2>1, SourceMembers
    <3>2. PICK k \in DOMAIN Tree(c).rows : e = <<c, k>>
      BY <3>1
    <3>3. k \in {Root} \cup Tree(c).dirs
      BY <2>1, SourceFacts DEF IsTree
    <3> DEFINE s == Step("ledger", c, k)
    <3>4. s \in Steps /\ s.op = "ledger" /\ s.change = c /\ s.at = k
      BY <3>3, StepsMade DEF Step
    <3> HIDE DEF s
    <3> QED BY <2>3, <3>2, <3>4 DEF Made
  <2>6. ASSUME NEW e \in front PROVE FALSE
    <3>1. PICK c \in Changes : \E f \in Tree(c).files : e = <<c, f>>
      BY <2>1, SourceMembers
    <3>2. PICK f \in Tree(c).files : e = <<c, f>>
      BY <3>1
    <3> DEFINE s == Step("prose", c, f[1])
    <3>3. s \in Steps /\ s.op = "prose" /\ s.change = c /\ s.at = f[1]
      BY <3>2, StepsMade DEF Step
    <3> HIDE DEF s
    <3> QED BY <2>3, <3>2, <3>3 DEF Made
  <2> QED BY <2>4, <2>5, <2>6
<1> QED BY <1>1, MigrationInvariant, PTL
=============================================================================
