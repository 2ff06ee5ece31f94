------------------------ MODULE SessionMappingProofs ------------------------
(***************************************************************************)
(* Theorems about SessionMapping, for any sessions, changes, tasks,        *)
(* goroutines and bounds.                                                  *)
(***************************************************************************)
EXTENDS SessionMapping, TLAPS

-----------------------------------------------------------------------------
(* Types                                                                   *)

CallTypes == pc \in [Procs -> Labels] /\ call \in [Procs -> Calls]
LockTypes == opsHolder \in Procs \cup {None} /\ sweeper \in Procs \cup {None}
RowTypes == rows \subseteq Rows /\ disk \subseteq Rows /\ ahead \in BOOLEAN
MarkTypes == marks \subseteq Changes \X Tasks /\ marksDisk \subseteq marks
BoundTypes == calls \in Nat /\ faults \in Nat /\ restarts \in Nat

(* What a request knows at each label.                                     *)
Knows(l, k) ==
  /\ l = "idle" => k = NoCall
  /\ k.op = "auto" => l \in {"node", "spawn", "prime", "add", "drop", "marked"} /\ k.owner \in Changes
  /\ k.op = "auto" /\ l # "node" => k.task \in Tasks
  /\ k.op = "open" /\ k.task # None => k.owner \in Changes
  /\ k.op = "scaffold" => k.session \in Sessions
  /\ l \in {"node", "marked"} => k.op = "auto"
  /\ l = "spawn" => k.op \in {"open", "commit", "review", "handoff", "auto"}
  /\ l = "prime" => k.op \in {"open", "review", "handoff", "auto"}
  /\ l = "mark" => k.op = "open" /\ k.task \in Tasks
  /\ l = "mint" => k.op \in {"handoff", "scaffold"}
  /\ l = "move" => k.op = "scaffold"
  /\ l = "look" => k.op = "fork"
  /\ l \in {"listed", "elsewhere"} => k.op = "bind"
  /\ l \in {"walk", "select", "merge"} => k.op = "reconcile"
  /\ l \in {"delete", "closure", "cleanup"} => k.op = "delete"
  /\ l \in {"spawn", "prime", "mark", "add", "listed", "elsewhere"} => k.owner \in Owners
  /\ l \in {"walk", "select", "merge", "move"} => k.owner \in Changes
  /\ l \in {"prime", "mark", "add", "drop", "marked", "look", "listed", "elsewhere", "move",
            "delete", "closure", "cleanup"} => k.session \in Sessions

(* Who is in a sweep or a scaffold holds its mutex.                        *)
Holds(p) ==
  /\ call[p].op = "auto" => sweeper = p
  /\ call[p].op = "scaffold" => opsHolder = p

Control == \A p \in Procs : Knows(pc[p], call[p]) /\ Holds(p)
TypeInv == TypeOK /\ Control

LEMMA NoCallType == NoCall \in Calls
BY DEF NoCall, Calls, Ops

LEMMA EndsType ==
  ASSUME NEW p \in Procs, CallTypes, LockTypes, Ends(p)
  PROVE  CallTypes' /\ LockTypes'
<1>1. call[p] \in Calls /\ [call[p] EXCEPT !.session = None, !.task = None] \in Calls
  BY DEF CallTypes, Calls, Ops
<1>2. call' \in [Procs -> Calls]
  BY <1>1, NoCallType DEF Ends, CallTypes
<1> QED
  BY <1>2 DEF Ends, CallTypes, LockTypes, Labels

LEMMA GotoType ==
  ASSUME NEW p \in Procs, NEW l \in Labels, CallTypes, Goto(p, l)
  PROVE  CallTypes'
BY DEF Goto, CallTypes

LEMMA ServeType ==
  ASSUME NEW p \in Procs, NEW l \in Labels, NEW c \in Calls, CallTypes, BoundTypes, Serve(p, l, c)
  PROVE  CallTypes' /\ BoundTypes'
BY DEF Serve, CallTypes, BoundTypes

LEMMA SaveType ==
  ASSUME NEW new \in SUBSET Rows, Save(new)
  PROVE  RowTypes'
BY DEF Save, RowTypes

LEMMA FaultType ==
  ASSUME Fault, faults \in Nat
  PROVE  faults' \in Nat
BY DEF Fault

LEMMA MarkType ==
  ASSUME NEW c \in Changes, NEW t \in Tasks, Mark(c, t), MarkTypes, faults \in Nat
  PROVE  MarkTypes' /\ faults' \in Nat
BY FaultType DEF Mark, MarkTypes

LEMMA RowOfType ==
  ASSUME NEW p \in Procs, CallTypes, parent \in [Sessions -> Sessions \cup {None}],
         call[p].session \in Sessions, call[p].owner \in Owners
  PROVE  RowOf(p) \in Rows
BY DEF RowOf, Rows, CallTypes, Calls


(* A step of one request that ends it, or takes it to label l with         *)
(* knowledge k, and keeps the locks.                                       *)
LEMMA EndsControl ==
  ASSUME NEW p \in Procs, CallTypes, Control, Ends(p)
  PROVE  Control'
<1>1. \A q \in Procs : Holds(q)'
  BY DEF Control, Holds, Ends, CallTypes, NoCall, Calls
<1>2. Knows(pc[p], call[p])'
  BY DEF Control, Knows, Ends, CallTypes, NoCall, Calls
<1>3. \A q \in Procs \ {p} : Knows(pc[q], call[q])'
  BY DEF Control, Ends, CallTypes
<1> QED
  BY <1>1, <1>2, <1>3 DEF Control

LEMMA StepControl ==
  ASSUME NEW p \in Procs, CallTypes, Control, NEW l \in Labels, NEW k \in Calls,
         pc' = [pc EXCEPT ![p] = l], call' = [call EXCEPT ![p] = k],
         UNCHANGED locks, Knows(l, k), k.op = call[p].op \/ k.op \notin {"auto", "scaffold"}
  PROVE  CallTypes' /\ Control'
<1>1. CallTypes'
  BY DEF CallTypes
<1>2. \A q \in Procs : Holds(q)'
  BY DEF Control, Holds, CallTypes, locks
<1>3. \A q \in Procs : Knows(pc[q], call[q])'
  BY DEF Control, CallTypes
<1> QED
  BY <1>1, <1>2, <1>3 DEF Control

LEMMA GotoControl ==
  ASSUME NEW p \in Procs, CallTypes, Control, NEW l \in Labels, Goto(p, l),
         UNCHANGED locks, Knows(l, call[p])
  PROVE  CallTypes' /\ Control'
<1>1. call[p] \in Calls /\ call' = [call EXCEPT ![p] = call[p]]
  BY DEF Goto, CallTypes
<1> QED
  BY <1>1, StepControl DEF Goto

LEMMA ServeControl ==
  ASSUME NEW p \in Procs, CallTypes, BoundTypes, Control, NEW l \in Labels, NEW k \in Calls, Serve(p, l, k),
         UNCHANGED locks, Knows(l, k), k.op \notin {"auto", "scaffold"}
  PROVE  CallTypes' /\ Control' /\ BoundTypes'
<1>1. BoundTypes'
  BY DEF Serve, BoundTypes
<1>2. pc' = [pc EXCEPT ![p] = l] /\ call' = [call EXCEPT ![p] = k]
  BY DEF Serve
<1> QED
  BY <1>1, <1>2, StepControl

(* The rest of the types.                                                  *)
ServiceTypes ==
  /\ up \in [Sessions -> {"unborn", "live", "gone"}]
  /\ parent \in [Sessions -> Sessions \cup {None}] /\ names \in [Sessions -> Tasks \cup {None}]
ChangeTypes == changes \subseteq Changes /\ scaffolded \in [Sessions -> Changes \cup {None}]
HistoryTypes ==
  /\ made \subseteq Sessions /\ adrift \subseteq Sessions /\ released \subseteq Sessions
  /\ stale \subseteq Sessions /\ cut \subseteq Sessions
  /\ minted \in [Sessions -> SUBSET Changes]
  /\ autos \subseteq Changes \X Tasks \X Sessions /\ lapsed \subseteq Changes \X Tasks

LEMMA TypeParts ==
  TypeInv <=> /\ ServiceTypes /\ RowTypes /\ ChangeTypes /\ MarkTypes /\ LockTypes
              /\ CallTypes /\ BoundTypes /\ HistoryTypes /\ Control
BY DEF TypeInv, TypeOK, ServiceTypes, RowTypes, ChangeTypes, MarkTypes, LockTypes,
       CallTypes, BoundTypes, HistoryTypes

LEMMA TypePartsNext ==
  ASSUME ServiceTypes', RowTypes', ChangeTypes', MarkTypes', LockTypes',
         CallTypes', BoundTypes', HistoryTypes', Control'
  PROVE  TypeInv'
BY DEF TypeInv, TypeOK, ServiceTypes, RowTypes, ChangeTypes, MarkTypes, LockTypes,
       CallTypes, BoundTypes, HistoryTypes

(* The steps that only move a request.                                     *)
LEMMA MovesOnly ==
  ASSUME TypeInv, UNCHANGED <<service, mapping, changes, scaffolded, markers, history>>,
         CallTypes', LockTypes', BoundTypes', Control'
  PROVE  TypeInv'
<1>1. ServiceTypes' /\ RowTypes' /\ ChangeTypes' /\ MarkTypes' /\ HistoryTypes'
  BY TypeParts DEF ServiceTypes, RowTypes, ChangeTypes, MarkTypes, HistoryTypes,
                   service, mapping, markers, history
<1> QED
  BY <1>1, TypePartsNext

LEMMA Subsets ==
  /\ \A s \in Sessions : Tree(s) \subseteq Sessions /\ Closure(s) \subseteq Sessions
  /\ \A p \in Procs : Aware(p) \subseteq Sessions
BY DEF Tree, Closure, Aware

LEMMA InitTypes == Init => TypeInv
<1> SUFFICES ASSUME Init PROVE TypeInv
  OBVIOUS
<1>1. CallTypes
  BY NoCallType DEF Init, CallTypes, Labels
<1>2. RowTypes
  <2>1. Entry(Work, Old) \in Rows /\ Entry(Chat, Unassigned) \in Rows
    BY MappingAssumption DEF Entry, Rows, Owners
  <2> QED
    BY <2>1 DEF Init, RowTypes, First
<1>3. ServiceTypes /\ ChangeTypes /\ MarkTypes /\ HistoryTypes
  BY MappingAssumption DEF Init, ServiceTypes, ChangeTypes, MarkTypes, HistoryTypes
<1>4. LockTypes /\ BoundTypes
  BY DEF Init, LockTypes, BoundTypes
<1>5. Control
  BY DEF Init, Control, Knows, Holds, NoCall
<1> QED
  BY <1>5, <1>1, <1>2, <1>3, <1>4, TypeParts

(* Requests that begin without a mutex.                                    *)
Begin(p) ==
  \/ Open(p) \/ Discuss(p) \/ OpenCommit(p) \/ OpenReview(p) \/ Handoff(p) \/ Reconcile(p)
  \/ \E s \in Sessions : Bind(p, s) \/ Delete(p, s)

LEMMA BeginTypes ==
  ASSUME NEW p \in Procs, TypeInv, Begin(p)
  PROVE  TypeInv'
<1>1. changes \subseteq Changes /\ rows \subseteq Rows /\ CallTypes /\ BoundTypes /\ LockTypes /\ Control
  BY TypeParts DEF ChangeTypes, RowTypes
<1>2. ASSUME NEW l \in Labels, NEW k \in Calls, Serve(p, l, k), Knows(l, k), k.op \notin {"auto", "scaffold"},
             UNCHANGED <<service, mapping, changes, scaffolded, markers, locks, history>>
      PROVE  TypeInv'
  <2>1. CallTypes' /\ Control' /\ BoundTypes'
    BY <1>1, <1>2, ServeControl
  <2>2. LockTypes'
    BY <1>1, <1>2 DEF LockTypes, locks
  <2> QED
    BY <1>2, <2>1, <2>2, MovesOnly
<1>3. CASE Open(p)
  <2>1. PICK c \in changes, t \in Tasks \cup {None} :
          Serve(p, "spawn", [NoCall EXCEPT !.op = "open", !.owner = c, !.task = t])
    BY <1>3 DEF Open
  <2> DEFINE k == [NoCall EXCEPT !.op = "open", !.owner = c, !.task = t]
  <2>2. k \in Calls /\ Knows("spawn", k) /\ k.op = "open"
    BY <1>1 DEF Calls, Ops, NoCall, Knows, Owners
  <2> QED
    BY <1>2, <1>3, <2>1, <2>2 DEF Open, Labels
<1>4. CASE Discuss(p)
  <2> DEFINE k == [NoCall EXCEPT !.op = "open", !.owner = Unassigned]
  <2>1. k \in Calls /\ Knows("spawn", k) /\ k.op = "open"
    BY DEF Calls, Ops, NoCall, Knows, Owners
  <2> QED
    BY <1>2, <1>4, <2>1 DEF Discuss, Labels
<1>5. CASE OpenCommit(p)
  <2>1. PICK o \in changes \cup {Unassigned} :
          Serve(p, "spawn", [NoCall EXCEPT !.op = "commit", !.owner = o])
    BY <1>5 DEF OpenCommit
  <2> DEFINE k == [NoCall EXCEPT !.op = "commit", !.owner = o]
  <2>2. k \in Calls /\ Knows("spawn", k) /\ k.op = "commit"
    BY <1>1 DEF Calls, Ops, NoCall, Knows, Owners
  <2> QED
    BY <1>2, <1>5, <2>1, <2>2 DEF OpenCommit, Labels
<1>6. CASE Handoff(p)
  <2> DEFINE k == [NoCall EXCEPT !.op = "handoff"]
  <2>1. k \in Calls /\ Knows("mint", k) /\ k.op = "handoff"
    BY DEF Calls, Ops, NoCall, Knows
  <2> QED
    BY <1>2, <1>6, <2>1 DEF Handoff, Labels
<1>7. CASE Reconcile(p)
  <2>1. PICK c \in changes : Serve(p, "walk", [NoCall EXCEPT !.op = "reconcile", !.owner = c,
          !.roots = {r.session : r \in {r \in BoundTo(c) : r.parent = None \/ r.task # None}}])
    BY <1>7 DEF Reconcile
  <2> DEFINE R == {r.session : r \in {r \in BoundTo(c) : r.parent = None \/ r.task # None}}
             k == [NoCall EXCEPT !.op = "reconcile", !.owner = c, !.roots = R]
  <2>2. R \subseteq Sessions
    BY <1>1 DEF BoundTo, Rows
  <2> HIDE DEF R
  <2>3. k \in Calls /\ Knows("walk", k) /\ k.op = "reconcile"
    BY <1>1, <2>2 DEF Calls, Ops, NoCall, Knows, Owners
  <2> QED
    BY <1>2, <1>7, <2>1, <2>3 DEF Reconcile, Labels, R
<1>8. ASSUME NEW s \in Sessions, Bind(p, s)
      PROVE  TypeInv'
  <2>1. PICK c \in changes, t \in Tasks :
          Serve(p, "listed", [NoCall EXCEPT !.op = "bind", !.owner = c, !.task = t, !.session = s])
    BY <1>8 DEF Bind
  <2> DEFINE k == [NoCall EXCEPT !.op = "bind", !.owner = c, !.task = t, !.session = s]
  <2>2. k \in Calls /\ Knows("listed", k) /\ k.op = "bind"
    BY <1>1 DEF Calls, Ops, NoCall, Knows, Owners
  <2> QED
    BY <1>2, <1>8, <2>1, <2>2 DEF Bind, Labels
<1>9. ASSUME NEW s \in Sessions, Delete(p, s)
      PROVE  TypeInv'
  <2> DEFINE k == [NoCall EXCEPT !.op = "delete", !.session = s, !.seen = Tree(s)]
             m == [NoCall EXCEPT !.op = "delete", !.session = s]
  <2>1. k \in Calls /\ m \in Calls /\ Knows("delete", k) /\ Knows("closure", m) /\ k.op = "delete" /\ m.op = "delete"
    BY Subsets DEF Calls, Ops, NoCall, Knows
  <2>2. Serve(p, "delete", k) \/ Serve(p, "closure", m)
    BY <1>9 DEF Delete
  <2> HIDE DEF k, m
  <2> QED
    BY <1>2, <1>9, <2>1, <2>2 DEF Delete, Labels
<1>10. CASE OpenReview(p)
  <2>1. PICK c \in changes : Serve(p, "spawn", [NoCall EXCEPT !.op = "review", !.owner = c])
    BY <1>10 DEF OpenReview
  <2> DEFINE k == [NoCall EXCEPT !.op = "review", !.owner = c]
  <2>2. k \in Calls /\ Knows("spawn", k) /\ k.op = "review"
    BY <1>1 DEF Calls, Ops, NoCall, Knows, Owners
  <2> QED
    BY <1>2, <1>10, <2>1, <2>2 DEF OpenReview, Labels
<1> QED
  BY <1>3, <1>4, <1>5, <1>6, <1>7, <1>8, <1>9, <1>10 DEF Begin

(* Steps that end a request or take it further and change nothing else.    *)
EndsOnly(p) ==
  \/ SpawnFails(p) \/ CheckList(p) \/ BoundElsewhere(p) \/ MintFails(p)
  \/ MoveFails(p) \/ DeleteFails(p)

LEMMA EndsOnlyTypes ==
  ASSUME NEW p \in Procs, TypeInv, EndsOnly(p)
  PROVE  TypeInv'
<1>1. CallTypes /\ BoundTypes /\ LockTypes /\ Control
  BY TypeParts
<1>2. UNCHANGED <<service, mapping, changes, scaffolded, markers, history>>
  BY DEF EndsOnly, SpawnFails, CheckList, BoundElsewhere, MintFails, MoveFails, DeleteFails,
         Undo, mapping
<1>3. BoundTypes'
  BY <1>1, FaultType DEF BoundTypes, bounds, EndsOnly, SpawnFails, CheckList, BoundElsewhere, MintFails,
         MoveFails, DeleteFails, Undo
<1>4. \/ Ends(p)
      \/ Goto(p, "elsewhere") /\ At(p, "listed") /\ UNCHANGED locks
  BY DEF EndsOnly, SpawnFails, CheckList, BoundElsewhere, MintFails, MoveFails, DeleteFails
<1>5. CallTypes' /\ LockTypes' /\ Control'
  <2>1. CASE Ends(p)
    BY <1>1, <2>1, EndsType, EndsControl
  <2>2. CASE Goto(p, "elsewhere") /\ At(p, "listed") /\ UNCHANGED locks
    <3>1. Knows("elsewhere", call[p])
      BY <1>1, <2>2 DEF Control, Knows, At
    <3> QED
      BY <1>1, <2>2, <3>1, GotoControl DEF Labels, LockTypes, locks
  <2> QED
    BY <1>4, <2>1, <2>2
<1> QED
  BY <1>2, <1>3, <1>5, MovesOnly

Onward(p) ==
  \/ Prime(p) \/ PrimeFails(p) \/ NotElsewhere(p) \/ LinkInstead(p)
  \/ Inherit(p) \/ Walk(p) \/ Select(p) \/ FindClosure(p)
  \/ \E t \in Tasks : SkipTask(p, t) \/ SpawnFor(p, t)

LEMMA OnwardTypes ==
  ASSUME NEW p \in Procs, TypeInv, Onward(p)
  PROVE  TypeInv'
<1>1. CallTypes /\ BoundTypes /\ LockTypes /\ Control /\ ServiceTypes /\ RowTypes
  BY TypeParts
<1>2. call[p] \in Calls /\ Knows(pc[p], call[p])
  BY <1>1 DEF CallTypes, Control
<1>3. UNCHANGED <<service, mapping, changes, scaffolded, markers, locks, history>>
  BY DEF Onward, Prime, PrimeFails, NotElsewhere, LinkInstead, Inherit, Walk, Select, FindClosure,
         SkipTask, SpawnFor
<1>4. BoundTypes'
  BY <1>1, FaultType DEF BoundTypes, bounds, Onward, Prime, PrimeFails, NotElsewhere, LinkInstead, Inherit,
         Walk, Select, FindClosure, SkipTask, SpawnFor
<1>5. LockTypes'
  BY <1>1, <1>3 DEF LockTypes, locks
<1>6. SUFFICES CallTypes' /\ Control'
  BY <1>3, <1>4, <1>5, MovesOnly
<1>7. ASSUME NEW l \in Labels, Goto(p, l), Knows(l, call[p])
      PROVE  CallTypes' /\ Control'
  BY <1>1, <1>3, <1>7, GotoControl
<1>8. ASSUME NEW l \in Labels, NEW k \in Calls, Knows(l, k), k.op = call[p].op,
             pc' = [pc EXCEPT ![p] = l], call' = [call EXCEPT ![p] = k]
      PROVE  CallTypes' /\ Control'
  BY <1>1, <1>3, <1>8, StepControl
<1>9. CASE Prime(p)
  <2> DEFINE l == IF call[p].op = "open" /\ call[p].task # None THEN "mark" ELSE "add"
  <2>1. l \in Labels /\ Knows(l, call[p])
    BY <1>2, <1>9 DEF Prime, At, Knows, Labels, Calls
  <2> QED
    BY <1>7, <1>9, <2>1 DEF Prime
<1>10. CASE PrimeFails(p)
  <2>1. Knows("drop", call[p])
    BY <1>2, <1>10 DEF PrimeFails, At, Knows
  <2> QED
    BY <1>7, <1>10, <2>1 DEF PrimeFails, Labels
<1>11. CASE NotElsewhere(p) \/ LinkInstead(p)
  <2>1. Knows("add", call[p]) /\ Goto(p, "add")
    BY <1>2, <1>11 DEF NotElsewhere, LinkInstead, At, Knows, Owners
  <2> QED
    BY <1>7, <2>1 DEF Labels
<1>12. CASE Inherit(p)
  <2>1. PICK r \in rows : call' = [call EXCEPT ![p].owner = r.owner, ![p].task = r.task]
    BY <1>12 DEF Inherit, RowsOf
  <2> DEFINE k == [call[p] EXCEPT !.owner = r.owner, !.task = r.task]
  <2>2. k \in Calls /\ Knows("add", k) /\ k.op = call[p].op
    BY <1>1, <1>2, <1>12 DEF Inherit, At, Knows, Calls, RowTypes, Rows
  <2>3. call' = [call EXCEPT ![p] = k]
    BY <2>1, <1>1 DEF CallTypes
  <2> QED
    BY <1>8, <1>12, <2>2, <2>3 DEF Inherit, Labels
<1>13. CASE Walk(p)
  <2> DEFINE S == UNION {Tree(s) : s \in call[p].roots} \ call[p].roots
             k == [call[p] EXCEPT !.seen = S]
  <2>1. S \subseteq Sessions
    BY <1>2, Subsets DEF Calls
  <2>2. call' = [call EXCEPT ![p] = k] /\ pc' = [pc EXCEPT ![p] = "select"]
    BY <1>1, <1>13 DEF Walk, CallTypes
  <2> HIDE DEF S
  <2>3. k \in Calls /\ Knows("select", k) /\ k.op = call[p].op
    BY <1>2, <1>13, <2>1 DEF Walk, At, Knows, Calls
  <2> QED
    BY <1>8, <2>2, <2>3 DEF Labels
<1>14. CASE Select(p)
  <2>1. PICK entry \in Entries(call[p].seen) :
          call' = [call EXCEPT ![p].seen = Claims(call[p].owner, call[p].roots, @, entry), ![p].roots = {}]
    BY <1>14 DEF Select
  <2> DEFINE S == Claims(call[p].owner, call[p].roots, call[p].seen, entry)
             k == [call[p] EXCEPT !.seen = S, !.roots = {}]
  <2>2. S \subseteq Sessions
    BY <1>2 DEF Calls, Claims
  <2>3. call' = [call EXCEPT ![p] = k] /\ pc' = [pc EXCEPT ![p] = "merge"]
    BY <1>1, <1>14, <2>1 DEF Select, CallTypes
  <2> HIDE DEF S
  <2>4. k \in Calls /\ Knows("merge", k) /\ k.op = call[p].op
    BY <1>2, <1>14, <2>2 DEF Select, At, Knows, Calls
  <2> QED
    BY <1>8, <2>3, <2>4 DEF Labels
<1>15. CASE FindClosure(p)
  <2> DEFINE S == Closure(call[p].session)
             k == [call[p] EXCEPT !.seen = S]
  <2>1. S \subseteq Sessions
    BY <1>2, <1>15, Subsets DEF FindClosure, At, Knows
  <2>2. call' = [call EXCEPT ![p] = k] /\ pc' = [pc EXCEPT ![p] = "cleanup"]
    BY <1>1, <1>15 DEF FindClosure, CallTypes
  <2> HIDE DEF S
  <2>3. k \in Calls /\ Knows("cleanup", k) /\ k.op = call[p].op
    BY <1>2, <1>15, <2>1 DEF FindClosure, At, Knows, Calls
  <2> QED
    BY <1>8, <2>2, <2>3 DEF Labels
<1>16. ASSUME NEW t \in Tasks, SkipTask(p, t)
       PROVE  CallTypes' /\ Control'
  <2> DEFINE k == [call[p] EXCEPT !.todo = @ \ {t}]
  <2>1. call' = [call EXCEPT ![p] = k] /\ pc' = [pc EXCEPT ![p] = "node"]
    BY <1>1, <1>16 DEF SkipTask, Considered, CallTypes, At
  <2>2. k \in Calls /\ Knows("node", k) /\ k.op = call[p].op
    BY <1>2, <1>16 DEF SkipTask, At, Knows, Calls
  <2> QED
    BY <1>8, <2>1, <2>2 DEF Labels
<1>17. ASSUME NEW t \in Tasks, SpawnFor(p, t)
       PROVE  CallTypes' /\ Control'
  <2> DEFINE k == [call[p] EXCEPT !.todo = @ \ {t}, !.task = t]
  <2>1. call' = [call EXCEPT ![p] = k] /\ pc' = [pc EXCEPT ![p] = "spawn"]
    BY <1>1, <1>17 DEF SpawnFor, CallTypes
  <2>2. k \in Calls /\ Knows("spawn", k) /\ k.op = call[p].op
    BY <1>2, <1>17 DEF SpawnFor, At, Knows, Calls, Owners
  <2> QED
    BY <1>8, <2>1, <2>2 DEF Labels
<1> QED
  BY <1>9, <1>10, <1>11, <1>12, <1>13, <1>14, <1>15, <1>16, <1>17 DEF Onward

(* Steps that take or give back a mutex.                                   *)
LEMMA MutexTypes ==
  ASSUME NEW p \in Procs, TypeInv, Sweep(p) \/ EndSweep(p) \/ \E s \in Sessions : Scaffold(p, s)
  PROVE  TypeInv'
<1>1. CallTypes /\ BoundTypes /\ LockTypes /\ Control /\ changes \subseteq Changes /\ rows \subseteq Rows
  BY TypeParts DEF ChangeTypes, RowTypes
<1>2. call[p] \in Calls /\ Knows(pc[p], call[p]) /\ p # None
  BY <1>1, MappingAssumption DEF CallTypes, Control
<1>3. CASE Sweep(p)
  <2>1. PICK c \in changes :
          Serve(p, "node", [NoCall EXCEPT !.op = "auto", !.owner = c, !.todo = Tasks,
                              !.bound = {r.task : r \in BoundTo(c)} \ {None}])
    BY <1>3 DEF Sweep
  <2> DEFINE B == {r.task : r \in BoundTo(c)} \ {None}
             k == [NoCall EXCEPT !.op = "auto", !.owner = c, !.todo = Tasks, !.bound = B]
  <2>2. B \subseteq Tasks
    BY <1>1 DEF BoundTo, Rows
  <2> HIDE DEF B
  <2>3. k \in Calls /\ Knows("node", k) /\ k.op = "auto"
    BY <1>1, <2>2 DEF Calls, Ops, NoCall, Knows, Owners
  <2>4. pc' = [pc EXCEPT ![p] = "node"] /\ call' = [call EXCEPT ![p] = k]
    BY <2>1 DEF Serve, B
  <2> HIDE DEF k
  <2>5. CallTypes'
    BY <1>1, <2>3, <2>4 DEF CallTypes, Labels
  <2>6. BoundTypes'
    <3>1. calls' = calls + 1 /\ UNCHANGED <<faults, restarts>>
      BY <2>1 DEF Serve
    <3> QED
      BY <1>1, <3>1 DEF BoundTypes
  <2>7. LockTypes'
    BY <1>1, <1>3 DEF Sweep, LockTypes
  <2>8. \A q \in Procs : Holds(q)'
    <3> SUFFICES ASSUME NEW q \in Procs PROVE Holds(q)'
      OBVIOUS
    <3>1. CASE q = p
      BY <1>1, <1>3, <2>3, <2>4, <3>1 DEF Sweep, Holds, CallTypes
    <3>2. CASE q # p
      BY <1>1, <1>3, <2>4, <3>2, MappingAssumption DEF Sweep, Control, Holds, CallTypes
    <3> QED
      BY <3>1, <3>2
  <2>9. \A q \in Procs : Knows(pc[q], call[q])'
    BY <1>1, <2>3, <2>4 DEF Control, CallTypes
  <2> QED
    BY <1>3, <2>5, <2>6, <2>7, <2>8, <2>9, MovesOnly DEF Sweep, Control
<1>4. CASE EndSweep(p)
  <2>1. CallTypes' /\ BoundTypes' /\ LockTypes'
    BY <1>1, <1>4, NoCallType DEF EndSweep, CallTypes, BoundTypes, LockTypes, bounds, Labels
  <2>2. call[p].op = "auto" /\ sweeper = p
    BY <1>1, <1>2, <1>4 DEF EndSweep, At, Knows, Control, Holds
  <2>3. \A q \in Procs : Holds(q)'
    <3> SUFFICES ASSUME NEW q \in Procs PROVE Holds(q)'
      OBVIOUS
    <3>1. CASE q = p
      BY <1>1, <1>4, <3>1 DEF EndSweep, Holds, CallTypes, NoCall
    <3>2. CASE q # p
      BY <1>1, <1>4, <2>2, <3>2 DEF EndSweep, Control, Holds, CallTypes
    <3> QED
      BY <3>1, <3>2
  <2>4. \A q \in Procs : Knows(pc[q], call[q])'
    <3>1. Knows("idle", NoCall)
      BY DEF Knows, NoCall
    <3> QED
      BY <1>1, <1>4, <3>1 DEF EndSweep, Control, CallTypes
  <2> QED
    BY <1>4, <2>1, <2>3, <2>4, MovesOnly DEF EndSweep, Control
<1>5. ASSUME NEW s \in Sessions, Scaffold(p, s)
      PROVE  TypeInv'
  <2> DEFINE k == [NoCall EXCEPT !.op = "scaffold", !.session = s]
  <2>1. k \in Calls /\ Knows("mint", k) /\ k.op = "scaffold"
    BY DEF Calls, Ops, NoCall, Knows
  <2>2. pc' = [pc EXCEPT ![p] = "mint"] /\ call' = [call EXCEPT ![p] = k]
    BY <1>5 DEF Scaffold, Serve
  <2>3. BoundTypes'
    <3>1. calls' = calls + 1 /\ UNCHANGED <<faults, restarts>>
      BY <1>5 DEF Scaffold, Serve
    <3> QED
      BY <1>1, <3>1 DEF BoundTypes
  <2> HIDE DEF k
  <2>4. CallTypes' /\ LockTypes'
    BY <1>1, <1>5, <2>1, <2>2 DEF Scaffold, CallTypes, LockTypes, Labels
  <2>5. \A q \in Procs : Holds(q)'
    <3> SUFFICES ASSUME NEW q \in Procs PROVE Holds(q)'
      OBVIOUS
    <3>1. CASE q = p
      BY <1>1, <1>5, <2>1, <2>2, <3>1 DEF Scaffold, Holds, CallTypes
    <3>2. CASE q # p
      BY <1>1, <1>5, <2>2, <3>2, MappingAssumption DEF Scaffold, Control, Holds, CallTypes
    <3> QED
      BY <3>1, <3>2
  <2>6. \A q \in Procs : Knows(pc[q], call[q])'
    BY <1>1, <2>1, <2>2 DEF Control, CallTypes
  <2> QED
    BY <1>5, <2>3, <2>4, <2>5, <2>6, MovesOnly DEF Scaffold, Control
<1> QED
  BY <1>3, <1>4, <1>5

(* Steps that write the marks.                                             *)
LEMMA MarkTypesKept ==
  ASSUME NEW p \in Procs, TypeInv, MarkOpened(p) \/ MarkSpawned(p) \/ \E t \in Tasks : MarkBound(p, t)
  PROVE  TypeInv'
<1>1. /\ CallTypes /\ BoundTypes /\ LockTypes /\ Control /\ MarkTypes
      /\ ServiceTypes /\ RowTypes /\ ChangeTypes /\ HistoryTypes
  BY TypeParts
<1>2. call[p] \in Calls /\ Knows(pc[p], call[p]) /\ faults \in Nat
  BY <1>1 DEF CallTypes, Control, BoundTypes
<1>3. ServiceTypes' /\ RowTypes' /\ ChangeTypes' /\ HistoryTypes'
  <2>1. UNCHANGED <<service, mapping, changes, scaffolded, history>>
    BY DEF MarkOpened, MarkSpawned, MarkBound
  <2> QED
    BY <1>1, <2>1 DEF ServiceTypes, RowTypes, ChangeTypes, HistoryTypes, service, mapping, history
<1>4. MarkTypes' /\ faults' \in Nat
  <2>1. CASE MarkOpened(p)
    <3>1. call[p].owner \in Changes /\ call[p].task \in Tasks
      BY <1>2, <2>1, MappingAssumption DEF MarkOpened, At, Knows
    <3> QED
      BY <1>1, <1>2, <2>1, <3>1, MarkType DEF MarkOpened
  <2>2. CASE MarkSpawned(p)
    <3>1. call[p].owner \in Changes /\ call[p].task \in Tasks
      BY <1>2, <2>2 DEF MarkSpawned, At, Knows
    <3> QED
      BY <1>1, <1>2, <2>2, <3>1, MarkType DEF MarkSpawned
  <2>3. ASSUME NEW t \in Tasks, MarkBound(p, t)
        PROVE  MarkTypes' /\ faults' \in Nat
    <3>1. call[p].owner \in Changes
      BY <1>2, <2>3 DEF MarkBound, At, Knows
    <3> QED
      BY <1>1, <1>2, <2>3, <3>1, MarkType DEF MarkBound
  <2> QED
    BY <2>1, <2>2, <2>3
<1>5. BoundTypes'
  BY <1>1, <1>4 DEF BoundTypes, MarkOpened, MarkSpawned, MarkBound
<1>6. CallTypes' /\ LockTypes' /\ Control'
  <2>1. CASE MarkOpened(p)
    <3>1. Knows("add", call[p])
      BY <1>2, <2>1 DEF MarkOpened, At, Knows
    <3> QED
      BY <1>1, <2>1, <3>1, GotoControl DEF MarkOpened, Labels, LockTypes, locks
  <2>2. CASE MarkSpawned(p)
    BY <1>1, <2>2, EndsType, EndsControl DEF MarkSpawned
  <2>3. ASSUME NEW t \in Tasks, MarkBound(p, t)
        PROVE  CallTypes' /\ LockTypes' /\ Control'
    <3> DEFINE k == [call[p] EXCEPT !.todo = @ \ {t}]
    <3>1. call' = [call EXCEPT ![p] = k] /\ pc' = [pc EXCEPT ![p] = "node"] /\ UNCHANGED locks
      BY <1>1, <2>3 DEF MarkBound, Considered, CallTypes, At
    <3>2. k \in Calls /\ Knows("node", k) /\ k.op = call[p].op
      BY <1>2, <2>3 DEF MarkBound, At, Knows, Calls
    <3> HIDE DEF k
    <3>3. CallTypes' /\ Control'
      BY <1>1, <3>1, <3>2, StepControl DEF Labels
    <3> QED
      BY <1>1, <3>1, <3>3 DEF LockTypes, locks
  <2> QED
    BY <2>1, <2>2, <2>3
<1> QED
  BY <1>3, <1>4, <1>5, <1>6, TypePartsNext

(* Steps that write the mapping.                                           *)
LEMMA RowsNextType ==
  ASSUME NEW p \in Procs, TypeInv
  PROVE  /\ At(p, "add") => RowOf(p) \in Rows
         /\ At(p, "merge") => NewRows(p) \subseteq Rows
         /\ At(p, "move") => \A r \in rows : [r EXCEPT !.owner = call[p].owner] \in Rows
<1>1. CallTypes /\ Control /\ ServiceTypes /\ RowTypes
  BY TypeParts
<1>2. call[p] \in Calls /\ Knows(pc[p], call[p])
  BY <1>1 DEF CallTypes, Control
<1>3. ASSUME At(p, "add") PROVE RowOf(p) \in Rows
  <2>1. call[p].session \in Sessions /\ call[p].owner \in Owners
    BY <1>2, <1>3 DEF At, Knows
  <2> QED
    BY <1>1, <2>1, RowOfType DEF ServiceTypes
<1>4. ASSUME At(p, "merge") PROVE NewRows(p) \subseteq Rows
  <2>1. call[p].owner \in Owners /\ call[p].seen \subseteq Sessions
    BY <1>2, <1>4 DEF At, Knows, Calls, Owners
  <2> QED
    BY <1>1, <2>1 DEF NewRows, Rows, ServiceTypes
<1>5. ASSUME At(p, "move"), NEW r \in rows PROVE [r EXCEPT !.owner = call[p].owner] \in Rows
  BY <1>1, <1>2, <1>5 DEF At, Knows, RowTypes, Rows, Owners
<1> QED
  BY <1>3, <1>4, <1>5

Writes(p) == Add(p) \/ Move(p) \/ Merge(p) \/ MergeFails(p) \/ Cleanup(p) \/ CleanupFails(p)

LEMMA WritesTypes ==
  ASSUME NEW p \in Procs, TypeInv, Writes(p)
  PROVE  TypeInv'
<1>1. /\ CallTypes /\ BoundTypes /\ LockTypes /\ Control /\ MarkTypes
      /\ ServiceTypes /\ RowTypes /\ ChangeTypes /\ HistoryTypes
  BY TypeParts
<1>2. call[p] \in Calls /\ Knows(pc[p], call[p])
  BY <1>1 DEF CallTypes, Control
<1>3. ServiceTypes' /\ ChangeTypes' /\ MarkTypes'
  <2>1. UNCHANGED <<service, changes, scaffolded, markers>>
    BY DEF Writes, Add, Move, Merge, MergeFails, Cleanup, CleanupFails
  <2> QED
    BY <1>1, <2>1 DEF ServiceTypes, ChangeTypes, MarkTypes, service, markers
<1>4. RowTypes'
  <2>1. CASE Add(p)
    BY <1>1, <2>1, RowsNextType, SaveType DEF Add, RowTypes
  <2>2. CASE Move(p)
    <3>1. PICK r \in rows : Save((rows \ {r}) \cup {[r EXCEPT !.owner = call[p].owner]})
      BY <2>2 DEF Move, InBucket, RowsOf
    <3> DEFINE m == [r EXCEPT !.owner = call[p].owner]
    <3>2. m \in Rows
      BY <2>2, RowsNextType DEF Move
    <3> HIDE DEF m
    <3>3. (rows \ {r}) \cup {m} \in SUBSET Rows
      BY <1>1, <3>2 DEF RowTypes
    <3> QED
      BY <3>1, <3>3, SaveType DEF m
  <2>3. CASE Merge(p)
    <3>1. rows \cup NewRows(p) \in SUBSET Rows
      BY <1>1, <2>3, RowsNextType DEF Merge, RowTypes
    <3> QED
      BY <1>1, <2>3, <3>1, SaveType DEF Merge, RowTypes, mapping
  <2>4. CASE MergeFails(p)
    BY <1>1, <2>4, RowsNextType DEF MergeFails, RowTypes
  <2>5. CASE Cleanup(p)
    <3>1. rows \ Doomed(p) \in SUBSET Rows
      BY <1>1 DEF RowTypes
    <3> QED
      BY <1>1, <2>5, <3>1, SaveType DEF Cleanup, RowTypes, mapping
  <2>6. CASE CleanupFails(p)
    BY <1>1, <2>6 DEF CleanupFails, Undo, RowTypes, mapping
  <2> QED
    BY <2>1, <2>2, <2>3, <2>4, <2>5, <2>6 DEF Writes
<1>5. BoundTypes'
  BY <1>1 DEF BoundTypes, Writes, Add, Move, Merge, MergeFails, Cleanup, CleanupFails, Save, Undo, Fault
<1>6. HistoryTypes'
  <2>1. CASE Add(p)
    <3>1. CASE call[p].op = "auto"
      <4>1. call[p].owner \in Changes /\ call[p].task \in Tasks /\ call[p].session \in Sessions
        BY <1>2, <2>1, <3>1 DEF Add, At, Knows
      <4> QED
        BY <1>1, <2>1, <3>1, <4>1 DEF Add, HistoryTypes
    <3>2. CASE call[p].op # "auto"
      BY <1>1, <2>1, <3>2 DEF Add, HistoryTypes
    <3> QED
      BY <3>1, <3>2
  <2>2. CASE CleanupFails(p)
    BY <1>1, <1>2, <2>2 DEF CleanupFails, HistoryTypes, Calls
  <2>3. CASE ~Add(p) /\ ~CleanupFails(p)
    <3>1. UNCHANGED history
      BY <2>3 DEF Writes, Move, Merge, MergeFails, Cleanup
    <3> QED
      BY <1>1, <3>1 DEF HistoryTypes, history
  <2> QED
    BY <2>1, <2>2, <2>3
<1>7. CallTypes' /\ LockTypes' /\ Control'
  <2>1. CASE Ends(p)
    BY <1>1, <2>1, EndsType, EndsControl
  <2>2. CASE At(p, "add") /\ call[p].op = "auto" /\ Goto(p, "marked") /\ UNCHANGED locks
    <3>1. Knows("marked", call[p])
      BY <1>2, <2>2 DEF At, Knows
    <3> QED
      BY <1>1, <2>2, <3>1, GotoControl DEF Labels, LockTypes, locks
  <2> QED
    BY <2>1, <2>2 DEF Writes, Add, Move, Merge, MergeFails, Cleanup, CleanupFails
<1> QED
  BY <1>3, <1>4, <1>5, <1>6, <1>7, TypePartsNext

(* Steps of opencode, and what remains.                                    *)
Services(p) ==
  \/ Drop(p) \/ DropFails(p) \/ AddFails(p) \/ DeleteTree(p) \/ ForkOfUnmapped(p)
  \/ \E s \in Sessions : Spawn(p, s)
  \/ \E s, d \in Sessions : Fork(p, s, d)
  \/ \E c \in Changes : Mint(p, c)

LEMMA ServicesTypes ==
  ASSUME NEW p \in Procs, TypeInv, Services(p)
  PROVE  TypeInv'
<1>1. /\ CallTypes /\ BoundTypes /\ LockTypes /\ Control /\ MarkTypes
      /\ ServiceTypes /\ RowTypes /\ ChangeTypes /\ HistoryTypes
  BY TypeParts
<1>2. call[p] \in Calls /\ Knows(pc[p], call[p])
  BY <1>1 DEF CallTypes, Control
<1>3. RowTypes' /\ MarkTypes'
  <2>1. UNCHANGED <<mapping, markers>>
    BY DEF Services, Drop, DropFails, AddFails, DeleteTree, ForkOfUnmapped, Spawn, Fork, Mint,
           Undo, mapping
  <2> QED
    BY <1>1, <2>1 DEF RowTypes, MarkTypes, mapping, markers
<1>4. ASSUME ServiceTypes', ChangeTypes', HistoryTypes', BoundTypes', CallTypes', LockTypes', Control'
      PROVE  TypeInv'
  BY <1>3, <1>4, TypePartsNext
<1>5. ASSUME NEW D \in SUBSET Sessions, Deleted(D), UNCHANGED <<parent, names>>
      PROVE  ServiceTypes'
  BY <1>1, <1>5 DEF ServiceTypes, Deleted
<1>6. CASE Drop(p)
  <2>1. call[p].session \in Sessions /\ Tree(call[p].session) \subseteq Sessions
    BY <1>2, <1>6, Subsets DEF Drop, At, Knows
  <2>2. ServiceTypes'
    BY <1>5, <1>6, <2>1 DEF Drop
  <2>3. ChangeTypes' /\ HistoryTypes' /\ BoundTypes'
    BY <1>1, <1>6, <2>1 DEF Drop, ChangeTypes, HistoryTypes, BoundTypes, bounds
  <2>4. CallTypes' /\ LockTypes' /\ Control'
    BY <1>1, <1>6, EndsType, EndsControl DEF Drop
  <2> QED
    BY <1>4, <2>2, <2>3, <2>4
<1>7. CASE DropFails(p) \/ ForkOfUnmapped(p)
  <2>1. call[p].session \in Sessions
    BY <1>2, <1>7 DEF DropFails, ForkOfUnmapped, At, Knows
  <2>2. ServiceTypes' /\ ChangeTypes' /\ BoundTypes'
    BY <1>1, <1>7 DEF DropFails, ForkOfUnmapped, ServiceTypes, ChangeTypes, BoundTypes, bounds, service
  <2>3. HistoryTypes'
    BY <1>1, <1>7, <2>1 DEF DropFails, ForkOfUnmapped, HistoryTypes
  <2>4. CallTypes' /\ LockTypes' /\ Control'
    BY <1>1, <1>7, EndsType, EndsControl DEF DropFails, ForkOfUnmapped
  <2> QED
    BY <1>4, <2>2, <2>3, <2>4
<1>8. CASE DeleteTree(p)
  <2> DEFINE D == Tree(call[p].session)
  <2>1. call[p].session \in Sessions /\ D \subseteq Sessions
    BY <1>2, <1>8, Subsets DEF DeleteTree, At, Knows
  <2> HIDE DEF D
  <2>2. /\ Deleted(D)
        /\ stale' = stale \cup (D \cap Aware(p)) \cup (D \ call[p].seen)
        /\ \/ Goto(p, "cleanup") /\ UNCHANGED <<locks, cut, faults>>
           \/ Ends(p) /\ cut' = cut \cup D /\ Fault
        /\ UNCHANGED <<parent, names, changes, scaffolded, calls, restarts,
                       made, adrift, released, minted, autos, lapsed>>
    BY <1>8 DEF DeleteTree, D
  <2>3. ServiceTypes'
    BY <1>5, <2>1, <2>2
  <2>4. ChangeTypes'
    BY <1>1, <2>2 DEF ChangeTypes
  <2>5. BoundTypes'
    BY <1>1, <2>2, FaultType DEF BoundTypes
  <2>6. HistoryTypes'
    BY <1>1, <2>1, <2>2 DEF HistoryTypes
  <2>7. CallTypes' /\ LockTypes' /\ Control'
    <3>1. CASE Ends(p)
      BY <1>1, <3>1, EndsType, EndsControl
    <3>2. CASE Goto(p, "cleanup") /\ UNCHANGED locks
      <4>1. Knows("cleanup", call[p])
        BY <1>2, <1>8 DEF DeleteTree, At, Knows
      <4> QED
        BY <1>1, <3>2, <4>1, GotoControl DEF Labels, LockTypes, locks
    <3> QED
      BY <2>2, <3>1, <3>2
  <2> QED
    BY <1>4, <2>3, <2>4, <2>5, <2>6, <2>7
<1>9. ASSUME NEW s \in Sessions, Spawn(p, s)
      PROVE  TypeInv'
  <2>1. ServiceTypes' /\ ChangeTypes' /\ HistoryTypes' /\ BoundTypes' /\ LockTypes'
    BY <1>1, <1>9 DEF Spawn, ServiceTypes, ChangeTypes, HistoryTypes, BoundTypes, LockTypes, bounds, locks
  <2> DEFINE l == IF call[p].op = "commit" THEN "add" ELSE "prime"
             k == [call[p] EXCEPT !.session = s]
  <2>2. l \in Labels /\ k \in Calls /\ k.op = call[p].op
    BY <1>2 DEF Labels, Calls
  <2>3. Knows(l, k)
    BY <1>2, <1>9 DEF Spawn, At, Knows, Calls
  <2>4. pc' = [pc EXCEPT ![p] = l] /\ call' = [call EXCEPT ![p] = k] /\ UNCHANGED locks
    BY <1>1, <1>9 DEF Spawn, CallTypes
  <2> HIDE DEF l, k
  <2>5. CallTypes' /\ Control'
    BY <1>1, <2>2, <2>3, <2>4, StepControl
  <2> QED
    BY <1>4, <2>1, <2>5
<1>10. ASSUME NEW s \in Sessions, NEW d \in Sessions, Fork(p, s, d)
       PROVE  TypeInv'
  <2>1. ServiceTypes' /\ ChangeTypes' /\ HistoryTypes' /\ LockTypes'
    BY <1>1, <1>10 DEF Fork, ServiceTypes, ChangeTypes, HistoryTypes, LockTypes, locks
  <2> DEFINE k == [NoCall EXCEPT !.op = "fork", !.session = d]
  <2>2. k \in Calls /\ Knows("look", k) /\ k.op = "fork"
    BY DEF Calls, Ops, NoCall, Knows
  <2>3. Serve(p, "look", k) /\ UNCHANGED locks
    BY <1>10 DEF Fork
  <2> HIDE DEF k
  <2>4. CallTypes' /\ Control' /\ BoundTypes'
    BY <1>1, <2>2, <2>3, ServeControl DEF Labels
  <2> QED
    BY <1>4, <2>1, <2>4
<1>11. ASSUME NEW c \in Changes, Mint(p, c)
       PROVE  TypeInv'
  <2>1. call[p].op = "scaffold" => call[p].session \in Sessions
    BY <1>2 DEF Knows
  <2>2. ServiceTypes' /\ BoundTypes' /\ LockTypes'
    BY <1>1, <1>11 DEF Mint, ServiceTypes, BoundTypes, LockTypes, service, bounds, locks
  <2>3. ChangeTypes' /\ HistoryTypes'
    BY <1>1, <1>11, <2>1 DEF Mint, ChangeTypes, HistoryTypes
  <2> DEFINE l == IF call[p].op = "scaffold" THEN "move" ELSE "spawn"
             k == [call[p] EXCEPT !.owner = c]
  <2>4. l \in Labels /\ k \in Calls /\ k.op = call[p].op
    BY <1>2 DEF Labels, Calls, Owners
  <2>5. Knows(l, k)
    BY <1>2, <1>11 DEF Mint, At, Knows, Calls, Owners
  <2>6. pc' = [pc EXCEPT ![p] = l] /\ call' = [call EXCEPT ![p] = k] /\ UNCHANGED locks
    BY <1>1, <1>11 DEF Mint, CallTypes
  <2> HIDE DEF l, k
  <2>7. CallTypes' /\ Control'
    BY <1>1, <2>4, <2>5, <2>6, StepControl
  <2> QED
    BY <1>4, <2>2, <2>3, <2>7
<1>12. CASE AddFails(p)
  <2>1. ServiceTypes' /\ ChangeTypes'
    BY <1>1, <1>12 DEF AddFails, ServiceTypes, ChangeTypes, service
  <2>2. BoundTypes'
    BY <1>1, <1>12, FaultType DEF AddFails, Undo, BoundTypes
  <2>3. HistoryTypes'
    <3>1. call[p].session \in Sessions
      BY <1>2, <1>12 DEF AddFails, At, Knows
    <3> QED
      BY <1>1, <1>12, <3>1 DEF AddFails, HistoryTypes
  <2>4. CallTypes' /\ LockTypes' /\ Control'
    <3>1. CASE Ends(p)
      BY <1>1, <3>1, EndsType, EndsControl
    <3>2. CASE Goto(p, "drop") /\ call[p].op \notin {"bind", "scaffold", "review"} /\ UNCHANGED locks
      <4>1. Knows("drop", call[p])
        BY <1>2, <1>12, <3>2 DEF AddFails, Knows, At
      <4> QED
        BY <1>1, <3>2, <4>1, GotoControl DEF Labels, LockTypes, locks
    <3> QED
      BY <1>12, <3>1, <3>2 DEF AddFails
  <2> QED
    BY <1>4, <2>1, <2>2, <2>3, <2>4
<1> QED
  BY <1>6, <1>7, <1>8, <1>9, <1>10, <1>11, <1>12 DEF Services

(* Steps of no request.                                                    *)
LEMMA OutsideTypes ==
  ASSUME TypeInv, \/ \E s \in Sessions : Unlink(s)
                  \/ \E s, d \in Sessions : Delegate(s, d)
                  \/ Restart
  PROVE  TypeInv'
<1>1. /\ CallTypes /\ BoundTypes /\ LockTypes /\ Control /\ MarkTypes
      /\ ServiceTypes /\ RowTypes /\ ChangeTypes /\ HistoryTypes
  BY TypeParts
<1>2. ASSUME UNCHANGED <<locks, pc, call>>
      PROVE  CallTypes' /\ LockTypes' /\ Control'
  BY <1>1, <1>2 DEF CallTypes, LockTypes, Control, Holds, locks
<1>3. ASSUME NEW s \in Sessions, Unlink(s)
      PROVE  TypeInv'
  <2>1. PICK new \in SUBSET rows : Save(new)
    BY <1>3 DEF Unlink
  <2>2. RowTypes' /\ faults' = faults
    <3>1. new \in SUBSET Rows
      BY <1>1 DEF RowTypes
    <3> QED
      BY <2>1, <3>1, SaveType DEF Save
  <2>3. ServiceTypes' /\ ChangeTypes' /\ MarkTypes' /\ BoundTypes' /\ HistoryTypes'
    BY <1>1, <1>3, <2>2 DEF Unlink, ServiceTypes, ChangeTypes, MarkTypes, BoundTypes, HistoryTypes,
                           service, markers
  <2> QED
    BY <1>2, <1>3, <2>2, <2>3, TypePartsNext DEF Unlink
<1>4. ASSUME NEW s \in Sessions, NEW d \in Sessions, Delegate(s, d)
      PROVE  TypeInv'
  <2>1. ServiceTypes'
    BY <1>1, <1>4 DEF Delegate, ServiceTypes
  <2>2. RowTypes' /\ ChangeTypes' /\ MarkTypes' /\ BoundTypes' /\ HistoryTypes'
    BY <1>1, <1>4 DEF Delegate, RowTypes, ChangeTypes, MarkTypes, BoundTypes, HistoryTypes,
                      mapping, markers, history
  <2> QED
    BY <1>2, <1>4, <2>1, <2>2, TypePartsNext DEF Delegate
<1>5. CASE Restart
  <2>1. ServiceTypes' /\ RowTypes' /\ ChangeTypes' /\ MarkTypes' /\ BoundTypes' /\ LockTypes'
    <3>1. ServiceTypes'
      BY <1>1, <1>5 DEF Restart, ServiceTypes, service
    <3>2. RowTypes' /\ MarkTypes'
      BY <1>1, <1>5 DEF Restart, RowTypes, MarkTypes
    <3>3. ChangeTypes'
      BY <1>1, <1>5 DEF Restart, ChangeTypes
    <3>4. BoundTypes' /\ LockTypes'
      BY <1>1, <1>5 DEF Restart, BoundTypes, LockTypes
    <3> QED
      BY <3>1, <3>2, <3>3, <3>4
  <2>2. UNION {Holding(p) : p \in Procs} \subseteq Sessions
    BY <1>1 DEF Holding, Control, Knows
  <2>3. UNION {call[p].seen : p \in {p \in Procs : At(p, "cleanup")}} \subseteq Sessions
    BY <1>1 DEF CallTypes, Calls
  <2>4. Unmarked \subseteq Changes \X Tasks
    BY <1>1 DEF Unmarked, At, Control, Knows
  <2>5. HistoryTypes'
    BY <1>1, <1>5, <2>2, <2>3, <2>4 DEF Restart, HistoryTypes, MarkTypes
  <2>6. CallTypes'
    BY <1>5, NoCallType DEF Restart, CallTypes, Labels
  <2>7. Control'
    BY <1>5 DEF Restart, Control, Knows, Holds, NoCall
  <2> QED
    BY <2>1, <2>5, <2>6, <2>7, TypePartsNext
<1> QED
  BY <1>3, <1>4, <1>5

(* Steps that change no session, no entry and no history.                  *)
Quiet(p) ==
  \/ Begin(p) \/ EndsOnly(p) \/ Onward(p)
  \/ Sweep(p) \/ EndSweep(p) \/ \E s \in Sessions : Scaffold(p, s)
  \/ MarkOpened(p) \/ MarkSpawned(p) \/ \E t \in Tasks : MarkBound(p, t)

LEMMA QuietFrame ==
  ASSUME NEW p \in Procs, Quiet(p)
  PROVE  UNCHANGED <<service, mapping, changes, scaffolded, history>>
<1>1. CASE Begin(p)
  BY <1>1 DEF Begin, Open, Discuss, OpenCommit, OpenReview, Handoff, Reconcile, Bind, Delete
<1>2. CASE EndsOnly(p)
  BY <1>2 DEF EndsOnly, SpawnFails, CheckList, BoundElsewhere, MintFails, MoveFails, DeleteFails, Undo
<1>3. CASE Onward(p)
  BY <1>3 DEF Onward, Prime, PrimeFails, NotElsewhere, LinkInstead, Inherit, Walk, Select, FindClosure,
              SkipTask, SpawnFor
<1>4. CASE Quiet(p) /\ ~Begin(p) /\ ~EndsOnly(p) /\ ~Onward(p)
  BY <1>4 DEF Quiet, Sweep, EndSweep, Scaffold, MarkOpened, MarkSpawned, MarkBound
<1> QED
  BY <1>1, <1>2, <1>3, <1>4

LEMMA StepCases ==
  ASSUME NEW p \in Procs, Step(p)
  PROVE  \/ Begin(p) \/ EndsOnly(p) \/ Onward(p) \/ Writes(p) \/ Services(p)
         \/ Sweep(p) \/ EndSweep(p) \/ \E s \in Sessions : Scaffold(p, s)
         \/ MarkOpened(p) \/ MarkSpawned(p) \/ \E t \in Tasks : MarkBound(p, t)
BY DEF Step, Begin, EndsOnly, Onward, Writes, Services

LEMMA StepKinds ==
  ASSUME NEW p \in Procs, Step(p)
  PROVE  Quiet(p) \/ Writes(p) \/ Services(p)
BY StepCases DEF Quiet

LEMMA NextTypes == TypeInv /\ [Next]_vars => TypeInv'
<1> SUFFICES ASSUME TypeInv, [Next]_vars PROVE TypeInv'
  OBVIOUS
<1>1. ASSUME NEW p \in Procs, Step(p) PROVE TypeInv'
  BY <1>1, StepCases, BeginTypes, EndsOnlyTypes, OnwardTypes, WritesTypes, ServicesTypes,
     MutexTypes, MarkTypesKept
<1>2. CASE UNCHANGED vars
  BY <1>2 DEF vars, service, mapping, markers, locks, bounds, history, TypeInv, TypeOK, Control, Holds
<1> QED
  BY <1>1, <1>2, OutsideTypes DEF Next

(* Every variable keeps its type, and a request knows at every step what    *)
(* the step needs: SessionMapping's TypeOK.                                 *)
THEOREM MappingTypeCorrect == Spec => []TypeOK
<1>1. TypeInv => TypeOK
  BY DEF TypeInv
<1> QED
  BY <1>1, InitTypes, NextTypes, PTL DEF Spec

-----------------------------------------------------------------------------
(* What is saved                                                           *)

LEMMA NextSaved == MemoryIsSaved /\ [Next]_vars => MemoryIsSaved'
<1> SUFFICES ASSUME MemoryIsSaved, [Next]_vars PROVE MemoryIsSaved'
  OBVIOUS
<1>1. ASSUME UNCHANGED mapping PROVE MemoryIsSaved'
  BY <1>1 DEF MemoryIsSaved, mapping
<1>2. ASSUME NEW p \in Procs, Step(p) PROVE MemoryIsSaved'
  <2>1. CASE Quiet(p)
    BY <1>1, <2>1, QuietFrame
  <2>2. CASE Services(p)
    <3>1. UNCHANGED mapping
      BY <2>2 DEF Services, Drop, DropFails, AddFails, Undo, DeleteTree, ForkOfUnmapped, Spawn, Fork, Mint
    <3> QED
      BY <1>1, <3>1
  <2>3. CASE Writes(p)
    <3>1. UNCHANGED mapping \/ rows' = disk' \/ ahead'
      BY <2>3 DEF Writes, Add, Move, Merge, MergeFails, Cleanup, CleanupFails, Save, Undo
    <3> QED
      BY <1>1, <3>1 DEF MemoryIsSaved
  <2> QED
    BY <1>2, <2>1, <2>2, <2>3, StepKinds
<1>3. ASSUME NEW s \in Sessions, Unlink(s) PROVE MemoryIsSaved'
  BY <1>3 DEF Unlink, Save, MemoryIsSaved
<1>4. CASE Restart
  BY <1>4 DEF Restart, MemoryIsSaved
<1>5. ASSUME NEW s \in Sessions, NEW d \in Sessions, Delegate(s, d) PROVE MemoryIsSaved'
  BY <1>1, <1>5 DEF Delegate
<1> QED
  BY <1>1, <1>2, <1>3, <1>4, <1>5 DEF Next, vars

(* sessions.json holds what memory holds, whichever save failed, but for a *)
(* merge kept in memory: SessionMapping's MemoryIsSaved.                    *)
THEOREM MemoryAndDiskAgree == Spec => []MemoryIsSaved
<1>1. Init => MemoryIsSaved
  BY DEF Init, MemoryIsSaved
<1> QED
  BY <1>1, NextSaved, PTL DEF Spec

-----------------------------------------------------------------------------
(* Scaffolds                                                               *)

(* A step of p leaves the other requests alone.                            *)
LEMMA OthersStay ==
  ASSUME NEW p \in Procs, TypeInv, Step(p), NEW q \in Procs \ {p}
  PROVE  pc'[q] = pc[q] /\ call'[q] = call[q]
<1>1. CallTypes
  BY TypeParts
<1>2. ASSUME Ends(p) PROVE pc'[q] = pc[q] /\ call'[q] = call[q]
  BY <1>1, <1>2 DEF Ends, CallTypes
<1>3. ASSUME NEW l, Goto(p, l) PROVE pc'[q] = pc[q] /\ call'[q] = call[q]
  BY <1>1, <1>3 DEF Goto, CallTypes
<1>4. ASSUME NEW l, NEW k, Serve(p, l, k) PROVE pc'[q] = pc[q] /\ call'[q] = call[q]
  BY <1>1, <1>4 DEF Serve, CallTypes
<1>5. CASE Begin(p)
  BY <1>4, <1>5 DEF Begin, Open, Discuss, OpenCommit, OpenReview, Handoff, Reconcile, Bind, Delete
<1>6. CASE EndsOnly(p)
  BY <1>2, <1>3, <1>6 DEF EndsOnly, SpawnFails, CheckList, BoundElsewhere, MintFails, MoveFails, DeleteFails
<1>7. CASE Onward(p)
  BY <1>1, <1>3, <1>7 DEF Onward, Prime, PrimeFails, NotElsewhere, LinkInstead, Inherit, Walk, Select, FindClosure,
              SkipTask, SpawnFor, Considered, CallTypes
<1>8. CASE Writes(p)
  BY <1>2, <1>3, <1>8 DEF Writes, Add, Move, Merge, MergeFails, Cleanup, CleanupFails
<1>9. CASE Services(p)
  BY <1>1, <1>2, <1>3, <1>4, <1>9 DEF Services, Drop, DropFails, AddFails, DeleteTree, ForkOfUnmapped, Spawn, Fork, Mint, CallTypes
<1>10. CASE Sweep(p) \/ \E s \in Sessions : Scaffold(p, s)
  BY <1>4, <1>10 DEF Sweep, Scaffold
<1>11. CASE EndSweep(p) \/ MarkOpened(p) \/ MarkSpawned(p) \/ \E t \in Tasks : MarkBound(p, t)
  BY <1>1, <1>2, <1>3, <1>11 DEF EndSweep, MarkOpened, MarkSpawned, MarkBound, Considered, CallTypes
<1> QED
  BY <1>5, <1>6, <1>7, <1>8, <1>9, <1>10, <1>11, StepCases

(* A scaffold that is about to mint its change holds sessionOps, and its   *)
(* session has scaffolded nothing; what a session scaffolded is remembered.*)
Minting(p, s) == At(p, "mint") /\ call[p].op = "scaffold" /\ call[p].session = s
OnceInv ==
  /\ \A s \in Sessions : minted[s] \subseteq {scaffolded[s]}
  /\ \A p \in Procs, s \in Sessions : Minting(p, s) => scaffolded[s] = None

LEMMA MintingBegins ==
  ASSUME NEW p \in Procs, TypeInv, Step(p), NEW s \in Sessions, Minting(p, s)'
  PROVE  Scaffold(p, s)
<1>1. CallTypes /\ Control
  BY TypeParts
<1>2. call[p] \in Calls /\ Knows(pc[p], call[p])
  BY <1>1 DEF CallTypes, Control
<1>3. pc'[p] = "mint" /\ call'[p].op = "scaffold" /\ call'[p].session = s
  BY DEF Minting, At
<1>4. ~Ends(p)
  BY <1>1, <1>3 DEF Ends, CallTypes
<1>5. ASSUME NEW l, Goto(p, l) PROVE l = "mint"
  BY <1>1, <1>3, <1>5 DEF Goto, CallTypes
<1>6. ASSUME NEW l, NEW k, Serve(p, l, k) PROVE l = "mint" /\ k = call'[p]
  BY <1>1, <1>3, <1>6 DEF Serve, CallTypes
<1>7. CASE Begin(p)
  <2>1. ~Handoff(p)
    <3> SUFFICES ASSUME Handoff(p) PROVE FALSE
      OBVIOUS
    <3>1. call'[p] = [NoCall EXCEPT !.op = "handoff"]
      BY <1>6 DEF Handoff
    <3> QED
      BY <1>3, <3>1 DEF NoCall
  <2>2. ASSUME NEW l, NEW k, Serve(p, l, k), l # "mint" PROVE FALSE
    BY <1>6, <2>2
  <2>3. ~Open(p) /\ ~Discuss(p) /\ ~OpenCommit(p) /\ ~OpenReview(p)
    BY <2>2 DEF Open, Discuss, OpenCommit, OpenReview
  <2>4. ~Reconcile(p) /\ \A d \in Sessions : ~Bind(p, d) /\ ~Delete(p, d)
    BY <2>2 DEF Reconcile, Bind, Delete
  <2> QED
    BY <1>7, <2>1, <2>3, <2>4 DEF Begin
<1>8. CASE EndsOnly(p)
  BY <1>4, <1>5, <1>8 DEF EndsOnly, SpawnFails, CheckList, BoundElsewhere, MintFails, MoveFails, DeleteFails
<1>9. CASE Onward(p)
  BY <1>1, <1>3, <1>5, <1>9 DEF Onward, Prime, PrimeFails, NotElsewhere, LinkInstead, Inherit, Walk, Select, FindClosure,
              SkipTask, SpawnFor, At, CallTypes
<1>10. CASE Writes(p)
  BY <1>4, <1>5, <1>10 DEF Writes, Add, Move, Merge, MergeFails, Cleanup, CleanupFails
<1>11. CASE Services(p)
  <2>1. ~Drop(p) /\ ~DropFails(p) /\ ~AddFails(p) /\ ~DeleteTree(p) /\ ~ForkOfUnmapped(p)
    BY <1>4, <1>5 DEF Drop, DropFails, AddFails, DeleteTree, ForkOfUnmapped
  <2>2. \A d, e \in Sessions : ~Spawn(p, d) /\ ~Fork(p, d, e)
    BY <1>1, <1>3, <1>6 DEF Spawn, Fork, CallTypes
  <2>3. \A c \in Changes : ~Mint(p, c)
    BY <1>1, <1>3 DEF Mint, CallTypes
  <2> QED
    BY <1>11, <2>1, <2>2, <2>3 DEF Services
<1>12. CASE Sweep(p)
  BY <1>6, <1>12 DEF Sweep
<1>13. ASSUME NEW d \in Sessions, Scaffold(p, d) PROVE Scaffold(p, s)
  <2>1. call'[p] = [NoCall EXCEPT !.op = "scaffold", !.session = d]
    BY <1>6, <1>13 DEF Scaffold
  <2>2. d = s
    BY <1>3, <2>1 DEF NoCall
  <2> QED
    BY <1>13, <2>2
<1>14. CASE EndSweep(p) \/ MarkOpened(p) \/ MarkSpawned(p) \/ \E t \in Tasks : MarkBound(p, t)
  BY <1>1, <1>3, <1>4, <1>5, <1>14 DEF EndSweep, MarkOpened, MarkSpawned, MarkBound, At, CallTypes
<1> QED
  BY <1>7, <1>8, <1>9, <1>10, <1>11, <1>12, <1>13, <1>14, StepCases

LEMMA NextOnce == TypeInv /\ OnceInv /\ [Next]_vars => OnceInv'
<1> SUFFICES ASSUME TypeInv, OnceInv, [Next]_vars PROVE OnceInv'
  OBVIOUS
<1>1. CallTypes /\ Control /\ ChangeTypes /\ HistoryTypes
  BY TypeParts
<1>2. CASE UNCHANGED <<scaffolded, minted, pc, call>>
  BY <1>2 DEF OnceInv, Minting, At
<1>3. ASSUME NEW p \in Procs, Step(p) PROVE OnceInv'
  <2>1. CASE UNCHANGED <<scaffolded, minted>>
    <3>1. \A q \in Procs \ {p}, s \in Sessions : Minting(q, s)' => Minting(q, s)
      BY <1>3, OthersStay DEF Minting, At
    <3>2. \A s \in Sessions : Minting(p, s)' => scaffolded[s] = None
      BY <1>3, MintingBegins DEF Scaffold, MayScaffold
    <3> QED
      BY <2>1, <3>1, <3>2 DEF OnceInv
  <2>2. ASSUME NEW c \in Changes, Mint(p, c), call[p].op = "scaffold" PROVE OnceInv'
    <3> DEFINE s == call[p].session
    <3>1. s \in Sessions /\ Minting(p, s) /\ opsHolder = p
      BY <1>1, <2>2 DEF Mint, Control, Knows, Holds, Minting, At
    <3>2. minted[s] = {}
      BY <1>1, <3>1, MappingAssumption DEF OnceInv, HistoryTypes, Owners
    <3>3. /\ scaffolded' = [scaffolded EXCEPT ![s] = c]
          /\ minted' = [minted EXCEPT ![s] = @ \cup {c}]
      BY <2>2 DEF Mint
    <3>4. \A d \in Sessions : minted'[d] \subseteq {scaffolded'[d]}
      BY <1>1, <3>1, <3>2, <3>3 DEF OnceInv, ChangeTypes, HistoryTypes
    <3>5. \A q \in Procs, d \in Sessions : ~Minting(q, d)'
      <4>1. pc'[p] = "move"
        BY <1>1, <2>2 DEF Mint, CallTypes
      <4>2. \A q \in Procs \ {p}, d \in Sessions : ~Minting(q, d)
        BY <1>1, <3>1 DEF Control, Holds, Minting
      <4>3. \A q \in Procs \ {p}, d \in Sessions : ~Minting(q, d)'
        BY <4>2, <1>3, OthersStay DEF Minting, At
      <4> QED
        BY <4>1, <4>3 DEF Minting, At
    <3> QED
      BY <3>4, <3>5 DEF OnceInv
  <2>3. CASE Quiet(p)
    BY <2>1, <2>3, QuietFrame DEF history
  <2>4. CASE Writes(p)
    BY <2>1, <2>4 DEF Writes, Add, Move, Merge, MergeFails, Cleanup, CleanupFails, history
  <2>5. CASE Services(p)
    BY <2>1, <2>2, <2>5 DEF Services, Drop, DropFails, AddFails, DeleteTree, ForkOfUnmapped, Spawn, Fork, Mint
  <2> QED
    BY <1>3, <2>3, <2>4, <2>5, StepKinds
<1>4. ASSUME NEW s \in Sessions, Unlink(s) PROVE OnceInv'
  BY <1>2, <1>4 DEF Unlink
<1>5. ASSUME NEW s \in Sessions, NEW d \in Sessions, Delegate(s, d) PROVE OnceInv'
  BY <1>2, <1>5 DEF Delegate, history
<1>6. CASE Restart
  BY <1>6 DEF Restart, OnceInv, Minting, At
<1> QED
  BY <1>2, <1>3, <1>4, <1>5, <1>6 DEF Next, vars, history

(* A session scaffolds at most one change while the server runs:           *)
(* SessionMapping's ScaffoldsOnce.                                         *)
THEOREM EachScaffoldsOnce == Spec => []ScaffoldsOnce
<1>1. Init => OnceInv
  BY DEF Init, OnceInv, Minting, At
<1>2. OnceInv => ScaffoldsOnce
  BY DEF OnceInv, ScaffoldsOnce
<1> QED
  BY <1>1, <1>2, InitTypes, NextTypes, NextOnce, PTL DEF Spec

-----------------------------------------------------------------------------
(* Automatic sessions                                                      *)

(* A task that got one is marked, about to be, or its mark was lost; and   *)
(* who opens one has found no mark.                                        *)
Opening(p) == call[p].op = "auto" /\ pc[p] \in {"spawn", "prime", "add"}
AutoInv ==
  /\ \A a \in autos : <<a[1], a[2]>> \in marks \cup lapsed \cup Unmarked
  /\ \A p \in Procs : Opening(p) =>
       \A a \in autos : a[1] = call[p].owner /\ a[2] = call[p].task => <<a[1], a[2]>> \in lapsed
  /\ SpawnedOnce

LEMMA OpeningKept ==
  ASSUME NEW p \in Procs, TypeInv, Step(p), Opening(p)', \A t \in Tasks : ~SpawnFor(p, t)
  PROVE  Opening(p) /\ call'[p].owner = call[p].owner /\ call'[p].task = call[p].task
<1>1. CallTypes /\ Control
  BY TypeParts
<1>2. call[p] \in Calls /\ Knows(pc[p], call[p])
  BY <1>1 DEF CallTypes, Control
<1>3. pc'[p] \in {"spawn", "prime", "add"} /\ call'[p].op = "auto"
  BY DEF Opening
<1>4. ~Ends(p)
  BY <1>1, <1>3 DEF Ends, CallTypes
<1>5. ASSUME NEW l, Goto(p, l) PROVE l \in {"spawn", "prime", "add"} /\ call'[p] = call[p]
  BY <1>1, <1>3, <1>5 DEF Goto, CallTypes
<1>6. ASSUME NEW l, NEW k, Serve(p, l, k) PROVE l \in {"spawn", "prime", "add"} /\ k = call'[p]
  BY <1>1, <1>3, <1>6 DEF Serve, CallTypes
<1>7. ASSUME NEW l \in {"mint", "walk", "listed", "delete", "closure", "node", "look"}, NEW k
       PROVE  ~Serve(p, l, k)
  BY <1>6
<1>8. ~Begin(p)
  <2>1. ASSUME NEW l, NEW k, Serve(p, l, k), k.op # "auto" PROVE FALSE
    BY <1>3, <1>6, <2>1
  <2>2. ASSUME NEW c, NEW t PROVE ~Serve(p, "spawn", [NoCall EXCEPT !.op = "open", !.owner = c, !.task = t])
    <3> DEFINE k == [NoCall EXCEPT !.op = "open", !.owner = c, !.task = t]
    <3>1. k.op = "open"
      BY DEF NoCall
    <3> HIDE DEF k
    <3> QED
      BY <2>1, <3>1 DEF k
  <2>3. ~Open(p)
    BY <2>2 DEF Open
  <2>4. ~Discuss(p)
    <3> DEFINE k == [NoCall EXCEPT !.op = "open", !.owner = Unassigned]
    <3>1. k.op = "open"
      BY DEF NoCall
    <3> HIDE DEF k
    <3> QED
      BY <2>1, <3>1 DEF Discuss, k
  <2>5. ~OpenCommit(p)
    <3> SUFFICES ASSUME NEW o \in changes \cup {Unassigned}
                 PROVE  ~Serve(p, "spawn", [NoCall EXCEPT !.op = "commit", !.owner = o])
      BY DEF OpenCommit
    <3> DEFINE k == [NoCall EXCEPT !.op = "commit", !.owner = o]
    <3>1. k.op = "commit"
      BY DEF NoCall
    <3> HIDE DEF k
    <3> QED
      BY <2>1, <3>1 DEF k
  <2>7. ~OpenReview(p)
    <3> SUFFICES ASSUME NEW o \in changes
                 PROVE  ~Serve(p, "spawn", [NoCall EXCEPT !.op = "review", !.owner = o])
      BY DEF OpenReview
    <3> DEFINE k == [NoCall EXCEPT !.op = "review", !.owner = o]
    <3>1. k.op = "review"
      BY DEF NoCall
    <3> HIDE DEF k
    <3> QED
      BY <2>1, <3>1 DEF k
  <2>6. ~Handoff(p) /\ ~Reconcile(p) /\ \A s \in Sessions : ~Bind(p, s) /\ ~Delete(p, s)
    <3>1. ~Handoff(p)
      BY <1>7 DEF Handoff
    <3>2. ~Reconcile(p)
      BY <1>7 DEF Reconcile
    <3>3. \A s \in Sessions : ~Bind(p, s)
      BY <1>7 DEF Bind
    <3>4. \A s \in Sessions : ~Delete(p, s)
      BY <1>7 DEF Delete
    <3> QED
      BY <3>1, <3>2, <3>3, <3>4
  <2> QED
    BY <2>3, <2>4, <2>5, <2>6, <2>7 DEF Begin
<1>9. ~EndsOnly(p)
  BY <1>4, <1>5 DEF EndsOnly, SpawnFails, CheckList, BoundElsewhere, MintFails, MoveFails, DeleteFails
<1>10. CASE Onward(p)
  <2>1. CASE Prime(p)
    BY <1>1, <1>5, <1>3, <2>1 DEF Prime, At, Opening, Goto, CallTypes
  <2>2. ~NotElsewhere(p) /\ ~LinkInstead(p) /\ ~PrimeFails(p)
    <3>1. ~PrimeFails(p)
      BY <1>5 DEF PrimeFails
    <3>2. ASSUME Goto(p, "add"), At(p, "elsewhere") \/ At(p, "move") PROVE FALSE
      BY <1>2, <1>3, <1>5, <3>2 DEF At, Knows
    <3> QED
      BY <3>1, <3>2 DEF NotElsewhere, LinkInstead
  <2>3. ~Inherit(p)
    <3> SUFFICES ASSUME Inherit(p) PROVE FALSE
      OBVIOUS
    <3>1. call'[p].op = call[p].op
      BY <1>1 DEF Inherit, CallTypes, Calls
    <3>2. call[p].op = "fork"
      BY <1>2 DEF Inherit, At, Knows
    <3> QED
      BY <1>3, <3>1, <3>2
  <2>4. ~Walk(p) /\ ~Select(p) /\ ~FindClosure(p)
    BY <1>1, <1>3 DEF Walk, Select, FindClosure, CallTypes
  <2>5. \A t \in Tasks : ~SkipTask(p, t)
    BY <1>1, <1>3 DEF SkipTask, At, CallTypes
  <2> QED
    BY <1>10, <2>1, <2>2, <2>3, <2>4, <2>5 DEF Onward
<1>11. ~Writes(p)
  BY <1>4, <1>5 DEF Writes, Add, Move, Merge, MergeFails, Cleanup, CleanupFails
<1>12. CASE Services(p)
  <2>1. ~Drop(p) /\ ~DropFails(p) /\ ~AddFails(p) /\ ~DeleteTree(p) /\ ~ForkOfUnmapped(p)
    BY <1>4, <1>5 DEF Drop, DropFails, AddFails, DeleteTree, ForkOfUnmapped
  <2>2. ASSUME NEW s \in Sessions, Spawn(p, s) PROVE Opening(p) /\ call'[p] = [call[p] EXCEPT !.session = s]
    <3>1. call'[p] = [call[p] EXCEPT !.session = s] /\ pc[p] = "spawn"
      BY <1>1, <2>2 DEF Spawn, CallTypes, At
    <3>2. call[p].op = "auto"
      BY <1>2, <1>3, <3>1 DEF Calls
    <3> QED
      BY <3>1, <3>2 DEF Opening
  <2>3. \A s, d \in Sessions : ~Fork(p, s, d)
    BY <1>6 DEF Fork
  <2>4. \A c \in Changes : ~Mint(p, c)
    <3> SUFFICES ASSUME NEW c \in Changes, Mint(p, c) PROVE FALSE
      OBVIOUS
    <3>1. call'[p].op = call[p].op
      BY <1>1 DEF Mint, CallTypes, Calls
    <3>2. call[p].op \in {"handoff", "scaffold"}
      BY <1>2 DEF Mint, At, Knows
    <3> QED
      BY <1>3, <3>1, <3>2
  <2> QED
    BY <1>2, <1>12, <2>1, <2>2, <2>3, <2>4 DEF Services, Calls
<1>13. ~Sweep(p) /\ \A s \in Sessions : ~Scaffold(p, s)
  <2>1. ~Sweep(p)
    BY <1>7 DEF Sweep
  <2>2. \A s \in Sessions : ~Scaffold(p, s)
    BY <1>7 DEF Scaffold
  <2> QED
    BY <2>1, <2>2
<1>14. ~EndSweep(p) /\ ~MarkSpawned(p) /\ ~MarkOpened(p) /\ \A t \in Tasks : ~MarkBound(p, t)
  <2>1. ~EndSweep(p) /\ ~MarkSpawned(p)
    BY <1>1, <1>3, <1>4 DEF EndSweep, MarkSpawned, CallTypes
  <2>2. ~MarkOpened(p)
    BY <1>2, <1>3, <1>5 DEF MarkOpened, At, Knows
  <2>3. \A t \in Tasks : ~MarkBound(p, t)
    BY <1>1, <1>3 DEF MarkBound, At, CallTypes
  <2> QED
    BY <2>1, <2>2, <2>3
<1> QED
  BY <1>8, <1>9, <1>10, <1>11, <1>12, <1>13, <1>14, StepCases

LEMMA MarksGrow ==
  ASSUME NEW p \in Procs, TypeInv, Step(p)
  PROVE  /\ marks \subseteq marks' /\ lapsed' = lapsed
         /\ Add(p) \/ autos' = autos
<1>1. CASE MarkOpened(p) \/ MarkSpawned(p) \/ \E t \in Tasks : MarkBound(p, t)
  BY <1>1 DEF MarkOpened, MarkSpawned, MarkBound, Mark, history
<1>2. CASE Writes(p)
  BY <1>2 DEF Writes, Add, Move, Merge, MergeFails, Cleanup, CleanupFails, markers, history
<1>3. CASE Services(p)
  BY <1>3 DEF Services, Drop, DropFails, AddFails, DeleteTree, ForkOfUnmapped, Spawn, Fork, Mint, markers
<1>4. CASE Begin(p) \/ EndsOnly(p) \/ Onward(p) \/ Sweep(p) \/ EndSweep(p) \/ \E s \in Sessions : Scaffold(p, s)
  <2>1. UNCHANGED <<markers, history>>
    <3>1. CASE Begin(p)
      BY <3>1 DEF Begin, Open, Discuss, OpenCommit, OpenReview, Handoff, Reconcile, Bind, Delete
    <3>2. CASE EndsOnly(p)
      BY <3>2 DEF EndsOnly, SpawnFails, CheckList, BoundElsewhere, MintFails, MoveFails, DeleteFails
    <3>3. CASE Onward(p)
      BY <3>3 DEF Onward, Prime, PrimeFails, NotElsewhere, LinkInstead, Inherit, Walk, Select, FindClosure,
                  SkipTask, SpawnFor
    <3>4. CASE Sweep(p) \/ EndSweep(p) \/ \E s \in Sessions : Scaffold(p, s)
      BY <3>4 DEF Sweep, EndSweep, Scaffold
    <3> QED
      BY <1>4, <3>1, <3>2, <3>3, <3>4
  <2> QED
    BY <2>1 DEF markers, history
<1> QED
  BY <1>1, <1>2, <1>3, <1>4, StepCases

(* Only the marking of its task takes a request from "marked".             *)
LEMMA MarkedStays ==
  ASSUME NEW p \in Procs, TypeInv, Step(p), At(p, "marked")
  PROVE  MarkSpawned(p)
<1>1. Knows(pc[p], call[p]) /\ pc[p] = "marked"
  BY TypeParts DEF Control, At
<1>2. ~Begin(p) /\ ~Sweep(p) /\ \A s \in Sessions : ~Scaffold(p, s)
  BY <1>1 DEF Begin, Open, Discuss, OpenCommit, OpenReview, Handoff, Reconcile, Bind, Delete, Sweep, Scaffold, Serve, At
<1>3. ~EndsOnly(p)
  BY <1>1 DEF EndsOnly, SpawnFails, CheckList, BoundElsewhere, MintFails, MoveFails, DeleteFails, At
<1>4. ~Onward(p)
  BY <1>1 DEF Onward, Prime, PrimeFails, NotElsewhere, LinkInstead, Inherit, Walk, Select, FindClosure,
              SkipTask, SpawnFor, At
<1>5. ~Writes(p)
  BY <1>1 DEF Writes, Add, Move, Merge, MergeFails, Cleanup, CleanupFails, At
<1>6. ~Services(p)
  BY <1>1 DEF Services, Drop, DropFails, AddFails, DeleteTree, ForkOfUnmapped, Spawn, Fork, Mint, Serve, At
<1>7. ~EndSweep(p) /\ ~MarkOpened(p) /\ \A t \in Tasks : ~MarkBound(p, t)
  BY <1>1 DEF EndSweep, MarkOpened, MarkBound, At
<1> QED
  BY <1>2, <1>3, <1>4, <1>5, <1>6, <1>7, StepCases

LEMMA AccountedKept ==
  ASSUME NEW p \in Procs, TypeInv, Step(p)
  PROVE  marks \cup lapsed \cup Unmarked \subseteq (marks \cup lapsed \cup Unmarked)'
<1> SUFFICES ASSUME NEW q \in Procs, At(q, "marked")
             PROVE  <<call[q].owner, call[q].task>> \in (marks \cup Unmarked)'
  BY MarksGrow DEF Unmarked
<1>1. CASE q = p
  BY <1>1, MarkedStays DEF MarkSpawned, Mark
<1>2. CASE q # p
  <2>1. At(q, "marked")' /\ call'[q] = call[q]
    BY <1>2, OthersStay DEF At
  <2> QED
    BY <2>1 DEF Unmarked
<1> QED
  BY <1>1, <1>2

LEMMA NextAuto == TypeInv /\ AutoInv /\ [Next]_vars => AutoInv'
<1> SUFFICES ASSUME TypeInv, AutoInv, [Next]_vars PROVE AutoInv'
  OBVIOUS
<1>1. CallTypes /\ Control /\ HistoryTypes
  BY TypeParts
<1>2. CASE UNCHANGED <<autos, marks, lapsed, pc, call>>
  BY <1>2 DEF AutoInv, Opening, SpawnedOnce, Unmarked, At
<1>3. ASSUME NEW p \in Procs, Step(p) PROVE AutoInv'
  <2>1. lapsed' = lapsed
    BY <1>3, MarksGrow
  <2>2. \A q \in Procs \ {p} : Opening(q)' => Opening(q) /\ call'[q] = call[q]
    BY <1>3, OthersStay DEF Opening
  <2>3. CASE Add(p) /\ call[p].op = "auto"
    <3> DEFINE new == <<call[p].owner, call[p].task, call[p].session>>
    <3>1. Opening(p) /\ sweeper = p
      BY <1>1, <2>3 DEF Add, Opening, At, Control, Holds
    <3>2. autos' = autos \cup {new}
      BY <2>3 DEF Add
    <3>3. pc'[p] = "marked" /\ call'[p] = call[p]
      BY <1>1, <2>3 DEF Add, Goto, CallTypes
    <3>4. <<new[1], new[2]>> \in Unmarked'
      BY <3>3 DEF Unmarked, At
    <3>5. \A a \in autos' : <<a[1], a[2]>> \in (marks \cup lapsed \cup Unmarked)'
      BY <1>3, <3>2, <3>4, AccountedKept DEF AutoInv
    <3>6. \A q \in Procs : ~Opening(q)'
      BY <1>1, <2>2, <3>1, <3>3 DEF Opening, Control, Holds
    <3>7. \A a \in autos : a[1] = new[1] /\ a[2] = new[2] => <<a[1], a[2]>> \in lapsed
      BY <3>1 DEF AutoInv
    <3>8. SpawnedOnce'
      BY <2>1, <3>2, <3>7 DEF AutoInv, SpawnedOnce
    <3> QED
      BY <3>5, <3>6, <3>8 DEF AutoInv
  <2>4. CASE autos' = autos
    <3>1. \A a \in autos' : <<a[1], a[2]>> \in (marks \cup lapsed \cup Unmarked)'
      BY <1>3, <2>4, AccountedKept DEF AutoInv
    <3>2. SpawnedOnce'
      BY <2>1, <2>4 DEF AutoInv, SpawnedOnce
    <3>3. ASSUME Opening(p)', NEW a \in autos, a[1] = call'[p].owner, a[2] = call'[p].task
          PROVE  <<a[1], a[2]>> \in lapsed
      <4>1. CASE \A t \in Tasks : ~SpawnFor(p, t)
        <5>1. Opening(p) /\ call'[p].owner = call[p].owner /\ call'[p].task = call[p].task
          BY <1>3, <3>3, <4>1, OpeningKept
        <5> QED
          BY <3>3, <5>1 DEF AutoInv
      <4>2. ASSUME NEW t \in Tasks, SpawnFor(p, t) PROVE <<a[1], a[2]>> \in lapsed
        <5>1. call'[p] = [call[p] EXCEPT !.todo = @ \ {t}, !.task = t] /\ call[p] \in Calls
          BY <1>1, <4>2 DEF SpawnFor, CallTypes
        <5>2. <<a[1], a[2]>> \notin marks
          <6>1. a[1] = call[p].owner /\ a[2] = t
            BY <3>3, <5>1 DEF Calls
          <6> QED
            BY <4>2, <6>1 DEF SpawnFor, Marked
        <5>3. sweeper = p /\ ~At(p, "marked")
          BY <1>1, <4>2 DEF SpawnFor, At, Control, Knows, Holds
        <5>4. Unmarked = {}
          BY <1>1, <5>3 DEF Unmarked, At, Control, Knows, Holds
        <5> QED
          BY <5>2, <5>4 DEF AutoInv
      <4> QED
        BY <4>1, <4>2
    <3>4. \A q \in Procs : Opening(q)' =>
            \A a \in autos' : a[1] = call'[q].owner /\ a[2] = call'[q].task => <<a[1], a[2]>> \in lapsed'
      BY <2>1, <2>2, <2>4, <3>3 DEF AutoInv
    <3> QED
      BY <3>1, <3>2, <3>4 DEF AutoInv
  <2> QED
    BY <1>3, <2>3, <2>4, MarksGrow DEF Add
<1>4. ASSUME NEW s \in Sessions, Unlink(s) PROVE AutoInv'
  BY <1>2, <1>4 DEF Unlink, markers
<1>5. ASSUME NEW s \in Sessions, NEW d \in Sessions, Delegate(s, d) PROVE AutoInv'
  BY <1>2, <1>5 DEF Delegate, history, markers
<1>6. CASE Restart
  <2>1. \A q \in Procs : ~Opening(q)'
    BY <1>6 DEF Restart, Opening
  <2>2. marks \cup lapsed \cup Unmarked \subseteq (marks \cup lapsed)' /\ lapsed \subseteq lapsed' /\ autos' = autos
    BY <1>6 DEF Restart
  <2>3. SpawnedOnce'
    BY <2>2 DEF AutoInv, SpawnedOnce
  <2> QED
    BY <2>1, <2>2, <2>3 DEF AutoInv
<1> QED
  BY <1>2, <1>3, <1>4, <1>5, <1>6 DEF Next, vars, history, markers

(* A task gets one automatic session, unless a stop lost its mark:         *)
(* SessionMapping's SpawnedOnce.                                           *)
THEOREM OneAutomaticSession == Spec => []SpawnedOnce
<1>1. Init => AutoInv
  BY DEF Init, AutoInv, Opening, SpawnedOnce
<1>2. AutoInv => SpawnedOnce
  BY DEF AutoInv
<1> QED
  BY <1>1, <1>2, InitTypes, NextTypes, NextAuto, PTL DEF Spec

-----------------------------------------------------------------------------
(* Families of sessions                                                    *)

(* A session is born once, as a child of a live one or of none, and the    *)
(* whole tree of a session dies with it.                                   *)
Birth(d) ==
  /\ d \in Sessions /\ Fresh(d) /\ up' = [up EXCEPT ![d] = "live"]
  /\ \/ parent' = parent
     \/ \E s \in Sessions : up[s] = "live" /\ parent' = [parent EXCEPT ![d] = s]
Death(s) == s \in Sessions /\ Deleted(Tree(s)) /\ parent' = parent

LEMMA ServiceChanges ==
  ASSUME TypeInv, [Next]_vars
  PROVE  \/ UNCHANGED <<up, parent>>
         \/ \E d \in Sessions : Birth(d)
         \/ \E s \in Sessions : Death(s)
<1>1. ASSUME NEW p \in Procs, Quiet(p) PROVE UNCHANGED <<up, parent>>
  BY <1>1, QuietFrame DEF service
<1>2. ASSUME NEW p \in Procs, Writes(p) PROVE UNCHANGED <<up, parent>>
  BY <1>2 DEF Writes, Add, Move, Merge, MergeFails, Cleanup, CleanupFails, service
<1>3. ASSUME NEW p \in Procs, Services(p)
      PROVE  \/ UNCHANGED <<up, parent>>
             \/ \E d \in Sessions : Birth(d)
             \/ \E s \in Sessions : Death(s)
  <2>1. CASE Drop(p) \/ DeleteTree(p)
    <3>1. call[p].session \in Sessions
      BY <2>1, TypeParts DEF Drop, DeleteTree, At, Control, Knows
    <3> QED
      BY <2>1, <3>1 DEF Drop, DeleteTree, Death
  <2>2. CASE DropFails(p) \/ AddFails(p) \/ ForkOfUnmapped(p) \/ \E c \in Changes : Mint(p, c)
    BY <2>2 DEF DropFails, AddFails, ForkOfUnmapped, Mint, service
  <2>3. ASSUME NEW s \in Sessions, Spawn(p, s) PROVE Birth(s)
    BY <2>3 DEF Spawn, Birth
  <2>4. ASSUME NEW s \in Sessions, NEW d \in Sessions, Fork(p, s, d) PROVE Birth(d)
    BY <2>4 DEF Fork, Birth
  <2> QED
    BY <1>3, <2>1, <2>2, <2>3, <2>4 DEF Services
<1>4. ASSUME NEW s \in Sessions, Unlink(s) PROVE UNCHANGED <<up, parent>>
  BY <1>4 DEF Unlink, service
<1>5. ASSUME NEW s \in Sessions, NEW d \in Sessions, Delegate(s, d) PROVE Birth(d)
  BY <1>5 DEF Delegate, Birth
<1>6. CASE Restart
  BY <1>6 DEF Restart, service
<1> QED
  BY <1>1, <1>2, <1>3, <1>4, <1>5, <1>6, StepKinds DEF Next, vars, service

Born(s) == up[s] # "unborn"
Gone(s) == up[s] = "gone"
Descends(d, s) == \A T \in SUBSET Sessions : IsTree(T, s) => d \in T

Families ==
  /\ \A s \in Sessions : Born(s) \/ parent[s] = None
  /\ \A s \in Sessions : up[s] = "live" /\ parent[s] # None => up[parent[s]] = "live"

LEMMA TreeIsDescent ==
  ASSUME NEW s
  PROVE  Tree(s) = {d \in Sessions : up[d] = "live" /\ Descends(d, s)}
BY DEF Tree, Descends

LEMMA FamiliesNext ==
  ASSUME TypeInv, Families, [Next]_vars
  PROVE  Families'
<1>1. ServiceTypes /\ None \notin Sessions
  BY TypeParts, MappingAssumption
<1>2. CASE UNCHANGED <<up, parent>>
  BY <1>2 DEF Families, Born
<1>3. ASSUME NEW d \in Sessions, Birth(d) PROVE Families'
  BY <1>1, <1>3 DEF Families, Born, Birth, Fresh, ServiceTypes
<1>4. ASSUME NEW s \in Sessions, Death(s) PROVE Families'
  <2>1. \A d \in Sessions : (up'[d] = IF d \in Tree(s) THEN "gone" ELSE up[d]) /\ parent'[d] = parent[d]
    BY <1>4 DEF Death, Deleted
  <2>2. ASSUME NEW d \in Sessions, up[d] = "live", parent[d] \in Tree(s) PROVE d \in Tree(s)
    BY <2>2 DEF Tree, IsTree
  <2>3. \A d \in Sessions : Born(d)' \/ parent'[d] = None
    BY <1>1, <2>1 DEF Families, Born, ServiceTypes
  <2>4. ASSUME NEW d \in Sessions, up'[d] = "live", parent'[d] # None PROVE up'[parent'[d]] = "live"
    BY <1>1, <2>1, <2>2, <2>4 DEF Families, ServiceTypes
  <2> QED
    BY <2>3, <2>4 DEF Families
<1> QED
  BY <1>2, <1>3, <1>4, ServiceChanges

(* What lasts.                                                             *)
LEMMA Lasting ==
  ASSUME TypeInv, Families, [Next]_vars, NEW s \in Sessions
  PROVE  /\ Born(s) => Born(s)' /\ parent'[s] = parent[s]
         /\ Gone(s) => Gone(s)'
         /\ up'[s] = "live" => up[s] \in {"live", "unborn"}
         /\ \A d \in Sessions : Descends(d, s) => Descends(d, s)'
<1>1. ServiceTypes /\ None \notin Sessions
  BY TypeParts, MappingAssumption
<1>2. CASE UNCHANGED <<up, parent>>
  BY <1>1, <1>2 DEF Born, Gone, Descends, IsTree, ServiceTypes
<1>3. ASSUME NEW e \in Sessions, Birth(e)
      PROVE  /\ Born(s) => Born(s)' /\ parent'[s] = parent[s]
             /\ Gone(s) => Gone(s)'
             /\ up'[s] = "live" => up[s] \in {"live", "unborn"}
             /\ \A d \in Sessions : Descends(d, s) => Descends(d, s)'
  <2>1. parent[e] = None /\ \A d \in Sessions \ {e} : parent'[d] = parent[d] /\ up'[d] = up[d]
    BY <1>1, <1>3 DEF Birth, Fresh, Families, Born, ServiceTypes
  <2>2. up[e] = "unborn" /\ up'[e] = "live"
    BY <1>1, <1>3 DEF Birth, Fresh, ServiceTypes
  <2>3. \A T \in SUBSET Sessions : IsTree(T, s)' => IsTree(T, s)
    BY <1>1, <2>1 DEF IsTree
  <2>4. \A d \in Sessions : Descends(d, s) => Descends(d, s)'
    BY <2>3 DEF Descends
  <2> QED
    BY <1>1, <2>1, <2>2, <2>4 DEF Born, Gone, ServiceTypes
<1>4. ASSUME NEW r \in Sessions, Death(r)
      PROVE  /\ Born(s) => Born(s)' /\ parent'[s] = parent[s]
             /\ Gone(s) => Gone(s)'
             /\ up'[s] = "live" => up[s] \in {"live", "unborn"}
             /\ \A d \in Sessions : Descends(d, s) => Descends(d, s)'
  <2>1. parent' = parent /\ up'[s] = IF s \in Tree(r) THEN "gone" ELSE up[s]
    BY <1>4 DEF Death, Deleted
  <2>2. \A d \in Sessions : Descends(d, s) => Descends(d, s)'
    BY <2>1 DEF Descends, IsTree
  <2> QED
    BY <1>1, <2>1, <2>2 DEF Born, Gone, ServiceTypes
<1> QED
  BY <1>2, <1>3, <1>4, ServiceChanges

-----------------------------------------------------------------------------
(* Entries and requests                                                    *)

(* An entry is of a session that was born, with its parent or none; the    *)
(* file has no entry that memory has not; a request knows sessions that    *)
(* were born; what a deletion removes from the mapping is gone.            *)
Entered ==
  /\ disk \subseteq rows
  /\ \A r \in rows : Born(r.session) /\ r.parent \in {None, parent[r.session]}
Knowing(l, s, S) ==
  /\ s # None => Born(s)
  /\ \A d \in S : Born(d)
  /\ l = "delete" => \A d \in S : Descends(d, s)
  /\ l = "closure" => Gone(s)
  /\ l = "cleanup" => \A d \in S : Gone(d)
Known(p) == Knowing(pc[p], call[p].session, call[p].seen)
Kinship == Families /\ Entered /\ \A p \in Procs : Known(p)

(* Where the entries of the next state come from.                          *)
From(r) ==
  \/ \E o \in rows : r.session = o.session /\ r.parent = o.parent
  \/ \E p \in Procs : At(p, "add") /\ r = RowOf(p)
  \/ \E p \in Procs : At(p, "merge") /\ r.session \in call[p].seen /\ r.parent = parent[r.session]

LEMMA EntriesComeFrom ==
  ASSUME TypeInv, Entered, [Next]_vars
  PROVE  disk' \subseteq rows' /\ \A r \in rows' : From(r)
<1>1. CASE UNCHANGED <<rows, disk>>
  BY <1>1 DEF Entered, From
<1>2. ASSUME NEW new, Save(new), \A r \in new : From(r)
      PROVE  disk' \subseteq rows' /\ \A r \in rows' : From(r)
  BY <1>2 DEF Save
<1>3. \A r \in rows : From(r)
  BY DEF From
<1>4. ASSUME NEW p \in Procs, Step(p)
      PROVE  disk' \subseteq rows' /\ \A r \in rows' : From(r)
  <2>1. CASE Quiet(p)
    BY <1>1, <2>1, QuietFrame DEF mapping
  <2>2. CASE Services(p)
    <3>1. UNCHANGED mapping
      BY <2>2 DEF Services, Drop, DropFails, AddFails, Undo, DeleteTree, ForkOfUnmapped, Spawn, Fork, Mint
    <3> QED
      BY <1>1, <3>1 DEF mapping
  <2>3. CASE Add(p)
    <3>1. \A r \in rows \cup {RowOf(p)} : From(r)
      BY <1>3, <2>3 DEF Add, From
    <3> QED
      BY <1>2, <2>3, <3>1 DEF Add
  <2>4. CASE Move(p)
    <3>1. PICK r \in rows : Save((rows \ {r}) \cup {[r EXCEPT !.owner = call[p].owner]})
      BY <2>4 DEF Move, InBucket, RowsOf
    <3>2. r \in Rows
      BY TypeParts DEF RowTypes
    <3> DEFINE m == [r EXCEPT !.owner = call[p].owner]
    <3>3. m.session = r.session /\ m.parent = r.parent
      BY <3>2 DEF Rows
    <3>4. From(m)
      BY <3>3 DEF From
    <3> HIDE DEF m
    <3>5. \A n \in (rows \ {r}) \cup {m} : From(n)
      BY <1>3, <3>4
    <3> QED
      BY <1>2, <3>1, <3>5 DEF m
  <2>5. CASE Merge(p) \/ MergeFails(p)
    <3>1. \A r \in rows \cup NewRows(p) : From(r)
      <4>1. ASSUME NEW r \in NewRows(p) PROVE From(r)
        BY <2>5 DEF NewRows, From, Merge, MergeFails
      <4> QED
        BY <1>3, <4>1
    <3>2. CASE Save(rows \cup NewRows(p))
      BY <1>2, <3>1, <3>2
    <3>3. CASE UNCHANGED mapping
      BY <1>1, <3>3 DEF mapping
    <3>4. CASE rows' = rows \cup NewRows(p) /\ disk' = disk
      BY <3>1, <3>4 DEF Entered
    <3> QED
      BY <2>5, <3>2, <3>3, <3>4 DEF Merge, MergeFails
  <2>6. CASE Cleanup(p) \/ CleanupFails(p)
    <3>1. CASE Save(rows \ Doomed(p))
      BY <1>2, <1>3, <3>1
    <3>2. CASE UNCHANGED mapping
      BY <1>1, <3>2 DEF mapping
    <3> QED
      BY <2>6, <3>1, <3>2 DEF Cleanup, CleanupFails, Undo
  <2> QED
    BY <1>4, <2>1, <2>2, <2>3, <2>4, <2>5, <2>6, StepKinds DEF Writes
<1>5. ASSUME NEW s \in Sessions, Unlink(s)
      PROVE  disk' \subseteq rows' /\ \A r \in rows' : From(r)
  <2>1. PICK new \in SUBSET rows : Save(new)
    BY <1>5 DEF Unlink
  <2> QED
    BY <1>2, <1>3, <2>1
<1>6. ASSUME NEW s \in Sessions, NEW d \in Sessions, Delegate(s, d)
      PROVE  disk' \subseteq rows' /\ \A r \in rows' : From(r)
  BY <1>1, <1>6 DEF Delegate, mapping
<1>7. CASE Restart
  BY <1>3, <1>7 DEF Restart, Entered
<1> QED
  BY <1>1, <1>4, <1>5, <1>6, <1>7 DEF Next, vars, mapping

LEMMA EnteredNext ==
  ASSUME TypeInv, Kinship, [Next]_vars
  PROVE  Entered'
<1>1. CallTypes /\ Control /\ ServiceTypes /\ RowTypes /\ None \notin Sessions
  BY TypeParts, MappingAssumption
<1>2. ASSUME NEW r \in rows'
      PROVE  Born(r.session)' /\ r.parent \in {None, parent'[r.session]}
  <2>1. r.session \in Sessions /\ Born(r.session) /\ r.parent \in {None, parent[r.session]}
    <3>1. CASE \E o \in rows : r.session = o.session /\ r.parent = o.parent
      BY <1>1, <3>1 DEF Kinship, Entered, RowTypes, Rows
    <3>2. ASSUME NEW p \in Procs, At(p, "add"), r = RowOf(p)
          PROVE  r.session \in Sessions /\ Born(r.session) /\ r.parent \in {None, parent[r.session]}
      <4>1. call[p].session \in Sessions /\ Born(call[p].session)
        BY <1>1, <3>2 DEF Kinship, Known, Knowing, Control, Knows, At
      <4> QED
        BY <3>2, <4>1 DEF RowOf
    <3>3. ASSUME NEW p \in Procs, At(p, "merge"), r.session \in call[p].seen, r.parent = parent[r.session]
          PROVE  r.session \in Sessions /\ Born(r.session) /\ r.parent \in {None, parent[r.session]}
      BY <1>1, <3>3 DEF Kinship, Known, Knowing, CallTypes, Calls
    <3> QED
      BY <3>1, <3>2, <3>3, EntriesComeFrom DEF Kinship, From
  <2> QED
    BY <2>1, Lasting DEF Kinship
<1> QED
  BY <1>2, EntriesComeFrom DEF Kinship, Entered

(* What a step does to the session and the sessions its request knows.     *)
SameCall(p) == call'[p].session = call[p].session /\ call'[p].seen = call[p].seen
Forgets(p) == call'[p].session = None /\ call'[p].seen \subseteq call[p].seen
Learns(p, s) == call'[p].session = s /\ call'[p].seen = {}

LEMMA EndsForgets ==
  ASSUME NEW p \in Procs, TypeInv, Ends(p)
  PROVE  Forgets(p)
<1>1. CallTypes
  BY TypeParts
<1>2. CASE call[p].op = "auto"
  <2>1. call'[p] = [call[p] EXCEPT !.session = None, !.task = None] /\ call[p] \in Calls
    BY <1>1, <1>2 DEF Ends, CallTypes
  <2> QED
    BY <2>1 DEF Forgets, Calls
<1>3. CASE call[p].op # "auto"
  <2>1. call'[p] = NoCall
    BY <1>1, <1>3 DEF Ends, CallTypes
  <2> QED
    BY <2>1 DEF Forgets, NoCall
<1> QED
  BY <1>2, <1>3

LEMMA GotoSame ==
  ASSUME NEW p \in Procs, TypeInv, NEW l, Goto(p, l)
  PROVE  SameCall(p)
BY TypeParts DEF Goto, SameCall, CallTypes

LEMMA ServeCall ==
  ASSUME NEW p \in Procs, TypeInv, NEW l, NEW k, Serve(p, l, k)
  PROVE  call'[p] = k /\ pc'[p] = l
BY TypeParts DEF Serve, CallTypes

LEMMA BeginCall ==
  ASSUME NEW p \in Procs, TypeInv, Begin(p)
  PROVE  \/ Forgets(p)
         \/ \E s \in Sessions : Bind(p, s) /\ Learns(p, s)
         \/ \E s \in Sessions : /\ Delete(p, s) /\ call'[p].session = s
                               /\ \/ call'[p].seen = Tree(s) /\ pc'[p] = "delete"
                                  \/ call'[p].seen = {} /\ pc'[p] = "closure" /\ up[s] = "gone"
<1>2. CASE Open(p)
  <2>1. PICK c, t : Serve(p, "spawn", [NoCall EXCEPT !.op = "open", !.owner = c, !.task = t])
    BY <1>2 DEF Open
  <2>2. call'[p] = [NoCall EXCEPT !.op = "open", !.owner = c, !.task = t]
    BY <2>1, ServeCall
  <2> QED
    BY <2>2 DEF NoCall, Forgets
<1>3. CASE Discuss(p)
  <2>1. call'[p] = [NoCall EXCEPT !.op = "open", !.owner = Unassigned]
    BY <1>3, ServeCall DEF Discuss
  <2> QED
    BY <2>1 DEF NoCall, Forgets
<1>4. CASE OpenCommit(p)
  <2>1. PICK o : Serve(p, "spawn", [NoCall EXCEPT !.op = "commit", !.owner = o])
    BY <1>4 DEF OpenCommit
  <2>2. call'[p] = [NoCall EXCEPT !.op = "commit", !.owner = o]
    BY <2>1, ServeCall
  <2> QED
    BY <2>2 DEF NoCall, Forgets
<1>5. CASE Handoff(p)
  <2>1. call'[p] = [NoCall EXCEPT !.op = "handoff"]
    BY <1>5, ServeCall DEF Handoff
  <2> QED
    BY <2>1 DEF NoCall, Forgets
<1>6. CASE Reconcile(p)
  <2>1. PICK c, r : Serve(p, "walk", [NoCall EXCEPT !.op = "reconcile", !.owner = c, !.roots = r])
    BY <1>6 DEF Reconcile
  <2>2. call'[p] = [NoCall EXCEPT !.op = "reconcile", !.owner = c, !.roots = r]
    BY <2>1, ServeCall
  <2> QED
    BY <2>2 DEF NoCall, Forgets
<1>7. ASSUME NEW s \in Sessions, Bind(p, s) PROVE Learns(p, s)
  <2>1. PICK c, t :
          Serve(p, "listed", [NoCall EXCEPT !.op = "bind", !.owner = c, !.task = t, !.session = s])
    BY <1>7 DEF Bind
  <2>2. call'[p] = [NoCall EXCEPT !.op = "bind", !.owner = c, !.task = t, !.session = s]
    BY <2>1, ServeCall
  <2> QED
    BY <2>2 DEF NoCall, Learns
<1>8. ASSUME NEW s \in Sessions, Delete(p, s)
      PROVE  /\ call'[p].session = s
             /\ \/ call'[p].seen = Tree(s) /\ pc'[p] = "delete"
                \/ call'[p].seen = {} /\ pc'[p] = "closure" /\ up[s] = "gone"
  <2> DEFINE T == Tree(s)
  <2> HIDE DEF T
  <2>1. CASE up[s] = "live"
    <3>1. call'[p] = [NoCall EXCEPT !.op = "delete", !.session = s, !.seen = T] /\ pc'[p] = "delete"
      BY <1>8, <2>1, ServeCall DEF Delete, T
    <3> QED
      BY <3>1 DEF NoCall, T
  <2>2. CASE up[s] = "gone"
    <3>1. call'[p] = [NoCall EXCEPT !.op = "delete", !.session = s] /\ pc'[p] = "closure"
      BY <1>8, <2>2, ServeCall DEF Delete
    <3> QED
      BY <2>2, <3>1 DEF NoCall
  <2> QED
    BY <1>8, <2>1, <2>2 DEF Delete
<1>9. CASE OpenReview(p)
  <2>1. PICK o : Serve(p, "spawn", [NoCall EXCEPT !.op = "review", !.owner = o])
    BY <1>9 DEF OpenReview
  <2>2. call'[p] = [NoCall EXCEPT !.op = "review", !.owner = o]
    BY <2>1, ServeCall
  <2> QED
    BY <2>2 DEF NoCall, Forgets
<1> QED
  BY <1>2, <1>3, <1>4, <1>5, <1>6, <1>7, <1>8, <1>9 DEF Begin

LEMMA CallChanges ==
  ASSUME NEW p \in Procs, TypeInv, Step(p)
  PROVE  \/ Begin(p) \/ SameCall(p) \/ Forgets(p)
         \/ \E s \in Sessions : Scaffold(p, s) /\ Learns(p, s)
         \/ Walk(p) \/ Select(p) \/ FindClosure(p)
         \/ \E s \in Sessions : /\ Spawn(p, s)
                               /\ call'[p].session = s /\ call'[p].seen = call[p].seen
         \/ \E s, d \in Sessions : Fork(p, s, d) /\ Learns(p, d)
<1>1. CallTypes /\ call[p] \in Calls
  BY TypeParts DEF CallTypes
<1>2. CASE EndsOnly(p)
  BY <1>2, EndsForgets, GotoSame DEF EndsOnly, SpawnFails, CheckList, BoundElsewhere, MintFails, MoveFails,
                                     DeleteFails
<1>3. CASE Onward(p) /\ ~Walk(p) /\ ~Select(p) /\ ~FindClosure(p)
  <2>1. CASE Prime(p) \/ PrimeFails(p) \/ NotElsewhere(p) \/ LinkInstead(p)
    BY <2>1, GotoSame DEF Prime, PrimeFails, NotElsewhere, LinkInstead
  <2>2. CASE Inherit(p)
    BY <1>1, <2>2 DEF Inherit, SameCall, CallTypes, Calls
  <2>3. ASSUME NEW t \in Tasks, SkipTask(p, t) \/ SpawnFor(p, t) PROVE SameCall(p)
    BY <1>1, <2>3 DEF SkipTask, SpawnFor, Considered, SameCall, CallTypes, Calls
  <2> QED
    BY <1>3, <2>1, <2>2, <2>3 DEF Onward
<1>4. CASE Writes(p)
  BY <1>4, EndsForgets, GotoSame DEF Writes, Add, Move, Merge, MergeFails, Cleanup, CleanupFails
<1>5. CASE Services(p)
  <2>1. CASE Drop(p) \/ DropFails(p) \/ AddFails(p) \/ DeleteTree(p) \/ ForkOfUnmapped(p)
    BY <2>1, EndsForgets, GotoSame DEF Drop, DropFails, AddFails, DeleteTree, ForkOfUnmapped
  <2>2. ASSUME NEW s \in Sessions, Spawn(p, s)
        PROVE  call'[p].session = s /\ call'[p].seen = call[p].seen
    BY <1>1, <2>2 DEF Spawn, CallTypes, Calls
  <2>3. ASSUME NEW s \in Sessions, NEW d \in Sessions, Fork(p, s, d) PROVE Learns(p, d)
    <3>1. call'[p] = [NoCall EXCEPT !.op = "fork", !.session = d]
      BY <2>3, ServeCall DEF Fork
    <3> QED
      BY <3>1 DEF NoCall, Learns
  <2>4. ASSUME NEW c \in Changes, Mint(p, c) PROVE SameCall(p)
    BY <1>1, <2>4 DEF Mint, SameCall, CallTypes, Calls
  <2> QED
    BY <1>5, <2>1, <2>2, <2>3, <2>4 DEF Services
<1>6. CASE Sweep(p)
  <2>1. PICK c, b : Serve(p, "node", [NoCall EXCEPT !.op = "auto", !.owner = c, !.todo = Tasks, !.bound = b])
    BY <1>6 DEF Sweep
  <2>2. call'[p] = [NoCall EXCEPT !.op = "auto", !.owner = c, !.todo = Tasks, !.bound = b]
    BY <2>1, ServeCall
  <2> QED
    BY <2>2 DEF NoCall, Forgets
<1>7. ASSUME NEW s \in Sessions, Scaffold(p, s) PROVE Learns(p, s)
  <2>1. call'[p] = [NoCall EXCEPT !.op = "scaffold", !.session = s]
    BY <1>7, ServeCall DEF Scaffold
  <2> QED
    BY <2>1 DEF NoCall, Learns
<1>8. CASE EndSweep(p)
  BY <1>1, <1>8 DEF EndSweep, Forgets, NoCall, CallTypes
<1>9. CASE MarkOpened(p) \/ MarkSpawned(p) \/ \E t \in Tasks : MarkBound(p, t)
  <2>1. CASE MarkOpened(p) \/ MarkSpawned(p)
    BY <2>1, EndsForgets, GotoSame DEF MarkOpened, MarkSpawned
  <2>2. ASSUME NEW t \in Tasks, MarkBound(p, t) PROVE SameCall(p)
    BY <1>1, <2>2 DEF MarkBound, Considered, SameCall, CallTypes, Calls
  <2> QED
    BY <1>9, <2>1, <2>2
<1> QED
  BY <1>2, <1>3, <1>4, <1>5, <1>6, <1>7, <1>8, <1>9, StepCases

(* Which steps lead to the labels the deletions and the merges work from,  *)
(* and to those from which an entry will be added.                         *)
Adding == {"prime", "mark", "add", "look", "listed", "elsewhere", "mint", "move"}
Working == {"delete", "closure", "cleanup", "select", "merge"}

LEMMA Arrivals ==
  ASSUME NEW p \in Procs, TypeInv, Step(p)
  PROVE  /\ pc'[p] \in {"delete", "closure"} => \E s \in Sessions : Delete(p, s)
         /\ pc'[p] = "cleanup" => DeleteTree(p) \/ FindClosure(p)
         /\ pc'[p] = "select" => Walk(p)
         /\ pc'[p] = "merge" => Select(p)
         /\ pc'[p] \in Adding =>
              \/ pc[p] \in Adding \/ Begin(p)
              \/ \E s \in Sessions : Spawn(p, s) \/ Scaffold(p, s)
              \/ \E s, d \in Sessions : Fork(p, s, d)
<1>1. CallTypes /\ Control
  BY TypeParts
<1>2. Knows(pc[p], call[p])
  BY <1>1 DEF Control
<1>3. ASSUME Ends(p) PROVE pc'[p] \in {"idle", "node"}
  BY <1>1, <1>3 DEF Ends, CallTypes
<1>4. ASSUME NEW l, Goto(p, l) PROVE pc'[p] = l
  BY <1>1, <1>4 DEF Goto, CallTypes
<1>5. ASSUME NEW l, NEW k, Serve(p, l, k) PROVE pc'[p] = l
  BY <1>1, <1>5 DEF Serve, CallTypes
<1>6. SUFFICES ASSUME pc'[p] \in Adding \cup Working,
                      ~(pc[p] \in Adding /\ pc'[p] \in Adding)
               PROVE  \/ pc'[p] \notin Working /\ Begin(p)
                      \/ pc'[p] \in {"delete", "closure"} /\ \E s \in Sessions : Delete(p, s)
                      \/ pc'[p] = "cleanup" /\ (DeleteTree(p) \/ FindClosure(p))
                      \/ pc'[p] = "select" /\ Walk(p)
                      \/ pc'[p] = "merge" /\ Select(p)
                      \/ pc'[p] \notin Working /\ \E s \in Sessions : Spawn(p, s) \/ Scaffold(p, s)
                      \/ pc'[p] \notin Working /\ \E s, d \in Sessions : Fork(p, s, d)
  BY DEF Adding, Working
<1>7. CASE Begin(p)
  <2>1. CASE \E s \in Sessions : Delete(p, s)
    BY <2>1, <1>5 DEF Delete
  <2>2. CASE Open(p) \/ Discuss(p) \/ OpenCommit(p) \/ OpenReview(p) \/ Handoff(p) \/ Reconcile(p) \/ \E s \in Sessions : Bind(p, s)
    <3>1. pc'[p] \in {"spawn", "mint", "walk", "listed"}
      BY <2>2, <1>5 DEF Open, Discuss, OpenCommit, OpenReview, Handoff, Reconcile, Bind
    <3> QED
      BY <1>7, <3>1 DEF Working
  <2> QED
    BY <1>7, <2>1, <2>2 DEF Begin
<1>8. ~EndsOnly(p)
  <2>1. ~SpawnFails(p) /\ ~BoundElsewhere(p) /\ ~MintFails(p) /\ ~MoveFails(p) /\ ~DeleteFails(p)
    BY <1>3, <1>6 DEF SpawnFails, BoundElsewhere, MintFails, MoveFails, DeleteFails, Adding, Working
  <2>2. ~CheckList(p)
    BY <1>3, <1>4, <1>6 DEF CheckList, At, Adding, Working
  <2> QED
    BY <2>1, <2>2 DEF EndsOnly
<1>9. CASE Onward(p)
  <2>1. ~Prime(p) /\ ~PrimeFails(p) /\ ~NotElsewhere(p) /\ ~LinkInstead(p)
    BY <1>4, <1>6 DEF Prime, PrimeFails, NotElsewhere, LinkInstead, At, Adding, Working
  <2>2. ~Inherit(p)
    BY <1>1, <1>6 DEF Inherit, At, CallTypes, Adding, Working
  <2>3. \A t \in Tasks : ~SkipTask(p, t) /\ ~SpawnFor(p, t)
    BY <1>1, <1>6 DEF SkipTask, SpawnFor, At, CallTypes, Adding, Working
  <2>4. (Walk(p) => pc'[p] = "select") /\ (Select(p) => pc'[p] = "merge") /\ (FindClosure(p) => pc'[p] = "cleanup")
    BY <1>1 DEF Walk, Select, FindClosure, CallTypes
  <2> QED
    BY <1>9, <2>1, <2>2, <2>3, <2>4 DEF Onward
<1>10. ~Writes(p)
  BY <1>3, <1>4, <1>6 DEF Writes, Add, Move, Merge, MergeFails, Cleanup, CleanupFails, Adding, Working
<1>11. CASE Services(p)
  <2>1. ~Drop(p) /\ ~DropFails(p) /\ ~ForkOfUnmapped(p)
    BY <1>3, <1>6 DEF Drop, DropFails, ForkOfUnmapped, Adding, Working
  <2>6. ~AddFails(p)
    BY <1>3, <1>4, <1>6 DEF AddFails, Adding, Working
  <2>2. DeleteTree(p) => pc'[p] = "cleanup"
    BY <1>3, <1>4, <1>6 DEF DeleteTree, Adding, Working
  <2>3. \A c \in Changes : ~Mint(p, c)
    BY <1>1, <1>6 DEF Mint, At, CallTypes, Adding, Working
  <2>4. \A s \in Sessions : Spawn(p, s) => pc'[p] \notin Working
    BY <1>1 DEF Spawn, CallTypes, Working
  <2>5. \A s, d \in Sessions : Fork(p, s, d) => pc'[p] \notin Working
    BY <1>5 DEF Fork, Working
  <2> QED
    BY <1>11, <2>1, <2>2, <2>3, <2>4, <2>5, <2>6 DEF Services
<1>12. CASE Sweep(p) \/ \E s \in Sessions : Scaffold(p, s)
  <2>1. ~Sweep(p)
    BY <1>5, <1>6 DEF Sweep, Adding, Working
  <2>2. \A s \in Sessions : Scaffold(p, s) => pc'[p] \notin Working
    BY <1>5 DEF Scaffold, Working
  <2> QED
    BY <1>12, <2>1, <2>2
<1>13. ~EndSweep(p) /\ ~MarkOpened(p) /\ ~MarkSpawned(p) /\ \A t \in Tasks : ~MarkBound(p, t)
  <2>1. ~EndSweep(p) /\ ~MarkSpawned(p)
    BY <1>1, <1>3, <1>6 DEF EndSweep, MarkSpawned, CallTypes, Adding, Working
  <2>2. ~MarkOpened(p)
    BY <1>4, <1>6 DEF MarkOpened, At, Adding, Working
  <2>3. \A t \in Tasks : ~MarkBound(p, t)
    BY <1>1, <1>6 DEF MarkBound, At, CallTypes, Adding, Working
  <2> QED
    BY <2>1, <2>2, <2>3
<1> QED
  BY <1>7, <1>8, <1>9, <1>10, <1>11, <1>12, <1>13, StepCases

(* What a request knows of lasts.                                          *)
LEMMA KnowingLasts ==
  ASSUME TypeInv, Families, [Next]_vars, NEW l, NEW s \in Sessions \cup {None}, NEW S \in SUBSET Sessions,
         l \in {"delete", "closure"} => s \in Sessions, Knowing(l, s, S)
  PROVE  Knowing(l, s, S)'
BY Lasting DEF Knowing

LEMMA KnownIs ==
  ASSUME NEW q \in Procs, NEW l, NEW s, NEW S, Knowing(l, s, S)',
         pc'[q] = l, call'[q].session = s, call'[q].seen = S
  PROVE  Known(q)'
BY DEF Known, Knowing, Born, Gone, Descends, IsTree

LEMMA KnownKept ==
  ASSUME TypeInv, Kinship, [Next]_vars, NEW q \in Procs, pc'[q] = pc[q], call'[q] = call[q]
  PROVE  Known(q)'
<1>1. call[q].seen \subseteq Sessions /\ call[q].session \in Sessions \cup {None} /\ Knows(pc[q], call[q])
  BY TypeParts DEF CallTypes, Calls, Control
<1>2. PICK l, s, S : l = pc[q] /\ s = call[q].session /\ S = call[q].seen
  OBVIOUS
<1>3. Knowing(l, s, S) /\ Families
  BY <1>2 DEF Kinship, Known
<1>4. s \in Sessions \cup {None} /\ S \in SUBSET Sessions /\ (l \in {"delete", "closure"} => s \in Sessions)
  BY <1>1, <1>2 DEF Knows
<1> QED
  BY <1>2, <1>3, <1>4, KnowingLasts, KnownIs

(* What the mapping connects to a session that is gone is gone too.        *)
LEMMA ClosureIsGone ==
  ASSUME TypeInv, Kinship, NEW s \in Sessions, Gone(s)
  PROVE  \A d \in Closure(s) : Gone(d)
<1> DEFINE T == {d \in Sessions : Gone(d)}
<1>1. ServiceTypes /\ RowTypes /\ None \notin Sessions
  BY TypeParts, MappingAssumption
<1>2. ASSUME NEW r \in rows, r.parent \in T PROVE r.session \in T
  <2>1. r.session \in Sessions /\ up[r.session] # "unborn" /\ parent[r.session] \in T
    BY <1>1, <1>2 DEF Kinship, Entered, Born, RowTypes, Rows
  <2> QED
    BY <1>1, <2>1 DEF Kinship, Families, Gone, ServiceTypes
<1>3. s \in T
  OBVIOUS
<1> QED
  BY <1>2, <1>3 DEF Closure

LEMMA DeleteCall ==
  ASSUME NEW p \in Procs, TypeInv, NEW s \in Sessions, Delete(p, s)
  PROVE  /\ call'[p].session = s
         /\ \/ up[s] = "live" /\ call'[p].seen = Tree(s) /\ pc'[p] = "delete"
            \/ up[s] = "gone" /\ call'[p].seen = {} /\ pc'[p] = "closure"
<1> DEFINE T == Tree(s)
<1> HIDE DEF T
<1>1. CASE up[s] = "live"
  <2>1. call'[p] = [NoCall EXCEPT !.op = "delete", !.session = s, !.seen = T] /\ pc'[p] = "delete"
    BY <1>1, ServeCall DEF Delete, T
  <2> QED
    BY <1>1, <2>1 DEF NoCall, T
<1>2. CASE up[s] = "gone"
  <2>1. call'[p] = [NoCall EXCEPT !.op = "delete", !.session = s] /\ pc'[p] = "closure"
    BY <1>2, ServeCall DEF Delete
  <2> QED
    BY <1>2, <2>1 DEF NoCall
<1> QED
  BY <1>1, <1>2 DEF Delete

LEMMA KnownNext ==
  ASSUME TypeInv, Kinship, [Next]_vars, NEW p \in Procs, Step(p)
  PROVE  Known(p)'
<1>1. CallTypes /\ Control /\ ServiceTypes /\ None \notin Sessions /\ Families
  BY TypeParts, MappingAssumption DEF Kinship
<1>2. /\ call[p].seen \subseteq Sessions /\ call[p].session \in Sessions \cup {None}
      /\ Knows(pc[p], call[p]) /\ Knowing(pc[p], call[p].session, call[p].seen)
  BY <1>1 DEF CallTypes, Calls, Control, Kinship, Known
<1>3. PICK l, t, S : l = pc'[p] /\ t = call'[p].session /\ S = call'[p].seen
  OBVIOUS
<1>4. SUFFICES Knowing(l, t, S)'
  BY <1>3, KnownIs
<1>5. \A s \in Sessions : \A d \in Tree(s) : d \in Sessions /\ up[d] = "live" /\ Born(d)
  BY DEF Tree, Born
<1>6. ASSUME NEW s \in Sessions, Delete(p, s)
      PROVE  Knowing(l, t, S)'
  <2>1. t = s /\ S \in SUBSET Sessions /\ Knowing(l, t, S)
    <3>1. CASE up[s] = "live"
      BY <1>3, <1>5, <1>6, <3>1, DeleteCall, TreeIsDescent DEF Knowing, Born
    <3>2. CASE up[s] = "gone"
      BY <1>3, <1>6, <3>2, DeleteCall DEF Knowing, Born, Gone
    <3> QED
      BY <1>6, <3>1, <3>2 DEF Delete
  <2> QED
    BY <1>1, <2>1, KnowingLasts
<1>7. CASE FindClosure(p)
  <2>1. /\ t = call[p].session /\ S = Closure(call[p].session)
        /\ l = "cleanup" /\ t \in Sessions /\ Gone(t)
    BY <1>1, <1>2, <1>3, <1>7 DEF FindClosure, At, Knows, Knowing, CallTypes, Calls
  <2>2. S \in SUBSET Sessions /\ \A d \in S : Gone(d)
    BY <2>1, ClosureIsGone, Subsets
  <2>3. Knowing(l, t, S)
    BY <2>1, <2>2 DEF Knowing, Born, Gone
  <2> QED
    BY <1>1, <2>1, <2>2, <2>3, KnowingLasts
<1>8. CASE DeleteTree(p) /\ l = "cleanup"
  <2>1. call[p].session \in Sessions /\ Death(call[p].session) /\ t = call[p].session /\ S = call[p].seen
    <3>1. ~Ends(p)
      BY <1>1, <1>3, <1>8 DEF Ends, CallTypes
    <3>2. SameCall(p)
      BY <1>8, <3>1, GotoSame DEF DeleteTree
    <3> QED
      BY <1>2, <1>3, <1>8, <3>2 DEF DeleteTree, At, Knows, Death, SameCall
  <2>2. Born(t) /\ \A d \in S : d \in Sessions /\ Born(d) /\ Descends(d, t)
    BY <1>1, <1>2, <1>8, <2>1 DEF DeleteTree, Knowing, At
  <2>3. \A d \in S : Gone(d)'
    BY <1>1, <2>1, <2>2, TreeIsDescent DEF Death, Deleted, Gone, Born, ServiceTypes
  <2>4. Born(t)' /\ \A d \in S : Born(d)'
    BY <1>1, <2>1, <2>2, Lasting
  <2> QED
    BY <1>8, <2>3, <2>4 DEF Knowing
<1>9. CASE l # "cleanup" /\ \A s \in Sessions : ~Delete(p, s)
  <2>1. l \notin {"delete", "closure", "cleanup"}
    BY <1>3, <1>9, Arrivals
  <2>2. ASSUME t # None => Born(t)', \A d \in S : Born(d)' PROVE Knowing(l, t, S)'
    BY <2>1, <2>2 DEF Knowing
  <2>3. \A s \in Sessions : Born(s) => Born(s)'
    BY <1>1, Lasting
  <2>4. /\ call[p].session # None => Born(call[p].session)
        /\ \A d \in call[p].seen : Born(d)
    BY <1>2 DEF Knowing
  <2>5. ASSUME t \in {None, call[p].session}, S \subseteq call[p].seen PROVE Knowing(l, t, S)'
    <3>1. t # None => Born(t) /\ t \in Sessions
      BY <1>2, <2>4, <2>5
    <3>2. \A d \in S : Born(d) /\ d \in Sessions
      BY <1>2, <2>4, <2>5
    <3> QED
      BY <2>2, <2>3, <3>1, <3>2
  <2>6. CASE Forgets(p) \/ SameCall(p)
    BY <1>3, <2>5, <2>6 DEF Forgets, SameCall
  <2>7. CASE Select(p)
    <3>1. call'[p].session = call[p].session /\ call'[p].seen \subseteq call[p].seen
      BY <1>1, <2>7 DEF Select, CallTypes, Calls, Claims
    <3> QED
      BY <1>3, <2>5, <3>1
  <2>8. ASSUME NEW s \in Sessions, up[s] = "live", Learns(p, s) PROVE Knowing(l, t, S)'
    <3>1. t = s /\ S = {} /\ Born(s)
      BY <1>3, <2>8 DEF Learns, Born
    <3> QED
      BY <2>2, <2>3, <3>1
  <2>9. CASE Walk(p)
    <3>1. /\ call'[p].session = call[p].session /\ call[p].roots \subseteq Sessions
          /\ call'[p].seen = UNION {Tree(s) : s \in call[p].roots} \ call[p].roots
      BY <1>1, <2>9 DEF Walk, CallTypes, Calls
    <3>2. \A d \in S : Born(d) /\ d \in Sessions
      BY <1>3, <1>5, <3>1
    <3>3. t # None => Born(t) /\ t \in Sessions
      BY <1>2, <1>3, <2>4, <3>1
    <3> QED
      BY <2>2, <2>3, <3>2, <3>3
  <2>10. ASSUME NEW s \in Sessions, Spawn(p, s), call'[p].session = s, call'[p].seen = call[p].seen
         PROVE  Knowing(l, t, S)'
    <3>1. t = s /\ Born(s)'
      BY <1>1, <1>3, <2>10 DEF Spawn, Born, ServiceTypes
    <3>2. \A d \in S : Born(d) /\ d \in Sessions
      BY <1>2, <1>3, <2>4, <2>10
    <3> QED
      BY <2>2, <2>3, <3>1, <3>2
  <2>11. ASSUME NEW s \in Sessions, NEW d \in Sessions, Fork(p, s, d), Learns(p, d)
         PROVE  Knowing(l, t, S)'
    <3>1. t = d /\ S = {} /\ Born(d)'
      BY <1>1, <1>3, <2>11 DEF Fork, Born, Learns, ServiceTypes
    <3> QED
      BY <2>2, <3>1
  <2>12. CASE Begin(p)
    BY <1>9, <2>6, <2>8, <2>12, BeginCall DEF Bind
  <2>13. ~FindClosure(p)
    BY <1>1, <1>3, <1>9 DEF FindClosure, CallTypes
  <2> QED
    BY <2>6, <2>7, <2>8, <2>9, <2>10, <2>11, <2>12, <2>13, CallChanges DEF Scaffold
<1> QED
  BY <1>3, <1>6, <1>7, <1>8, <1>9, Arrivals

LEMMA KinshipNext == TypeInv /\ Kinship /\ [Next]_vars => Kinship'
<1> SUFFICES ASSUME TypeInv, Kinship, [Next]_vars PROVE Kinship'
  OBVIOUS
<1>1. Families' /\ Entered'
  BY FamiliesNext, EnteredNext DEF Kinship
<1>2. ASSUME NEW q \in Procs PROVE Known(q)'
  <2>1. ASSUME NEW p \in Procs, Step(p) PROVE Known(q)'
    <3>1. CASE q = p
      BY <2>1, <3>1, KnownNext
    <3>2. CASE q # p
      BY <2>1, <3>2, OthersStay, KnownKept
    <3> QED
      BY <3>1, <3>2
  <2>2. CASE UNCHANGED <<pc, call>>
    BY <2>2, KnownKept
  <2>3. CASE Restart
    BY <2>3 DEF Restart, Known, Knowing, NoCall
  <2>4. CASE (\E s \in Sessions : Unlink(s)) \/ \E s, d \in Sessions : Delegate(s, d)
    BY <2>2, <2>4 DEF Unlink, Delegate
  <2> QED
    BY <2>1, <2>2, <2>3, <2>4 DEF Next, vars
<1> QED
  BY <1>1, <1>2 DEF Kinship

LEMMA InitKinship == Init => Kinship
<1> SUFFICES ASSUME Init PROVE Kinship
  OBVIOUS
<1>1. Families
  BY DEF Init, Families, Born
<1>2. Entered
  <2>1. \A r \in First : r.session \in {Work, Chat} /\ r.parent = None
    BY DEF First, Entry
  <2>2. Born(Work) /\ Born(Chat)
    BY MappingAssumption DEF Init, Born
  <2> QED
    BY <2>1, <2>2 DEF Init, Entered
<1>3. \A p \in Procs : Known(p)
  BY DEF Init, Known, Knowing, NoCall
<1> QED
  BY <1>1, <1>2, <1>3 DEF Kinship

-----------------------------------------------------------------------------
(* No leaks                                                                *)

(* What lessmess opened and lives is in the file, or excused, or held: a   *)
(* stop may come at any time, so memory does not do.                       *)
Saved(s) == \E r \in disk : r.session = s
LeakInv ==
  /\ \A s \in made : Born(s)
  /\ \A s \in made : up[s] = "live" =>
       Saved(s) \/ s \in released \/ s \in adrift \/ \E p \in Procs : s \in Holding(p)

LEMMA HistoryGrows ==
  ASSUME TypeInv, [Next]_vars
  PROVE  released \subseteq released' /\ adrift \subseteq adrift' /\ stale \subseteq stale' /\ cut \subseteq cut'
<1>1. ASSUME NEW p \in Procs, Quiet(p) PROVE UNCHANGED history
  BY <1>1, QuietFrame
<1>2. ASSUME NEW p \in Procs, Writes(p)
      PROVE  released \subseteq released' /\ adrift \subseteq adrift' /\ stale \subseteq stale' /\ cut \subseteq cut'
  BY <1>2 DEF Writes, Add, Move, Merge, MergeFails, Cleanup, CleanupFails, history
<1>3. ASSUME NEW p \in Procs, Services(p)
      PROVE  released \subseteq released' /\ adrift \subseteq adrift' /\ stale \subseteq stale' /\ cut \subseteq cut'
  BY <1>3 DEF Services, Drop, DropFails, AddFails, DeleteTree, ForkOfUnmapped, Spawn, Fork, Mint
<1>4. ASSUME NEW s \in Sessions, NEW d \in Sessions, Unlink(s) \/ Delegate(s, d)
      PROVE  released \subseteq released' /\ adrift \subseteq adrift' /\ stale \subseteq stale' /\ cut \subseteq cut'
  BY <1>4 DEF Unlink, Delegate, history
<1>5. CASE Restart
  BY <1>5 DEF Restart
<1> QED
  BY <1>1, <1>2, <1>3, <1>4, <1>5, StepKinds DEF Next, vars, history

LEMMA MadeIsHeld ==
  ASSUME NEW p \in Procs, TypeInv, Step(p), NEW s \in made' \ made
  PROVE  s \in Sessions /\ up'[s] = "live" /\ s \in Holding(p)'
<1>1. CallTypes /\ Control /\ ServiceTypes /\ HistoryTypes
  BY TypeParts
<1>2. CASE Quiet(p)
  BY <1>2, QuietFrame DEF history
<1>3. CASE Writes(p)
  BY <1>3 DEF Writes, Add, Move, Merge, MergeFails, Cleanup, CleanupFails, history
<1>4. ASSUME NEW d \in Sessions, Spawn(p, d)
      PROVE  s \in Sessions /\ up'[s] = "live" /\ s \in Holding(p)'
  <2>1. s = d /\ up'[d] = "live"
    BY <1>1, <1>4 DEF Spawn, ServiceTypes
  <2>2. pc'[p] \in {"add", "prime"} /\ call'[p] = [call[p] EXCEPT !.session = d]
    BY <1>1, <1>4 DEF Spawn, CallTypes
  <2>3. call[p] \in Calls /\ call[p].op \notin {"bind", "scaffold"}
    BY <1>1, <1>4 DEF Spawn, At, Control, Knows, CallTypes
  <2>4. call'[p].session = d /\ call'[p].op \notin {"bind", "scaffold"}
    BY <2>2, <2>3 DEF Calls
  <2> QED
    BY <1>4, <2>1, <2>2, <2>4 DEF Holding
<1>5. ASSUME NEW e \in Sessions, NEW d \in Sessions, Fork(p, e, d)
      PROVE  s \in Sessions /\ up'[s] = "live" /\ s \in Holding(p)'
  <2>1. s = d /\ up'[d] = "live"
    BY <1>1, <1>5 DEF Fork, ServiceTypes
  <2>2. pc'[p] = "look" /\ call'[p] = [NoCall EXCEPT !.op = "fork", !.session = d]
    BY <1>5, ServeCall DEF Fork
  <2>3. call'[p].session = d /\ call'[p].op = "fork"
    BY <2>2 DEF NoCall
  <2> QED
    BY <1>5, <2>1, <2>2, <2>3 DEF Holding
<1>6. CASE Services(p) /\ made' = made
  BY <1>6
<1> QED
  BY <1>2, <1>3, <1>4, <1>5, <1>6, StepKinds DEF Services, Drop, DropFails, AddFails, DeleteTree, ForkOfUnmapped, Mint

LEMMA HeldUntilSettled ==
  ASSUME NEW p \in Procs, TypeInv, Step(p), NEW s \in Holding(p)
  PROVE  \/ s \in Holding(p)' \/ Saved(s)'
         \/ s \in released' \/ s \in adrift' \/ up'[s] # "live"
<1>1. CallTypes /\ Control /\ ServiceTypes /\ call[p] \in Calls /\ Knows(pc[p], call[p])
  BY TypeParts DEF CallTypes, Control
<1>2. /\ pc[p] \in {"prime", "mark", "add", "drop", "look"} /\ call[p].op \notin {"bind", "scaffold"}
      /\ s = call[p].session /\ s \in Sessions
  BY <1>1 DEF Holding, Knows
<1>3. ASSUME NEW l \in {"mark", "add", "drop"}, Goto(p, l) PROVE s \in Holding(p)'
  BY <1>1, <1>2, <1>3 DEF Goto, Holding, CallTypes
<1>4. CASE Prime(p) \/ PrimeFails(p) \/ MarkOpened(p)
  BY <1>3, <1>4 DEF Prime, PrimeFails, MarkOpened
<1>5. CASE AddFails(p)
  <2>1. CASE call[p].op = "review"
    BY <1>2, <1>5, <2>1 DEF AddFails
  <2>2. CASE call[p].op # "review"
    BY <1>2, <1>3, <1>5, <2>2 DEF AddFails
  <2> QED
    BY <2>1, <2>2
<1>6. CASE Add(p)
  <2>1. RowOf(p) \in disk' /\ RowOf(p).session = s
    BY <1>2, <1>6 DEF Add, Save, RowOf
  <2> QED
    BY <2>1 DEF Saved
<1>7. CASE Drop(p)
  <2>1. up[s] = "live" => s \in Tree(s)
    BY <1>2 DEF Tree, IsTree
  <2> QED
    BY <1>2, <1>7, <2>1 DEF Drop, Deleted
<1>8. CASE DropFails(p) \/ ForkOfUnmapped(p)
  BY <1>2, <1>8 DEF DropFails, ForkOfUnmapped
<1>9. CASE Inherit(p)
  <2>1. PICK o, t : call' = [call EXCEPT ![p].owner = o, ![p].task = t]
    BY <1>9 DEF Inherit
  <2>2. pc'[p] = "add" /\ call'[p] = [call[p] EXCEPT !.owner = o, !.task = t]
    BY <1>1, <1>9, <2>1 DEF Inherit, CallTypes
  <2>3. call'[p].session = s /\ call'[p].op = call[p].op
    BY <1>1, <1>2, <2>2 DEF Calls
  <2> QED
    BY <1>2, <2>2, <2>3 DEF Holding
<1>10. ~Begin(p) /\ ~Sweep(p) /\ \A d \in Sessions : ~Scaffold(p, d)
  BY <1>2 DEF Begin, Open, Discuss, OpenCommit, OpenReview, Handoff, Reconcile, Bind, Delete, Sweep, Scaffold, Serve, At
<1>11. ~EndsOnly(p)
  BY <1>2 DEF EndsOnly, SpawnFails, CheckList, BoundElsewhere, MintFails, MoveFails, DeleteFails, At
<1>12. Onward(p) => Prime(p) \/ PrimeFails(p) \/ Inherit(p)
  BY <1>2 DEF Onward, NotElsewhere, LinkInstead, Walk, Select, FindClosure, SkipTask, SpawnFor, At
<1>13. Writes(p) => Add(p)
  BY <1>2 DEF Writes, Move, Merge, MergeFails, Cleanup, CleanupFails, At
<1>14. Services(p) => Drop(p) \/ DropFails(p) \/ AddFails(p) \/ ForkOfUnmapped(p)
  BY <1>2 DEF Services, DeleteTree, Spawn, Fork, Mint, Serve, At
<1>15. ~EndSweep(p) /\ ~MarkSpawned(p) /\ \A t \in Tasks : ~MarkBound(p, t)
  BY <1>2 DEF EndSweep, MarkSpawned, MarkBound, At
<1> QED
  BY <1>4, <1>5, <1>6, <1>7, <1>8, <1>9, <1>10, <1>11, <1>12, <1>13, <1>14, <1>15, StepCases

LEMMA SavedUntilSettled ==
  ASSUME TypeInv, Kinship, [Next]_vars, NEW s \in Sessions, Saved(s)
  PROVE  Saved(s)' \/ s \in released' \/ Gone(s)
<1>1. PICK r \in disk : r.session = s
  BY DEF Saved
<1>2. r \in rows
  BY <1>1 DEF Kinship, Entered
<1>3. CASE disk \subseteq disk' \/ rows \subseteq disk'
  BY <1>1, <1>2, <1>3 DEF Saved
<1>4. ASSUME NEW p \in Procs, Move(p) PROVE Saved(s)'
  <2>1. PICK o \in rows : Save((rows \ {o}) \cup {[o EXCEPT !.owner = call[p].owner]})
    BY <1>4 DEF Move, InBucket, RowsOf
  <2> DEFINE m == [o EXCEPT !.owner = call[p].owner]
  <2>2. m.session = o.session /\ o \in Rows
    BY TypeParts DEF RowTypes, Rows
  <2> HIDE DEF m
  <2>3. disk' = (rows \ {o}) \cup {m}
    BY <2>1 DEF Save, m
  <2> QED
    BY <1>1, <1>2, <2>2, <2>3 DEF Saved
<1>5. ASSUME NEW p \in Procs, Cleanup(p) PROVE Saved(s)' \/ Gone(s)
  <2>1. CASE disk' = rows \ Doomed(p)
    <3>1. CASE r \in Doomed(p)
      BY <1>1, <1>5, <3>1 DEF Doomed, Cleanup, At, Kinship, Known, Knowing
    <3>2. CASE r \notin Doomed(p)
      BY <1>1, <1>2, <2>1, <3>2 DEF Saved
    <3> QED
      BY <3>1, <3>2
  <2>2. CASE disk' = disk
    BY <1>1, <2>2 DEF Saved
  <2>3. disk' = rows \ Doomed(p) \/ disk' = disk
    BY <1>5 DEF Cleanup, Save, mapping
  <2> QED
    BY <2>1, <2>2, <2>3
<1>6. ASSUME NEW d \in Sessions, Unlink(d) PROVE Saved(s)' \/ s \in released'
  <2>1. CASE s = d
    BY <1>6, <2>1 DEF Unlink
  <2>2. CASE s # d
    <3>1. r \in disk'
      BY <1>1, <1>2, <1>6, <2>2 DEF Unlink, Save, RowsOf
    <3> QED
      BY <1>1, <3>1 DEF Saved
  <2> QED
    BY <2>1, <2>2
<1>7. ASSUME NEW p \in Procs, Step(p), ~Move(p), ~Cleanup(p) PROVE disk \subseteq disk' \/ rows \subseteq disk'
  <2>1. CASE Quiet(p)
    BY <2>1, QuietFrame DEF mapping
  <2>2. CASE Services(p)
    BY <2>2 DEF Services, Drop, DropFails, AddFails, Undo, DeleteTree, ForkOfUnmapped, Spawn, Fork, Mint, mapping
  <2>3. CASE Writes(p)
    BY <1>7, <2>3 DEF Writes, Add, Merge, MergeFails, CleanupFails, Save, Undo, mapping
  <2> QED
    BY <1>7, <2>1, <2>2, <2>3, StepKinds
<1>8. CASE Restart \/ UNCHANGED vars \/ \E d, e \in Sessions : Delegate(d, e)
  BY <1>3, <1>8 DEF Restart, vars, Delegate, mapping
<1> QED
  BY <1>3, <1>4, <1>5, <1>6, <1>7, <1>8 DEF Next

LEMMA NextLeak == TypeInv /\ Kinship /\ LeakInv /\ [Next]_vars => LeakInv'
<1> SUFFICES ASSUME TypeInv, Kinship, LeakInv, [Next]_vars,
                    NEW s \in made'
             PROVE  /\ Born(s)'
                    /\ up'[s] = "live" => \/ Saved(s)' \/ s \in released' \/ s \in adrift'
                                         \/ \E p \in Procs : s \in Holding(p)'
  BY DEF LeakInv
<1>1. made \subseteq Sessions /\ ServiceTypes
  BY TypeParts DEF HistoryTypes
<1>2. CASE s \notin made
  <2>1. PICK p \in Procs : Step(p)
    BY <1>2 DEF Next, Unlink, Delegate, Restart, vars, history
  <2> QED
    BY <1>2, <2>1, MadeIsHeld DEF Born
<1>3. CASE s \in made
  <2>1. s \in Sessions /\ Born(s) /\ Born(s)'
    BY <1>1, <1>3, Lasting DEF LeakInv, Kinship
  <2>2. SUFFICES ASSUME up'[s] = "live"
                 PROVE  \/ Saved(s)' \/ s \in released' \/ s \in adrift'
                        \/ \E p \in Procs : s \in Holding(p)'
    BY <2>1
  <2>3. up[s] = "live"
    BY <2>1, <2>2, Lasting DEF Kinship, Born
  <2>4. CASE Saved(s)
    BY <2>1, <2>3, <2>4, SavedUntilSettled DEF Gone
  <2>5. CASE s \in released \/ s \in adrift
    BY <2>5, HistoryGrows
  <2>6. ASSUME NEW q \in Procs, s \in Holding(q)
        PROVE  \/ Saved(s)' \/ s \in released' \/ s \in adrift'
               \/ \E p \in Procs : s \in Holding(p)'
    <3>1. ASSUME NEW p \in Procs, Step(p)
          PROVE  \/ Saved(s)' \/ s \in released' \/ s \in adrift'
                 \/ \E o \in Procs : s \in Holding(o)'
      <4>1. CASE p = q
        BY <2>2, <2>6, <3>1, <4>1, HeldUntilSettled
      <4>2. CASE p # q
        BY <2>6, <3>1, <4>2, OthersStay DEF Holding
      <4> QED
        BY <4>1, <4>2
    <3>2. CASE Restart
      BY <2>6, <3>2 DEF Restart
    <3>3. CASE UNCHANGED <<pc, call>>
      BY <2>6, <3>3 DEF Holding
    <3> QED
      BY <3>1, <3>2, <3>3 DEF Next, Unlink, Delegate, vars
  <2> QED
    BY <1>3, <2>3, <2>4, <2>5, <2>6 DEF LeakInv
<1> QED
  BY <1>2, <1>3

(* A session lessmess opened is mapped, deleted, held by its request, or   *)
(* unlinked, unless a stop or a failed compensation left it behind:        *)
(* SessionMapping's NothingLeaks.                                          *)
THEOREM NoSessionLeaks == Spec => []NothingLeaks
<1>1. Init => LeakInv
  <2> SUFFICES ASSUME Init PROVE LeakInv
    OBVIOUS
  <2>1. Born(Work) /\ Born(Chat)
    BY MappingAssumption DEF Init, Born
  <2>2. Entry(Work, Old).session = Work /\ Entry(Chat, Unassigned).session = Chat
    BY DEF Entry
  <2> QED
    BY <2>1, <2>2 DEF Init, LeakInv, Saved, First
<1>2. Kinship /\ LeakInv => NothingLeaks
  BY DEF Kinship, Entered, LeakInv, NothingLeaks, Saved, Mapped, RowsOf
<1> QED
  BY <1>1, <1>2, InitTypes, NextTypes, InitKinship, KinshipNext, NextLeak, PTL DEF Spec

-----------------------------------------------------------------------------
(* No ghosts                                                               *)

(* An entry of a deleted session, a request that will add one and a merge  *)
(* that will add several are excused when the session was deleted while    *)
(* another request knew it, or its deletion was cut short.                 *)
Excused(s) == s \in stale \cup cut
Claiming == {"select", "merge"}
GhostInv ==
  /\ \A r \in rows : Gone(r.session) =>
       Excused(r.session) \/ \E p \in Procs : At(p, "cleanup") /\ r.session \in call[p].seen
  /\ \A p \in Procs : pc[p] \in Adding /\ call[p].session # None /\ Gone(call[p].session) =>
       Excused(call[p].session)
  /\ \A p \in Procs : pc[p] \in Claiming => \A d \in call[p].seen : Gone(d) => Excused(d)

LEMMA CleanupIsNext ==
  ASSUME NEW p \in Procs, Step(p), At(p, "cleanup")
  PROVE  Cleanup(p) \/ CleanupFails(p)
<1>1. ~Begin(p) /\ ~Sweep(p) /\ \A s \in Sessions : ~Scaffold(p, s)
  BY DEF Begin, Open, Discuss, OpenCommit, OpenReview, Handoff, Reconcile, Bind, Delete, Sweep, Scaffold, Serve, At
<1>2. ~EndsOnly(p)
  BY DEF EndsOnly, SpawnFails, CheckList, BoundElsewhere, MintFails, MoveFails, DeleteFails, At
<1>3. ~Onward(p)
  BY DEF Onward, Prime, PrimeFails, NotElsewhere, LinkInstead, Inherit, Walk, Select, FindClosure,
         SkipTask, SpawnFor, At
<1>4. ~Services(p)
  BY DEF Services, Drop, DropFails, AddFails, DeleteTree, ForkOfUnmapped, Spawn, Fork, Mint, Serve, At
<1>5. ~EndSweep(p) /\ ~MarkOpened(p) /\ ~MarkSpawned(p) /\ \A t \in Tasks : ~MarkBound(p, t)
  BY DEF EndSweep, MarkOpened, MarkSpawned, MarkBound, At
<1>6. Writes(p) => Cleanup(p) \/ CleanupFails(p)
  BY DEF Writes, Add, Move, Merge, MergeFails, At
<1> QED
  BY <1>1, <1>2, <1>3, <1>4, <1>5, <1>6, StepCases

(* Only a compensating delete and a deletion take a session away.          *)
LEMMA DeathHasAuthor ==
  ASSUME TypeInv, [Next]_vars, NEW s \in Sessions, ~Gone(s), Gone(s)'
  PROVE  \E p \in Procs : /\ Drop(p) \/ DeleteTree(p)
                          /\ Step(p) /\ s \in Tree(call[p].session)
<1>1. ServiceTypes
  BY TypeParts
<1>2. up' # up
  BY DEF Gone
<1>3. PICK p \in Procs : Step(p)
  <2>1. ~Restart /\ \A d \in Sessions : ~Unlink(d)
    BY <1>2 DEF Restart, Unlink, service
  <2>2. \A d, e \in Sessions : ~Delegate(d, e)
    BY <1>1 DEF Delegate, Gone, ServiceTypes
  <2> QED
    BY <1>2, <2>1, <2>2 DEF Next, vars, service
<1>4. ~Quiet(p) /\ ~Writes(p)
  BY <1>2, QuietFrame DEF service, Writes, Add, Move, Merge, MergeFails, Cleanup, CleanupFails
<1>5. ~DropFails(p) /\ ~AddFails(p) /\ ~ForkOfUnmapped(p) /\ \A c \in Changes : ~Mint(p, c)
  BY <1>2 DEF DropFails, AddFails, ForkOfUnmapped, Mint, service
<1>6. \A d, e \in Sessions : ~Spawn(p, d) /\ ~Fork(p, e, d)
  BY <1>1 DEF Spawn, Fork, Gone, ServiceTypes
<1>7. Drop(p) \/ DeleteTree(p)
  BY <1>3, <1>4, <1>5, <1>6, StepKinds DEF Services
<1>8. s \in Tree(call[p].session)
  BY <1>1, <1>7 DEF Drop, DeleteTree, Deleted, Gone, ServiceTypes
<1> QED
  BY <1>3, <1>7, <1>8

(* Whoever knows a session that is deleted now finds it excused, unless    *)
(* it is the deletion that is about to remove the entries.                 *)
LEMMA DeathsAreKnown ==
  ASSUME TypeInv, [Next]_vars, NEW s \in Sessions, ~Gone(s), Gone(s)'
  PROVE  /\ Excused(s)' \/ \E p \in Procs : At(p, "cleanup")' /\ s \in call'[p].seen
         /\ \A q \in Procs :
              pc'[q] \in Adding \cup Claiming /\ (s = call'[q].session \/ s \in call'[q].seen) => Excused(s)'
<1>1. CallTypes
  BY TypeParts
<1>2. PICK p \in Procs : (Drop(p) \/ DeleteTree(p)) /\ Step(p) /\ s \in Tree(call[p].session)
  BY DeathHasAuthor
<1>3. pc'[p] \notin Adding \cup Claiming
  BY <1>1, <1>2 DEF Drop, DeleteTree, Ends, Goto, CallTypes, Adding, Claiming
<1>4. CASE Drop(p)
  <2>1. Excused(s)'
    BY <1>2, <1>4 DEF Drop, Excused
  <2> QED
    BY <2>1
<1>5. CASE DeleteTree(p)
  <2>1. s \in call[p].seen \/ Excused(s)'
    BY <1>2, <1>5 DEF DeleteTree, Excused
  <2>2. Excused(s)' \/ Goto(p, "cleanup")
    BY <1>2, <1>5 DEF DeleteTree, Excused
  <2>3. Goto(p, "cleanup") => pc'[p] = "cleanup" /\ call'[p].seen = call[p].seen
    BY <1>1 DEF Goto, CallTypes
  <2>4. ASSUME NEW q \in Procs \ {p}, s = call'[q].session \/ s \in call'[q].seen
        PROVE  Excused(s)'
    <3>1. s \in call[q].seen \cup {call[q].session}
      BY <1>2, <2>4, OthersStay
    <3>2. s \in Aware(p)
      BY <3>1 DEF Aware
    <3> QED
      BY <1>2, <1>5, <3>2 DEF DeleteTree, Excused
  <2>5. \A q \in Procs :
          pc'[q] \in Adding \cup Claiming /\ (s = call'[q].session \/ s \in call'[q].seen) => Excused(s)'
    BY <1>3, <2>4
  <2>6. Excused(s)' \/ \E o \in Procs : At(o, "cleanup")' /\ s \in call'[o].seen
    BY <2>1, <2>2, <2>3 DEF At
  <2> QED
    BY <2>5, <2>6
<1> QED
  BY <1>2, <1>4, <1>5

LEMMA ExcusesLast ==
  ASSUME TypeInv, [Next]_vars, NEW s, Excused(s)
  PROVE  Excused(s)'
BY HistoryGrows DEF Excused

(* The entries of a session that is gone already.                          *)
LEMMA GhostRows ==
  ASSUME TypeInv, Kinship, GhostInv, [Next]_vars, NEW r \in rows', Gone(r.session)
  PROVE  Excused(r.session)' \/ \E p \in Procs : At(p, "cleanup")' /\ r.session \in call'[p].seen
<1>1. CallTypes /\ Control /\ None \notin Sessions
  BY TypeParts, MappingAssumption
<1>2. CASE \E p \in Procs : At(p, "add") /\ r = RowOf(p)
  <2>1. PICK p \in Procs : At(p, "add") /\ r = RowOf(p)
    BY <1>2
  <2>2. r.session = call[p].session /\ call[p].session # None /\ pc[p] \in Adding
    BY <1>1, <2>1 DEF RowOf, Control, Knows, At, Adding
  <2> QED
    BY <2>2, ExcusesLast DEF GhostInv
<1>3. CASE \E p \in Procs : At(p, "merge") /\ r.session \in call[p].seen
  BY <1>3, ExcusesLast DEF GhostInv, At, Claiming
<1>4. CASE \E o \in rows : r.session = o.session
  <2>1. CASE Excused(r.session)
    BY <2>1, ExcusesLast
  <2>2. ASSUME NEW p \in Procs, At(p, "cleanup"), r.session \in call[p].seen
        PROVE  Excused(r.session)' \/ \E q \in Procs : At(q, "cleanup")' /\ r.session \in call'[q].seen
    <3>1. ASSUME NEW q \in Procs, Step(q), q # p
          PROVE  At(p, "cleanup")' /\ r.session \in call'[p].seen
      BY <2>2, <3>1, OthersStay DEF At
    <3>2. ASSUME Step(p) PROVE Excused(r.session)'
      <4>1. CASE CleanupFails(p)
        BY <2>2, <4>1 DEF CleanupFails, Excused
      <4>2. CASE Cleanup(p)
        <5>1. rows' = rows \ Doomed(p)
          BY <4>2 DEF Cleanup, Save, mapping
        <5> QED
          BY <2>2, <5>1 DEF Doomed
      <4> QED
        BY <2>2, <3>2, <4>1, <4>2, CleanupIsNext
    <3>3. CASE Restart
      BY <2>2, <3>3 DEF Restart, Excused
    <3>4. CASE UNCHANGED <<pc, call>>
      BY <2>2, <3>4 DEF At
    <3> QED
      BY <3>1, <3>2, <3>3, <3>4 DEF Next, Unlink, Delegate, vars
  <2> QED
    BY <1>4, <2>1, <2>2 DEF GhostInv
<1> QED
  BY <1>2, <1>3, <1>4, EntriesComeFrom DEF Kinship, From

(* The session a request will add an entry for, gone already.              *)
LEMMA GhostAdds ==
  ASSUME TypeInv, GhostInv, [Next]_vars, NEW q \in Procs, Step(q),
         pc'[q] \in Adding, call'[q].session \in Sessions, Gone(call'[q].session)
  PROVE  Excused(call'[q].session)
<1>1. CallTypes /\ ServiceTypes /\ None \notin Sessions
  BY TypeParts, MappingAssumption
<1>2. ~Begin(q)
  <2>1. \A s \in Sessions : ~(Bind(q, s) /\ Learns(q, s))
    BY DEF Bind, Learns, Gone
  <2>2. \A s \in Sessions : ~(Delete(q, s) /\ pc'[q] \in {"delete", "closure"})
    BY DEF Adding
  <2> QED
    BY <1>1, <2>1, <2>2, BeginCall DEF Forgets
<1>3. ASSUME NEW s \in Sessions PROVE ~Spawn(q, s)
  <2>1. SUFFICES ASSUME Spawn(q, s) PROVE FALSE
    OBVIOUS
  <2>2. call'[q].session = s
    BY <1>1, <2>1 DEF Spawn, CallTypes, Calls
  <2> QED
    BY <2>1, <2>2 DEF Spawn, Fresh, Gone
<1>4. ASSUME NEW s \in Sessions PROVE ~Scaffold(q, s)
  <2>1. SUFFICES ASSUME Scaffold(q, s) PROVE FALSE
    OBVIOUS
  <2>2. call'[q] = [NoCall EXCEPT !.op = "scaffold", !.session = s]
    BY <2>1, ServeCall DEF Scaffold
  <2>3. call'[q].session = s
    BY <2>2 DEF NoCall
  <2> QED
    BY <2>1, <2>3 DEF Scaffold, Gone
<1>5. ASSUME NEW s \in Sessions, NEW d \in Sessions PROVE ~Fork(q, s, d)
  <2>1. SUFFICES ASSUME Fork(q, s, d) PROVE FALSE
    OBVIOUS
  <2>2. call'[q] = [NoCall EXCEPT !.op = "fork", !.session = d]
    BY <2>1, ServeCall DEF Fork
  <2>3. call'[q].session = d
    BY <2>2 DEF NoCall
  <2> QED
    BY <2>1, <2>3 DEF Fork, Fresh, Gone
<1>6. pc[q] \in Adding
  BY <1>2, <1>3, <1>4, <1>5, Arrivals
<1>7. ~Walk(q) /\ ~Select(q) /\ ~FindClosure(q)
  BY <1>6 DEF Walk, Select, FindClosure, At, Adding
<1>8. call'[q].session = call[q].session
  BY <1>1, <1>2, <1>3, <1>4, <1>5, <1>7, CallChanges DEF SameCall, Forgets
<1> QED
  BY <1>1, <1>6, <1>8 DEF GhostInv

(* The sessions a reconciliation will add entries for, gone already.       *)
LEMMA GhostClaims ==
  ASSUME TypeInv, GhostInv, [Next]_vars, NEW q \in Procs, Step(q),
         pc'[q] \in Claiming, NEW d \in call'[q].seen, Gone(d)
  PROVE  Excused(d)
<1>1. CallTypes
  BY TypeParts
<1>2. Walk(q) \/ Select(q)
  BY Arrivals DEF Claiming
<1>3. ~Walk(q)
  <2>1. SUFFICES ASSUME Walk(q) PROVE FALSE
    OBVIOUS
  <2>2. call'[q].seen = UNION {Tree(s) : s \in call[q].roots} \ call[q].roots
    BY <1>1, <2>1 DEF Walk, CallTypes, Calls
  <2>3. up[d] = "live"
    BY <2>2 DEF Tree
  <2> QED
    BY <2>3 DEF Gone
<1>4. pc[q] \in Claiming /\ call'[q].seen \subseteq call[q].seen
  BY <1>1, <1>2, <1>3 DEF Select, At, Claims, Claiming, CallTypes, Calls
<1> QED
  BY <1>4 DEF GhostInv

LEMMA NextGhost == TypeInv /\ Kinship /\ GhostInv /\ [Next]_vars => GhostInv'
<1> SUFFICES ASSUME TypeInv, Kinship, GhostInv, [Next]_vars
             PROVE  GhostInv'
  OBVIOUS
<1>1. TypeInv'
  BY NextTypes
<1>2. /\ \A r \in rows' : r.session \in Sessions
      /\ \A q \in Procs : call'[q].session \in Sessions \cup {None} /\ call'[q].seen \subseteq Sessions
  BY <1>1 DEF TypeInv, TypeOK, Rows, Calls
<1>3. ASSUME NEW r \in rows', Gone(r.session)'
      PROVE  Excused(r.session)' \/ \E p \in Procs : At(p, "cleanup")' /\ r.session \in call'[p].seen
  <2>1. CASE Gone(r.session)
    BY <2>1, GhostRows
  <2>2. CASE ~Gone(r.session)
    BY <1>2, <1>3, <2>2, DeathsAreKnown
  <2> QED
    BY <2>1, <2>2
<1>4. ASSUME NEW q \in Procs, pc'[q] \in Adding, call'[q].session # None, up'[call'[q].session] = "gone"
      PROVE  call'[q].session \in stale' \cup cut'
  <2>1. PICK s \in Sessions : s = call'[q].session
    BY <1>2, <1>4
  <2>2. Gone(s)'
    BY <1>4, <2>1 DEF Gone
  <2>3. CASE ~Gone(s)
    BY <1>4, <2>1, <2>2, <2>3, DeathsAreKnown DEF Excused
  <2>4. CASE Gone(s)
    <3>1. CASE Step(q)
      BY <1>4, <2>1, <2>4, <3>1, GhostAdds, ExcusesLast DEF Excused
    <3>2. CASE pc'[q] = pc[q] /\ call'[q] = call[q]
      <4>1. Excused(s)
        BY <1>4, <2>1, <2>4, <3>2 DEF GhostInv
      <4> QED
        BY <2>1, <4>1, ExcusesLast DEF Excused
    <3>3. ~Restart
      BY <1>4 DEF Restart, NoCall
    <3> QED
      BY <3>1, <3>2, <3>3, OthersStay DEF Next, Unlink, Delegate, vars
  <2> QED
    BY <2>3, <2>4
<1>5. ASSUME NEW q \in Procs, pc'[q] \in Claiming, NEW d \in call'[q].seen, Gone(d)'
      PROVE  Excused(d)'
  <2>1. CASE ~Gone(d)
    BY <1>2, <1>5, <2>1, DeathsAreKnown
  <2>2. CASE Gone(d)
    <3>1. CASE Step(q)
      BY <1>5, <2>2, <3>1, GhostClaims, ExcusesLast
    <3>2. CASE pc'[q] = pc[q] /\ call'[q] = call[q]
      BY <1>5, <2>2, <3>2, ExcusesLast DEF GhostInv
    <3>3. ~Restart
      BY <1>5 DEF Restart, Claiming
    <3> QED
      BY <3>1, <3>2, <3>3, OthersStay DEF Next, Unlink, Delegate, vars
  <2> QED
    BY <2>1, <2>2
<1>6. (\A r \in rows : Gone(r.session) =>
          Excused(r.session) \/ \E p \in Procs : At(p, "cleanup") /\ r.session \in call[p].seen)'
  BY <1>3
<1>7. (\A p \in Procs : pc[p] \in Adding /\ call[p].session # None /\ Gone(call[p].session) =>
          Excused(call[p].session))'
  BY <1>4 DEF Gone, Excused
<1>8. (\A p \in Procs : pc[p] \in Claiming => \A d \in call[p].seen : Gone(d) => Excused(d))'
  BY <1>5
<1> QED
  BY <1>6, <1>7, <1>8 DEF GhostInv

(* An entry of a deleted session is being removed, or waits for the retry  *)
(* of a deletion cut short, unless another request knew the session when   *)
(* it was deleted: SessionMapping's NoGhosts.                              *)
THEOREM NoGhostEntries == Spec => []NoGhosts
<1>1. Init => GhostInv
  <2> SUFFICES ASSUME Init PROVE GhostInv
    OBVIOUS
  <2>1. \A r \in rows : ~Gone(r.session)
    <3>1. \A r \in First : r.session \in {Work, Chat}
      BY DEF First, Entry
    <3>2. up[Work] = "live" /\ up[Chat] = "live"
      BY MappingAssumption DEF Init
    <3> QED
      BY <3>1, <3>2 DEF Init, Gone
  <2> QED
    BY <2>1 DEF Init, GhostInv, Adding, Claiming
<1>2. GhostInv => NoGhosts
  BY DEF GhostInv, NoGhosts, Gone, Excused
<1> QED
  BY <1>1, <1>2, InitTypes, NextTypes, InitKinship, KinshipNext, NextGhost, PTL DEF Spec
=============================================================================
