----------------------------- MODULE ChatProofs -----------------------------
(***************************************************************************)
(* Theorems about the chats: about ChatNaming, for any clients and bounds, *)
(* and about ChatPoll, for any views, sessions and flights. The two share  *)
(* no variable.                                                            *)
(*                                                                         *)
(* ChatNaming's come from one inductive invariant, NamingInv. Mutex says   *)
(* who holds sessionOps at which label, Knows what a request carries with  *)
(* it between two of its steps. NameInv is then what makes the naming's    *)
(* second look enough, TitleInv what the renames leave of the two titles   *)
(* between their two writes, and PromoInv what a promotion has found out   *)
(* by each of its steps.                                                   *)
(*                                                                         *)
(* ChatPoll's come from PollInv. What ties its parts together is Newest:   *)
(* of all the flights that are still somebody's, a key's own has read the  *)
(* most, so a poll that joins it, or starts the next, goes no step back.   *)
(***************************************************************************)
EXTENDS ChatNaming, ChatPoll, TLAPS

-----------------------------------------------------------------------------
(* ChatNaming: the invariant                                               *)

DataTypes ==
  /\ live \in Titles /\ revision \in Revisions /\ running \in BOOLEAN /\ waiting \in BOOLEAN
  /\ entry \in Entries /\ scaffolded \in BOOLEAN
ControlTypes ==
  /\ pc \in [Clients -> Labels]
  /\ call \in [Clients -> [revision : Revisions \cup {0}, title : Titles \cup {None}]]
  /\ namer \in {"idle", "generate", "lock", "check", "look", "apply", "record"}
  /\ job \in [original : Titles \cup {None}, title : Titles \cup {None}, expired : BOOLEAN]
BoundTypes == calls \in 0 .. MaxCalls /\ faults \in 0 .. MaxFaults /\ restarts \in 0 .. MaxRestarts
HistoryTypes ==
  /\ chosen \in BOOLEAN /\ diverged \in BOOLEAN /\ dropped \in BOOLEAN
  /\ sent \in [Revisions -> Nat] /\ unsure \subseteq Revisions /\ acked \subseteq Revisions

(* The requests that hold sessionOps from beginning to end.                *)
Locked == {"rename", "save", "confirm", "busy", "record", "send", "unrecord", "create", "retitle", "move"}
Promoting == {"confirm", "busy", "record", "send", "unrecord"}

Mutex ==
  /\ holder \in Clients \cup {None, Namer}
  /\ \A c \in Clients : holder = c <=> pc[c] \in Locked
  /\ holder = Namer <=> namer \in {"check", "look", "apply", "record"}

(* What a request and the naming know at each label.                       *)
Knows ==
  /\ \A c \in Clients :
       /\ pc[c] \in {"rename", "save"} => call[c].title = c
       /\ pc[c] = "refresh" => call[c].title \in Titles
       /\ pc[c] \in Promoting => call[c].revision \in Revisions
  /\ namer # "idle" => job.original = "codebase chat" /\ job.title \in {"fallback", "generated"}

TypeInv == DataTypes /\ ControlTypes /\ BoundTypes /\ HistoryTypes /\ Mutex /\ Knows

NameInv ==
  /\ entry.state = "eligible" => namer = "idle" /\ entry.title = "codebase chat"
  /\ namer \in {"look", "apply", "record"} => StillPending(entry)
  /\ chosen => live # "codebase chat"
  /\ chosen /\ namer = "apply" => diverged

TitleInv ==
  /\ entry.state \in {"auto", "manual", "change"} /\ ~diverged
       /\ (\A c \in Clients : pc[c] \notin {"save", "move"}) => entry.title = live
  /\ \A c \in Clients : ~diverged =>
       /\ pc[c] = "save" => live = c
       /\ pc[c] = "move" => live = "change"
  /\ namer = "record" /\ ~diverged => live = job.title

(* No promotion is known to have been sent for a revision: none was taken, *)
(* or its answer was lost.                                                 *)
Uncertain(n) == sent[n] = 0 \/ n \in unsure

(* A promotion that was sent is of an older revision or of the one the     *)
(* entry records, and a recorded one is sent or about to be.               *)
SentIsOlder ==
  /\ entry.promotion <= revision
  /\ \A n \in Revisions : ~Uncertain(n) => n < revision \/ (n = revision /\ entry.promotion = n)
RecordedIsSent == \A n \in Revisions \ unsure : entry.promotion = n =>
  sent[n] = 1 \/ \E c \in Clients : pc[c] \in {"send", "unrecord"} /\ call[c].revision = n

(* What a promotion has found out by the time it reaches each label.       *)
Promotes(c) ==
  /\ pc[c] \in {"confirm", "busy", "record"} => entry.promotion # call[c].revision
  /\ pc[c] \in {"busy", "record"} => entry.promotion < call[c].revision
  /\ pc[c] \in {"busy", "record", "send", "unrecord"} =>
       call[c].revision <= revision /\ Uncertain(call[c].revision)
  /\ pc[c] \in {"send", "unrecord"} => entry.promotion = call[c].revision

PromoInv == SentIsOlder /\ RecordedIsSent /\ PromotedOnce /\ \A c \in Clients : Promotes(c)

-----------------------------------------------------------------------------
(* ChatNaming: the constants                                               *)

(* What the assumption says, one fact at a time.                           *)
LEMMA Limits ==
  MaxCalls \in Nat /\ MaxFaults \in Nat /\ MaxRestarts \in Nat /\ MaxRevision \in Nat \ {0}
BY NamingAssumption, Zenon

(* No client is another constant.                                          *)
LEMMA Apart ==
  /\ None # Namer
  /\ \A c \in Clients :
       /\ c # None /\ c # Namer /\ c # "codebase chat" /\ c # "fallback" /\ c # "generated"
       /\ c # "terminal" /\ c # "change"
BY NamingAssumption DEF Namer

(* The revisions opencode counts.                                          *)
LEMMA RevisionsAreNumbers ==
  /\ 1 \in Revisions /\ Revisions \subseteq Nat
  /\ \A n \in Revisions : 1 <= n /\ n <= MaxRevision
  /\ \A n \in Nat : 1 <= n /\ n <= MaxRevision => n \in Revisions
BY Limits DEF Revisions

(* States of an entry that the server sets.                                *)
LEMMA StatesSet == "pending" \in States /\ "auto" \in States /\ "manual" \in States /\ "change" \in States
BY DEF States

Requests == [revision : Revisions \cup {0}, title : Titles \cup {None}]

(* A step of one request keeps the others in their types.                  *)
LEMMA WithTypes ==
  ASSUME ControlTypes, NEW c \in Clients, NEW label \in Labels, NEW request \in Requests,
         With(c, label, request)
  PROVE  pc' \in [Clients -> Labels] /\ call' \in [Clients -> Requests]
BY DEF ControlTypes, With, Requests

-----------------------------------------------------------------------------
(* ChatNaming: types                                                       *)

(* A step of a request, the first and the last too, that touches no title. *)
Aside(c) ==
  /\ pc[c] \notin {"save", "move"} /\ pc'[c] \notin {"save", "move"}
  /\ \A d \in Clients \ {c} : pc'[d] = pc[d]
  /\ UNCHANGED <<live, entry, namer, job, diverged>>

(* A step of a request that promotes nothing.                              *)
Elsewhere(c) ==
  /\ pc[c] \notin Promoting /\ pc'[c] \notin Promoting
  /\ \A d \in Clients \ {c} : pc'[d] = pc[d] /\ call'[d] = call[d]
  /\ entry'.promotion = entry.promotion /\ UNCHANGED <<revision, sent, unsure, acked>>

(* A step from one label of a promotion to the next, or to its answer.     *)
Onward(c, label) ==
  /\ pc' = [pc EXCEPT ![c] = label] /\ (label # "idle" => UNCHANGED call)
  /\ \A d \in Clients \ {c} : call'[d] = call[d]

(* What is compared with the revision is a number.                         *)
LEMMA Numbers ==
  ASSUME DataTypes, ControlTypes
  PROVE  revision \in Nat /\ entry.promotion \in Nat /\ \A c \in Clients : call[c].revision \in Nat
<1>1. \A n \in Revisions \cup {0} : n \in Nat
  BY DEF Revisions
<1>2. revision \in Revisions
  BY DEF DataTypes
<1>3. entry.promotion \in Revisions \cup {0}
  BY DEF DataTypes, Entries
<1>4. \A c \in Clients : call[c].revision \in Revisions \cup {0}
  BY DEF ControlTypes
<1> QED BY <1>1, <1>2, <1>3, <1>4

(* There is one promotion at a time: it holds sessionOps.                  *)
LEMMA OnePromotion ==
  ASSUME DataTypes, ControlTypes, Mutex, NEW c \in Clients, pc[c] \in Promoting, NEW label \in Labels, Onward(c, label)
  PROVE  /\ call[c].revision \in Nat /\ pc'[c] = label
         /\ \A d \in Clients \ {c} : pc[d] \notin Promoting /\ pc'[d] \notin Promoting
<1>1. \A d \in Clients \ {c} : pc[d] \notin Promoting
  BY DEF Mutex, Locked, Promoting
<1>2. pc'[c] = label /\ \A d \in Clients \ {c} : pc'[d] = pc[d]
  BY DEF ControlTypes, Onward
<1>3. call[c].revision \in Nat
  BY Numbers
<1> QED BY <1>1, <1>2, <1>3

(* The titles, the revision and the entry.                                *)
LEMMA KeepsData ==
  ASSUME DataTypes, ControlTypes, Knows, [Next]_vars
  PROVE  DataTypes'
<1>1. CASE UNCHANGED <<live, revision, running, waiting, entry, scaffolded>>
  BY <1>1 DEF DataTypes
<1>2. ASSUME NEW c \in Clients, Rename(c) \/ ListChats(c) \/ Promote(c) \/ Scaffold(c) \/
         ClaimFails(c) \/ UpdateTitleFails(c) \/ Confirm(c) \/ LookIdle(c) \/
         ConfirmFails(c) \/ UnrecordFails(c) \/ CreateFails(c) \/ MoveFails(c)
      PROVE  DataTypes'
  <2>1. UNCHANGED <<live, revision, running, waiting, entry, scaffolded>>
    BY <1>2 DEF Rename, opencode, ListChats, Promote, Scaffold, ClaimFails,
      UpdateTitleFails, Confirm, PromoteOnly, LookIdle, ConfirmFails, UnrecordFails, CreateFails,
      MoveFails
  <2> QED BY <2>1, <1>1
<1>3. CASE Generate \/ NamerLock \/ LookSaveFails \/ LookFails \/ RecordFails \/
         UNCHANGED vars
  <2>1. UNCHANGED <<live, revision, running, waiting, entry, scaffolded>>
    BY <1>3 DEF Generate, NamerOnly, opencode, NamerLock, LookSaveFails, LookFails,
      RecordFails, vars
  <2> QED BY <2>1, <1>1
<1>4. ASSUME NEW c \in Clients, Input(c) PROVE DataTypes'
  BY <1>4 DEF DataTypes, Input
<1>5. ASSUME NEW c \in Clients, Claim(c) PROVE DataTypes'
  <2>1. CASE Claimed(entry)
    BY <1>5, <2>1, StatesSet DEF DataTypes, Titles, Entries, Claim, opencode
  <2>2. CASE ~Claimed(entry)
    BY <1>5, <2>2 DEF DataTypes, Claim, opencode
  <2> QED BY <2>1, <2>2
<1>6. ASSUME NEW c \in Clients, Refresh(c) PROVE DataTypes'
  <2>1. CASE entry.owner = "unassigned" /\ entry.state = ""
    BY <1>6, <2>1 DEF DataTypes, Knows, Entries, Refresh, At, opencode
  <2>2. CASE ~(entry.owner = "unassigned" /\ entry.state = "")
    BY <1>6, <2>2 DEF DataTypes, Refresh, opencode
  <2> QED BY <2>1, <2>2
<1>7. ASSUME NEW c \in Clients, RenameSession(c) PROVE DataTypes'
  BY <1>7 DEF DataTypes, Knows, Titles, RenameSession, At
<1>8. ASSUME NEW c \in Clients, UpdateTitle(c) PROVE DataTypes'
  BY <1>8, StatesSet DEF DataTypes, Knows, Titles, Entries, UpdateTitle, At, opencode
<1>9. ASSUME NEW c \in Clients, RecordPromotion(c) PROVE DataTypes'
  BY <1>9 DEF DataTypes, Knows, Promoting, Entries, RecordPromotion, At, opencode
<1>10. ASSUME NEW c \in Clients, SendPromotion(c) PROVE DataTypes'
  BY <1>10 DEF DataTypes, SendPromotion, Take
<1>11. ASSUME NEW c \in Clients, SendFails(c) PROVE DataTypes'
  <2>1. waiting' \in BOOLEAN
    <3>1. waiting' = waiting \/ waiting' = TRUE
      BY <1>11 DEF SendFails, Take
    <3> QED BY <3>1 DEF DataTypes
  <2>2. UNCHANGED <<live, revision, running, entry, scaffolded>>
    BY <1>11 DEF SendFails
  <2> QED BY <2>1, <2>2 DEF DataTypes
<1>12. ASSUME NEW c \in Clients, Unrecord(c) PROVE DataTypes'
  BY <1>12 DEF DataTypes, Entries, Unrecord, opencode
<1>13. ASSUME NEW c \in Clients, CreateChange(c) PROVE DataTypes'
  BY <1>13 DEF DataTypes, CreateChange, opencode
<1>14. ASSUME NEW c \in Clients, Retitle(c) PROVE DataTypes'
  BY <1>14 DEF DataTypes, Titles, Retitle
<1>15. ASSUME NEW c \in Clients, MoveToChange(c) PROVE DataTypes'
  BY <1>15, StatesSet DEF DataTypes, Titles, Entries, MoveToChange, opencode
<1>16. CASE NamerCheck
  BY <1>16 DEF DataTypes, NamerCheck, NamerOnly, opencode
<1>17. CASE Look
  <2>1. CASE live # job.original
    BY <1>17, <2>1, StatesSet DEF DataTypes, Entries, Look, NamerOnly, opencode
  <2>2. CASE live = job.original
    BY <1>17, <2>2 DEF DataTypes, Look, NamerOnly, opencode
  <2> QED BY <2>1, <2>2
<1>18. CASE Apply
  BY <1>18 DEF DataTypes, Knows, Titles, Apply
<1>19. CASE Record
  <2>1. CASE StillPending(entry)
    BY <1>19, <2>1, StatesSet DEF DataTypes, Knows, Titles, Entries, Record, NamerOnly, opencode
  <2>2. CASE ~StillPending(entry)
    BY <1>19, <2>2 DEF DataTypes, Record, NamerOnly, opencode
  <2> QED BY <2>1, <2>2
<1>20. CASE TurnBegins
  <2>1. revision' \in Revisions
    <3>1. revision \in Nat /\ 1 <= revision /\ revision < MaxRevision /\ revision' = revision + 1
      BY <1>20, RevisionsAreNumbers DEF TurnBegins, DataTypes
    <3>2. revision' \in Nat /\ 1 <= revision' /\ revision' <= MaxRevision
      BY <3>1, Limits
    <3> QED BY <3>2, RevisionsAreNumbers
  <2>2. running' = TRUE /\ waiting' = FALSE /\ UNCHANGED <<live, entry, scaffolded>>
    BY <1>20 DEF TurnBegins, Outside
  <2> QED BY <2>1, <2>2 DEF DataTypes
<1>21. CASE TurnEnds
  <2>1. revision' \in Revisions
    <3>1. revision \in Nat /\ 1 <= revision /\ revision < MaxRevision /\ revision' = revision + 1
      BY <1>21, RevisionsAreNumbers DEF TurnEnds, DataTypes
    <3>2. revision' \in Nat /\ 1 <= revision' /\ revision' <= MaxRevision
      BY <3>1, Limits
    <3> QED BY <3>2, RevisionsAreNumbers
  <2>2. running' = FALSE /\ UNCHANGED waiting /\ UNCHANGED <<live, entry, scaffolded>>
    BY <1>21 DEF TurnEnds, Outside
  <2> QED BY <2>1, <2>2 DEF DataTypes
<1>22. CASE ForeignRename
  BY <1>22 DEF DataTypes, Titles, ForeignRename, Outside
<1>23. CASE Restart
  BY <1>23 DEF DataTypes, Restart, opencode
<1>24. ASSUME NEW c \in Clients, RenameFails(c) PROVE DataTypes'
  <2>1. live' \in Titles
    BY <1>24 DEF DataTypes, Knows, Titles, RenameFails, At
  <2>2. UNCHANGED <<revision, running, waiting, entry, scaffolded>>
    BY <1>24 DEF RenameFails
  <2> QED BY <2>1, <2>2 DEF DataTypes
<1>25. ASSUME NEW c \in Clients, RetitleFails(c) PROVE DataTypes'
  <2>1. live' \in Titles
    BY <1>25 DEF DataTypes, Titles, RetitleFails
  <2>2. UNCHANGED <<revision, running, waiting, entry, scaffolded>>
    BY <1>25 DEF RetitleFails
  <2> QED BY <2>1, <2>2 DEF DataTypes
<1>26. CASE ApplyFails
  <2>1. live' \in Titles
    BY <1>26 DEF DataTypes, Knows, Titles, ApplyFails
  <2>2. UNCHANGED <<revision, running, waiting, entry, scaffolded>>
    BY <1>26 DEF ApplyFails
  <2> QED BY <2>1, <2>2 DEF DataTypes
<1> QED BY <1>24, <1>25, <1>26, <1>2, <1>3, <1>4, <1>5, <1>6, <1>7, <1>8, <1>9, <1>10, <1>11, <1>12, <1>13, <1>14,
  <1>15, <1>16, <1>17, <1>18, <1>19, <1>20, <1>21, <1>22, <1>23 DEF Next, Arrives, Serves, Names,
  Service

(* The labels and what is kept with them.                                 *)
LEMMA KeepsControl ==
  ASSUME DataTypes, ControlTypes, Knows, [Next]_vars
  PROVE  ControlTypes'
<1>1. CASE UNCHANGED <<pc, call, namer, job>>
  BY <1>1 DEF ControlTypes
<1>2. CASE TurnBegins \/ TurnEnds \/ ForeignRename \/ UNCHANGED vars
  <2>1. UNCHANGED <<pc, call, namer, job>>
    BY <1>2 DEF TurnBegins, Outside, Naming, TurnEnds, ForeignRename, vars
  <2> QED BY <2>1, <1>1
<1>3. ASSUME NEW c \in Clients, Answer(c) /\ Naming PROVE ControlTypes'
  BY <1>3 DEF ControlTypes, Answer, With, NoCall, Labels, Naming
<1>4. ASSUME NEW c \in Clients, ClaimFails(c) \/ Refresh(c) \/ RenameFails(c) \/ UpdateTitle(c)
         \/ UpdateTitleFails(c) \/ ConfirmFails(c) \/ SendPromotion(c) \/ Unrecord(c) \/
         UnrecordFails(c) \/ CreateFails(c) \/ MoveToChange(c) \/ MoveFails(c)
      PROVE  ControlTypes'
  <2>1. Answer(c) /\ Naming
    BY <1>4 DEF ClaimFails, Refresh, RenameFails, UpdateTitle, UpdateTitleFails, ConfirmFails,
      PromoteOnly, SendPromotion, Unrecord, UnrecordFails, CreateFails, MoveToChange, MoveFails
  <2> QED BY <2>1, <1>3
<1>5. ASSUME NEW c \in Clients, Input(c) PROVE ControlTypes'
  BY <1>5 DEF ControlTypes, Labels, Input, Begin, NoCall, Naming, With
<1>6. ASSUME NEW c \in Clients, Rename(c) PROVE ControlTypes'
  BY <1>6 DEF ControlTypes, Titles, Labels, Rename, BeginLocked, NoCall, Naming, Begin, With
<1>7. ASSUME NEW c \in Clients, ListChats(c) PROVE ControlTypes'
  BY <1>7 DEF ControlTypes, DataTypes, Entries, Labels, ListChats, Begin, NoCall, Naming, With
<1>8. ASSUME NEW c \in Clients, Promote(c) PROVE ControlTypes'
  <2>1. PICK n \in 1 .. revision : Promote(c)!(n)
    BY <1>8 DEF Promote
  <2>2. With(c, "confirm", [NoCall EXCEPT !.revision = n]) \/ With(c, "idle", NoCall)
    BY <2>1 DEF BeginLocked, Begin
  <2>3. [NoCall EXCEPT !.revision = n] \in Requests /\ NoCall \in Requests
    <3>1. n \in Revisions
      BY RevisionsAreNumbers, Limits DEF DataTypes, Revisions
    <3> QED BY <3>1 DEF NoCall, Requests
  <2>4. "confirm" \in Labels /\ "idle" \in Labels
    BY DEF Labels
  <2>5. pc' \in [Clients -> Labels] /\ call' \in [Clients -> Requests]
    BY <2>2, <2>3, <2>4, WithTypes
  <2>6. UNCHANGED <<namer, job>>
    BY <2>1 DEF Naming
  <2> QED BY <2>5, <2>6 DEF ControlTypes, Requests
<1>9. ASSUME NEW c \in Clients, Scaffold(c) PROVE ControlTypes'
  BY <1>9 DEF ControlTypes, Labels, Scaffold, BeginLocked, NoCall, Naming, Begin, With
<1>10. ASSUME NEW c \in Clients, Claim(c) PROVE ControlTypes'
  <2>1. pc' \in [Clients -> Labels] /\ call' \in [Clients -> Requests]
    <3>1. With(c, "idle", NoCall)
      BY <1>10 DEF Claim, Answer
    <3>2. "idle" \in Labels /\ NoCall \in Requests
      BY DEF Labels, NoCall, Requests
    <3> QED BY <3>1, <3>2, WithTypes
  <2>2. CASE Claimed(entry)
    <3>1. namer' = "generate" /\ job' = [original |-> entry.title, title |-> "fallback", expired |-> FALSE]
      BY <1>10, <2>2 DEF Claim
    <3>2. entry.title \in Titles /\ "fallback" \in Titles
      BY DEF DataTypes, Entries, Titles
    <3> QED BY <2>1, <3>1, <3>2 DEF ControlTypes, Requests
  <2>3. CASE ~Claimed(entry)
    <3>1. UNCHANGED <<namer, job>>
      BY <1>10, <2>3 DEF Claim, Naming
    <3> QED BY <2>1, <3>1 DEF ControlTypes, Requests
  <2> QED BY <2>2, <2>3
<1>11. ASSUME NEW c \in Clients, RenameSession(c) PROVE ControlTypes'
  BY <1>11 DEF ControlTypes, Labels, RenameSession, Goto, Naming
<1>12. ASSUME NEW c \in Clients, Confirm(c) PROVE ControlTypes'
  <2>1. With(c, "idle", NoCall) \/ Goto(c, "busy")
    BY <1>12 DEF Confirm, Answer
  <2>2. UNCHANGED <<namer, job>>
    BY <1>12 DEF Confirm, PromoteOnly, Naming
  <2> QED BY <2>1, <2>2 DEF ControlTypes, With, Goto, NoCall, Labels
<1>13. ASSUME NEW c \in Clients, LookIdle(c) PROVE ControlTypes'
  <2>1. With(c, "idle", NoCall) \/ Goto(c, "record")
    BY <1>13 DEF LookIdle, Answer
  <2>2. UNCHANGED <<namer, job>>
    BY <1>13 DEF LookIdle, PromoteOnly, Naming
  <2> QED BY <2>1, <2>2 DEF ControlTypes, With, Goto, NoCall, Labels
<1>14. ASSUME NEW c \in Clients, RecordPromotion(c) PROVE ControlTypes'
  BY <1>14 DEF ControlTypes, Labels, RecordPromotion, Goto, Naming
<1>15. ASSUME NEW c \in Clients, SendFails(c) PROVE ControlTypes'
  BY <1>15 DEF ControlTypes, Labels, SendFails, Goto, Naming
<1>16. ASSUME NEW c \in Clients, CreateChange(c) PROVE ControlTypes'
  BY <1>16 DEF ControlTypes, Labels, CreateChange, Goto, Naming
<1>17. ASSUME NEW c \in Clients, Retitle(c) PROVE ControlTypes'
  BY <1>17 DEF ControlTypes, Labels, Retitle, Goto, Naming
<1>18. ASSUME NEW c \in Clients, RetitleFails(c) PROVE ControlTypes'
  BY <1>18 DEF ControlTypes, Labels, RetitleFails, Goto, Naming
<1>19. CASE Generate
  BY <1>19 DEF ControlTypes, Titles, Generate, NamerOnly
<1>20. CASE NamerLock
  BY <1>20 DEF ControlTypes, NamerLock, NamerGoto, NamerOnly
<1>21. CASE NamerCheck
  <2>1. NamerDone \/ NamerGoto("look")
    BY <1>21 DEF NamerCheck
  <2>2. UNCHANGED <<pc, call>>
    BY <1>21 DEF NamerCheck, NamerOnly
  <2>3. CASE NamerDone
    <3>1. namer' = "idle" /\ job' = [original |-> None, title |-> None, expired |-> FALSE]
      BY <2>3 DEF NamerDone, NoJob
    <3> QED BY <2>2, <3>1 DEF ControlTypes
  <2>4. CASE NamerGoto("look")
    BY <2>2, <2>4 DEF ControlTypes, NamerGoto
  <2> QED BY <2>1, <2>3, <2>4
<1>22. CASE Look
  <2>1. NamerDone \/ NamerGoto("apply")
    BY <1>22 DEF Look
  <2>2. UNCHANGED <<pc, call>>
    BY <1>22 DEF Look, NamerOnly
  <2>3. CASE NamerDone
    <3>1. namer' = "idle" /\ job' = [original |-> None, title |-> None, expired |-> FALSE]
      BY <2>3 DEF NamerDone, NoJob
    <3> QED BY <2>2, <3>1 DEF ControlTypes
  <2>4. CASE NamerGoto("apply")
    BY <2>2, <2>4 DEF ControlTypes, NamerGoto
  <2> QED BY <2>1, <2>3, <2>4
<1>23. CASE LookSaveFails
  BY <1>23 DEF ControlTypes, LookSaveFails, NamerDone, NoJob
<1>24. CASE LookFails
  <2>1. CASE job.expired
    BY <1>24, <2>1 DEF ControlTypes, LookFails, NamerGoto
  <2>2. CASE ~job.expired
    BY <1>24, <2>2 DEF ControlTypes, LookFails, NamerGoto
  <2> QED BY <2>1, <2>2
<1>25. CASE Apply
  BY <1>25 DEF ControlTypes, Apply, NamerGoto
<1>26. CASE ApplyFails
  <2>1. CASE job.expired
    BY <1>26, <2>1 DEF ControlTypes, ApplyFails, NamerGoto
  <2>2. CASE ~job.expired
    BY <1>26, <2>2 DEF ControlTypes, ApplyFails, NamerGoto
  <2> QED BY <2>1, <2>2
<1>27. CASE Record
  <2>1. CASE StillPending(entry)
    BY <1>27, <2>1 DEF ControlTypes, Record, NamerDone, NamerOnly, NoJob
  <2>2. CASE ~StillPending(entry)
    BY <1>27, <2>2 DEF ControlTypes, Record, NamerDone, NamerOnly, NoJob
  <2> QED BY <2>1, <2>2
<1>28. CASE RecordFails
  BY <1>28 DEF ControlTypes, RecordFails, NamerDone, NoJob
<1>29. CASE Restart
  BY <1>29 DEF ControlTypes, Labels, Restart, NoCall, NoJob
<1> QED BY <1>2, <1>4, <1>5, <1>6, <1>7, <1>8, <1>9, <1>10, <1>11, <1>12, <1>13, <1>14, <1>15,
  <1>16, <1>17, <1>18, <1>19, <1>20, <1>21, <1>22, <1>23, <1>24, <1>25, <1>26, <1>27, <1>28,
  <1>29 DEF Next, Arrives, Serves, Names, Service

(* The bounds.                                                            *)
LEMMA KeepsBounds ==
  ASSUME BoundTypes, [Next]_vars
  PROVE  BoundTypes'
<1>1. CASE UNCHANGED bounds
  BY <1>1 DEF BoundTypes, bounds
<1>2. ASSUME NEW c \in Clients, Claim(c) \/ Refresh(c) \/ RenameSession(c) \/ UpdateTitle(c) \/
         Confirm(c) \/ LookIdle(c) \/ RecordPromotion(c) \/ SendPromotion(c) \/ Unrecord(c) \/
         CreateChange(c) \/ Retitle(c) \/ MoveToChange(c)
      PROVE  BoundTypes'
  <2>1. UNCHANGED bounds
    BY <1>2 DEF bounds, Claim, Quiet, Refresh, RenameSession, UpdateTitle, Confirm, PromoteOnly,
      LookIdle, RecordPromotion, SendPromotion, Unrecord, CreateChange, Retitle, MoveToChange
  <2> QED BY <2>1, <1>1
<1>3. CASE Generate \/ NamerLock \/ NamerCheck \/ Look \/ Apply \/ Record \/ TurnBegins \/
         TurnEnds \/ ForeignRename \/ UNCHANGED vars
  <2>1. UNCHANGED bounds
    BY <1>3 DEF bounds, Generate, NamerOnly, Quiet, NamerLock, NamerCheck, Look, Apply, Record,
      TurnBegins, Outside, TurnEnds, ForeignRename, vars
  <2> QED BY <2>1, <1>1
<1>4. CASE calls < MaxCalls /\ calls' = calls + 1 /\ UNCHANGED <<faults, restarts>>
  BY <1>4, Limits DEF BoundTypes
<1>5. ASSUME NEW c \in Clients, Input(c) \/ Rename(c) \/ ListChats(c) \/ Scaffold(c)
      PROVE  BoundTypes'
  <2>1. calls < MaxCalls /\ calls' = calls + 1 /\ UNCHANGED <<faults, restarts>>
    BY <1>5 DEF Input, Begin, Rename, BeginLocked, ListChats, Scaffold
  <2> QED BY <2>1, <1>4
<1>6. CASE Fault /\ UNCHANGED <<calls, restarts>>
  BY <1>6, Limits DEF BoundTypes, Fault
<1>7. ASSUME NEW c \in Clients, ClaimFails(c) \/ RenameFails(c) \/ UpdateTitleFails(c) \/
         ConfirmFails(c) \/ SendFails(c) \/ UnrecordFails(c) \/ CreateFails(c) \/ RetitleFails(c)
         \/ MoveFails(c)
      PROVE  BoundTypes'
  <2>1. Fault /\ UNCHANGED <<calls, restarts>>
    BY <1>7 DEF ClaimFails, Quiet, RenameFails, UpdateTitleFails, ConfirmFails, PromoteOnly,
      SendFails, UnrecordFails, CreateFails, RetitleFails, MoveFails
  <2> QED BY <2>1, <1>6
<1>8. CASE LookSaveFails \/ RecordFails
  <2>1. Fault /\ UNCHANGED <<calls, restarts>>
    BY <1>8 DEF LookSaveFails, Quiet, RecordFails
  <2> QED BY <2>1, <1>6
<1>9. ASSUME NEW c \in Clients, Promote(c) PROVE BoundTypes'
  <2>1. PICK n \in 1 .. revision : Promote(c)!(n)
    BY <1>9 DEF Promote
  <2>2. CASE entry.owner = "unassigned" /\ ~(entry.owner = "unassigned" /\ entry.promotion = n)
    BY <2>1, <2>2, Limits DEF BoundTypes, BeginLocked, Begin
  <2>3. CASE ~(entry.owner = "unassigned" /\ ~(entry.owner = "unassigned" /\ entry.promotion = n))
    BY <2>1, <2>3, Limits DEF BoundTypes, Begin
  <2> QED BY <2>2, <2>3
<1>10. CASE LookFails
  <2>1. CASE job.expired
    BY <1>10, <2>1 DEF BoundTypes, LookFails, Quiet
  <2>2. CASE ~job.expired
    BY <1>10, <2>2, Limits DEF BoundTypes, LookFails, Fault, Quiet
  <2> QED BY <2>1, <2>2
<1>11. CASE ApplyFails
  <2>1. CASE job.expired
    BY <1>11, <2>1 DEF BoundTypes, ApplyFails, Quiet
  <2>2. CASE ~job.expired
    BY <1>11, <2>2, Limits DEF BoundTypes, ApplyFails, Fault, Quiet
  <2> QED BY <2>1, <2>2
<1>12. CASE Restart
  <2>1. restarts < MaxRestarts /\ restarts' = restarts + 1 /\ UNCHANGED <<calls, faults>>
    BY <1>12 DEF Restart
  <2> QED BY <2>1, Limits DEF BoundTypes
<1> QED BY <1>2, <1>3, <1>5, <1>7, <1>8, <1>9, <1>10, <1>11, <1>12 DEF Next, Arrives, Serves,
  Names, Service

(* What is remembered.                                                    *)
LEMMA KeepsHistory ==
  ASSUME DataTypes, ControlTypes, Knows, HistoryTypes, [Next]_vars
  PROVE  HistoryTypes'
<1>1. CASE UNCHANGED history
  BY <1>1 DEF HistoryTypes, history
<1>2. ASSUME NEW c \in Clients, Input(c) \/ Rename(c) \/ ListChats(c) \/ Scaffold(c) \/ Claim(c)
         \/ ClaimFails(c) \/ Refresh(c) \/ Confirm(c) \/
         LookIdle(c) \/ ConfirmFails(c) \/ RecordPromotion(c) \/ Unrecord(c) \/ CreateChange(c)
         \/ CreateFails(c)
      PROVE  HistoryTypes'
  <2>1. UNCHANGED history
    BY <1>2 DEF Input, Rename, ListChats, Scaffold, Claim, ClaimFails, Refresh, Confirm, LookIdle, ConfirmFails, RecordPromotion, Unrecord, CreateChange,
      CreateFails
  <2> QED BY <2>1, <1>1
<1>3. CASE Generate \/ NamerLock \/ NamerCheck \/ Look \/ Apply \/ Record \/ UNCHANGED vars
  <2>1. UNCHANGED history
    BY <1>3 DEF Generate, NamerLock, NamerCheck, Look, Apply, Record, vars
  <2> QED BY <2>1, <1>1
<1>4. ASSUME NEW c \in Clients, Promote(c) PROVE HistoryTypes'
  <2>1. PICK n \in 1 .. revision : Promote(c)!(n)
    BY <1>4 DEF Promote
  <2>2. n \in Revisions
    BY RevisionsAreNumbers, Limits DEF DataTypes, Revisions
  <2>3. acked' = acked \/ acked' = acked \cup {n}
    BY <2>1
  <2>4. UNCHANGED <<chosen, diverged, dropped, sent, unsure>>
    BY <2>1
  <2> QED BY <2>2, <2>3, <2>4 DEF HistoryTypes
<1>5. ASSUME NEW c \in Clients, RenameSession(c) PROVE HistoryTypes'
  BY <1>5 DEF HistoryTypes, RenameSession
<1>6. ASSUME NEW c \in Clients, UpdateTitleFails(c) PROVE HistoryTypes'
  BY <1>6 DEF HistoryTypes, UpdateTitleFails
<1>7. ASSUME NEW c \in Clients, SendPromotion(c) PROVE HistoryTypes'
  <2>1. call[c].revision \in Revisions
    BY <1>7 DEF SendPromotion, At, Knows, Promoting
  <2>2. sent' = [sent EXCEPT ![call[c].revision] = @ + 1]
    BY <1>7 DEF SendPromotion, Take
  <2>3. UNCHANGED <<chosen, diverged, dropped, unsure, acked>>
    BY <1>7 DEF SendPromotion
  <2> QED BY <2>1, <2>2, <2>3 DEF HistoryTypes
<1>8. ASSUME NEW c \in Clients, SendFails(c) PROVE HistoryTypes'
  <2>1. call[c].revision \in Revisions
    BY <1>8 DEF SendFails, At, Knows, Promoting
  <2>2. \/ UNCHANGED <<sent, unsure>>
        \/ /\ sent' = [sent EXCEPT ![call[c].revision] = @ + 1]
           /\ unsure' = unsure \cup {call[c].revision}
    BY <1>8 DEF SendFails, Take
  <2>3. UNCHANGED <<chosen, diverged, dropped, acked>>
    BY <1>8 DEF SendFails
  <2>4. sent' \in [Revisions -> Nat] /\ unsure' \subseteq Revisions
    BY <2>1, <2>2 DEF HistoryTypes
  <2> QED BY <2>3, <2>4 DEF HistoryTypes
<1>9. ASSUME NEW c \in Clients, UnrecordFails(c) PROVE HistoryTypes'
  BY <1>9 DEF HistoryTypes, Knows, Promoting, UnrecordFails, At
<1>10. ASSUME NEW c \in Clients, Retitle(c) PROVE HistoryTypes'
  BY <1>10 DEF HistoryTypes, Retitle
<1>11. ASSUME NEW c \in Clients, RetitleFails(c) PROVE HistoryTypes'
  BY <1>11 DEF HistoryTypes, RetitleFails
<1>12. ASSUME NEW c \in Clients, MoveFails(c) PROVE HistoryTypes'
  BY <1>12 DEF HistoryTypes, MoveFails
<1>13. CASE LookSaveFails
  BY <1>13 DEF HistoryTypes, LookSaveFails
<1>14. CASE LookFails
  <2>1. CASE job.expired
    BY <1>14, <2>1 DEF HistoryTypes, LookFails
  <2>2. CASE ~job.expired
    BY <1>14, <2>2 DEF HistoryTypes, LookFails
  <2> QED BY <2>1, <2>2
<1>15. CASE ApplyFails
  <2>1. CASE job.expired
    BY <1>15, <2>1 DEF HistoryTypes, ApplyFails
  <2>2. CASE ~job.expired
    BY <1>15, <2>2 DEF HistoryTypes, ApplyFails
  <2> QED BY <2>1, <2>2
<1>16. CASE RecordFails
  BY <1>16 DEF HistoryTypes, RecordFails
<1>17. CASE TurnBegins
  BY <1>17 DEF HistoryTypes, TurnBegins, Outside
<1>18. CASE TurnEnds
  BY <1>18 DEF HistoryTypes, TurnEnds, Outside
<1>19. CASE ForeignRename
  BY <1>19 DEF HistoryTypes, ForeignRename, Outside
<1>20. CASE Restart
  <2>1. unsure' \subseteq Revisions
    <3>1. \A d \in Clients : pc[d] \in {"send", "unrecord"} => call[d].revision \in Revisions
      BY DEF Knows, Promoting
    <3> QED BY <1>20, <3>1 DEF Restart, HistoryTypes
  <2>2. diverged' \in BOOLEAN /\ dropped' \in BOOLEAN
    BY <1>20 DEF Restart, HistoryTypes
  <2>3. UNCHANGED <<chosen, sent, acked>>
    BY <1>20 DEF Restart
  <2> QED BY <2>1, <2>2, <2>3 DEF HistoryTypes
<1>21. ASSUME NEW c \in Clients, RenameFails(c) PROVE HistoryTypes'
  <2>1. chosen' \in BOOLEAN /\ diverged' \in BOOLEAN
    BY <1>21 DEF HistoryTypes, RenameFails
  <2>2. UNCHANGED <<dropped, sent, unsure, acked>>
    BY <1>21 DEF RenameFails
  <2> QED BY <2>1, <2>2 DEF HistoryTypes
<1>22. ASSUME NEW c \in Clients, UpdateTitle(c) PROVE HistoryTypes'
  BY <1>22 DEF HistoryTypes, UpdateTitle
<1>23. ASSUME NEW c \in Clients, MoveToChange(c) PROVE HistoryTypes'
  BY <1>23 DEF HistoryTypes, MoveToChange
<1> QED BY <1>21, <1>22, <1>23, <1>2, <1>3, <1>4, <1>5, <1>6, <1>7, <1>8, <1>9, <1>10, <1>11, <1>12, <1>13, <1>14,
  <1>15, <1>16, <1>17, <1>18, <1>19, <1>20 DEF Next, Arrives, Serves, Names, Service

(* Who answers frees the lock, and it held it.                             *)
LEMMA AnswerFrees ==
  ASSUME ControlTypes, Mutex, NEW c \in Clients, pc[c] \in Locked, Answer(c), UNCHANGED namer
  PROVE  Mutex'
<1>1. holder = c /\ holder' = None
  BY DEF Mutex, Answer
<1>2. pc'[c] = "idle" /\ \A d \in Clients \ {c} : pc'[d] = pc[d]
  BY DEF ControlTypes, Answer, With
<1>3. \A d \in Clients : pc'[d] \notin Locked
  BY <1>1, <1>2 DEF Mutex, Locked
<1>4. namer \notin {"check", "look", "apply", "record"}
  BY <1>1, Apart DEF Mutex
<1> QED BY <1>1, <1>3, <1>4, Apart DEF Mutex

(* Who holds sessionOps is at work under it.                              *)
LEMMA KeepsMutex ==
  ASSUME ControlTypes, Mutex, NameInv, [Next]_vars
  PROVE  Mutex'
<1>1. CASE UNCHANGED <<pc, holder, namer>>
  BY <1>1 DEF Mutex
<1>2. CASE TurnBegins \/ TurnEnds \/ ForeignRename \/ UNCHANGED vars
  <2>1. UNCHANGED <<pc, holder, namer>>
    BY <1>2 DEF TurnBegins, Outside, Naming, TurnEnds, ForeignRename, vars
  <2> QED BY <2>1, <1>1
<1>3. ASSUME NEW c \in Clients, Answer(c) /\ Naming PROVE Mutex'
  BY <1>3, Apart DEF ControlTypes, Mutex, Locked, Answer, With, Naming
<1>4. ASSUME NEW c \in Clients, ClaimFails(c) \/ Refresh(c) \/ RenameFails(c) \/ UpdateTitle(c)
         \/ UpdateTitleFails(c) \/ ConfirmFails(c) \/ SendPromotion(c) \/ Unrecord(c) \/
         UnrecordFails(c) \/ CreateFails(c) \/ MoveToChange(c) \/ MoveFails(c)
      PROVE  Mutex'
  <2>1. Answer(c) /\ Naming
    BY <1>4 DEF ClaimFails, Refresh, RenameFails, UpdateTitle, UpdateTitleFails, ConfirmFails,
      PromoteOnly, SendPromotion, Unrecord, UnrecordFails, CreateFails, MoveToChange, MoveFails
  <2> QED BY <2>1, <1>3
<1>5. ASSUME NEW c \in Clients, Input(c) PROVE Mutex'
  BY <1>5 DEF Mutex, Locked, Input, Begin, Naming, At, With
<1>6. ASSUME NEW c \in Clients, Rename(c) PROVE Mutex'
  BY <1>6, Apart DEF ControlTypes, Mutex, Locked, Rename, BeginLocked, Naming, Begin, With
<1>7. ASSUME NEW c \in Clients, ListChats(c) PROVE Mutex'
  BY <1>7 DEF ControlTypes, Mutex, Locked, ListChats, Begin, Naming, At, With
<1>8. ASSUME NEW c \in Clients, Promote(c) PROVE Mutex'
  <2>1. PICK n \in 1 .. revision : Promote(c)!(n)
    BY <1>8 DEF Promote
  <2>2. /\ holder = None /\ pc[c] = "idle" /\ UNCHANGED namer
        /\ \/ holder' = c /\ pc' = [pc EXCEPT ![c] = "confirm"]
           \/ holder' = holder /\ pc' = [pc EXCEPT ![c] = "idle"]
    BY <2>1 DEF BeginLocked, Begin, At, With, Naming
  <2>3. CASE holder' = c /\ pc' = [pc EXCEPT ![c] = "confirm"]
    BY <2>2, <2>3, Apart DEF ControlTypes, Mutex, Locked
  <2>4. CASE holder' = holder /\ pc' = [pc EXCEPT ![c] = "idle"]
    <3>1. pc' = pc
      BY <2>2, <2>4 DEF ControlTypes
    <3> QED BY <2>2, <2>4, <3>1 DEF Mutex
  <2> QED BY <2>2, <2>3, <2>4
<1>9. ASSUME NEW c \in Clients, Scaffold(c) PROVE Mutex'
  BY <1>9, Apart DEF ControlTypes, Mutex, Locked, Scaffold, BeginLocked, Naming, Begin, With
<1>10. ASSUME NEW c \in Clients, Claim(c) PROVE Mutex'
  <2>1. pc[c] = "claim" /\ holder # c
    BY <1>10 DEF Claim, At, Mutex, Locked
  <2>2. pc' = [pc EXCEPT ![c] = "idle"] /\ UNCHANGED holder
    BY <1>10, <2>1 DEF Claim, Answer, With
  <2>3. namer' = namer \/ (namer = "idle" /\ namer' = "generate")
    <3>1. CASE Claimed(entry)
      BY <1>10, <3>1 DEF Claim, Claimed, NameInv
    <3>2. CASE ~Claimed(entry)
      BY <1>10, <3>2 DEF Claim, Naming
    <3> QED BY <3>1, <3>2
  <2> QED BY <2>1, <2>2, <2>3, Apart DEF ControlTypes, Mutex, Locked
<1>11. ASSUME NEW c \in Clients, RenameSession(c) PROVE Mutex'
  BY <1>11 DEF Mutex, Locked, RenameSession, At, Goto, Naming
<1>12. ASSUME NEW c \in Clients, Confirm(c) PROVE Mutex'
  <2>1. pc[c] = "confirm" /\ UNCHANGED namer /\ (Answer(c) \/ (Goto(c, "busy") /\ UNCHANGED holder))
    BY <1>12 DEF Confirm, At, PromoteOnly, Naming
  <2>2. CASE Answer(c)
    BY <2>1, <2>2, AnswerFrees DEF Locked
  <2>3. CASE Goto(c, "busy") /\ UNCHANGED holder
    BY <2>1, <2>3 DEF ControlTypes, Mutex, Locked, Goto
  <2> QED BY <2>1, <2>2, <2>3
<1>13. ASSUME NEW c \in Clients, LookIdle(c) PROVE Mutex'
  <2>1. pc[c] = "busy" /\ UNCHANGED namer /\ (Answer(c) \/ (Goto(c, "record") /\ UNCHANGED holder))
    BY <1>13 DEF LookIdle, At, PromoteOnly, Naming
  <2>2. CASE Answer(c)
    BY <2>1, <2>2, AnswerFrees DEF Locked
  <2>3. CASE Goto(c, "record") /\ UNCHANGED holder
    BY <2>1, <2>3 DEF ControlTypes, Mutex, Locked, Goto
  <2> QED BY <2>1, <2>2, <2>3
<1>14. ASSUME NEW c \in Clients, RecordPromotion(c) PROVE Mutex'
  BY <1>14 DEF Mutex, Locked, RecordPromotion, At, Goto, Naming
<1>15. ASSUME NEW c \in Clients, SendFails(c) PROVE Mutex'
  BY <1>15 DEF Mutex, Locked, SendFails, At, Goto, Naming
<1>16. ASSUME NEW c \in Clients, CreateChange(c) PROVE Mutex'
  BY <1>16 DEF Mutex, Locked, CreateChange, At, Goto, Naming
<1>17. ASSUME NEW c \in Clients, Retitle(c) PROVE Mutex'
  BY <1>17 DEF Mutex, Locked, Retitle, At, Goto, Naming
<1>18. ASSUME NEW c \in Clients, RetitleFails(c) PROVE Mutex'
  BY <1>18 DEF Mutex, Locked, RetitleFails, At, Goto, Naming
<1>19. CASE Generate
  BY <1>19 DEF Mutex, Generate, NamerOnly
<1>20. CASE NamerLock
  BY <1>20, Apart DEF Mutex, NamerLock, NamerGoto, NamerOnly
<1>21. CASE NamerCheck
  <2>1. CASE StillPending(entry)
    BY <1>21, <2>1 DEF Mutex, NamerCheck, NamerGoto, NamerOnly
  <2>2. CASE ~StillPending(entry)
    BY <1>21, <2>2, Apart DEF Mutex, NamerCheck, NamerDone, NamerOnly
  <2> QED BY <2>1, <2>2
<1>22. CASE Look
  <2>1. CASE live # job.original
    BY <1>22, <2>1, Apart DEF Mutex, Look, NamerDone, NamerOnly
  <2>2. CASE live = job.original
    BY <1>22, <2>2 DEF Mutex, Look, NamerGoto, NamerOnly
  <2> QED BY <2>1, <2>2
<1>23. CASE LookSaveFails
  BY <1>23, Apart DEF Mutex, LookSaveFails, NamerDone
<1>24. CASE LookFails
  <2>1. CASE job.expired
    BY <1>24, <2>1 DEF Mutex, LookFails, NamerGoto
  <2>2. CASE ~job.expired
    BY <1>24, <2>2 DEF Mutex, LookFails, NamerGoto
  <2> QED BY <2>1, <2>2
<1>25. CASE Apply
  BY <1>25 DEF Mutex, Apply, NamerGoto
<1>26. CASE ApplyFails
  <2>1. CASE job.expired
    BY <1>26, <2>1 DEF Mutex, ApplyFails, NamerGoto
  <2>2. CASE ~job.expired
    BY <1>26, <2>2 DEF Mutex, ApplyFails, NamerGoto
  <2> QED BY <2>1, <2>2
<1>27. CASE Record
  <2>1. CASE StillPending(entry)
    BY <1>27, <2>1, Apart DEF Mutex, Record, NamerDone, NamerOnly
  <2>2. CASE ~StillPending(entry)
    BY <1>27, <2>2, Apart DEF Mutex, Record, NamerDone, NamerOnly
  <2> QED BY <2>1, <2>2
<1>28. CASE RecordFails
  BY <1>28, Apart DEF Mutex, RecordFails, NamerDone
<1>29. CASE Restart
  BY <1>29, Apart DEF Mutex, Locked, Restart
<1> QED BY <1>2, <1>4, <1>5, <1>6, <1>7, <1>8, <1>9, <1>10, <1>11, <1>12, <1>13, <1>14, <1>15,
  <1>16, <1>17, <1>18, <1>19, <1>20, <1>21, <1>22, <1>23, <1>24, <1>25, <1>26, <1>27, <1>28,
  <1>29 DEF Next, Arrives, Serves, Names, Service

(* What the requests and the naming know.                                 *)
LEMMA KeepsKnows ==
  ASSUME DataTypes, ControlTypes, NameInv, Knows, [Next]_vars
  PROVE  Knows'
<1>1. CASE UNCHANGED <<pc, call, namer, job>>
  BY <1>1 DEF Knows
<1>2. CASE TurnBegins \/ TurnEnds \/ ForeignRename \/ UNCHANGED vars
  <2>1. UNCHANGED <<pc, call, namer, job>>
    BY <1>2 DEF TurnBegins, Outside, Naming, TurnEnds, ForeignRename, vars
  <2> QED BY <2>1, <1>1
<1>3. ASSUME NEW c \in Clients, Answer(c) /\ Naming PROVE Knows'
  BY <1>3 DEF ControlTypes, Knows, Promoting, Answer, With, Naming
<1>4. ASSUME NEW c \in Clients, ClaimFails(c) \/ Refresh(c) \/ RenameFails(c) \/ UpdateTitle(c)
         \/ UpdateTitleFails(c) \/ ConfirmFails(c) \/ SendPromotion(c) \/ Unrecord(c) \/
         UnrecordFails(c) \/ CreateFails(c) \/ MoveToChange(c) \/ MoveFails(c)
      PROVE  Knows'
  <2>1. Answer(c) /\ Naming
    BY <1>4 DEF ClaimFails, Refresh, RenameFails, UpdateTitle, UpdateTitleFails, ConfirmFails,
      PromoteOnly, SendPromotion, Unrecord, UnrecordFails, CreateFails, MoveToChange, MoveFails
  <2> QED BY <2>1, <1>3
<1>5. ASSUME NEW c \in Clients, Input(c) PROVE Knows'
  BY <1>5 DEF ControlTypes, Knows, Promoting, Input, Begin, Naming, With
<1>6. ASSUME NEW c \in Clients, Rename(c) PROVE Knows'
  BY <1>6 DEF ControlTypes, Knows, Promoting, Rename, BeginLocked, NoCall, Naming, Begin, With
<1>7. ASSUME NEW c \in Clients, ListChats(c) PROVE Knows'
  BY <1>7 DEF DataTypes, ControlTypes, Knows, Promoting, Entries, ListChats, Begin, NoCall,
    Naming, With
<1>8. ASSUME NEW c \in Clients, Promote(c) PROVE Knows'
  <2>1. PICK n \in 1 .. revision : Promote(c)!(n)
    BY <1>8 DEF Promote
  <2>2. n \in Revisions
    BY RevisionsAreNumbers, Limits DEF DataTypes, Revisions
  <2>3. UNCHANGED <<namer, job>>
    BY <2>1 DEF Naming
  <2>4. CASE With(c, "confirm", [NoCall EXCEPT !.revision = n])
    BY <2>2, <2>3, <2>4 DEF Knows, ControlTypes, With, NoCall
  <2>5. CASE With(c, "idle", NoCall)
    BY <2>3, <2>5 DEF Knows, ControlTypes, Promoting, With
  <2> QED BY <2>1, <2>4, <2>5 DEF BeginLocked, Begin
<1>9. ASSUME NEW c \in Clients, Scaffold(c) PROVE Knows'
  BY <1>9 DEF ControlTypes, Knows, Promoting, Scaffold, BeginLocked, Naming, Begin, With
<1>10. ASSUME NEW c \in Clients, Claim(c) PROVE Knows'
  <2>1. With(c, "idle", NoCall)
    BY <1>10 DEF Claim, Answer
  <2>2. namer' # "idle" => job'.original = "codebase chat" /\ job'.title \in {"fallback", "generated"}
    <3>1. CASE Claimed(entry)
      <4>1. entry.title = "codebase chat"
        BY <3>1 DEF Claimed, NameInv
      <4>2. job' = [original |-> entry.title, title |-> "fallback", expired |-> FALSE]
        BY <1>10, <3>1 DEF Claim
      <4> QED BY <4>1, <4>2
    <3>2. CASE ~Claimed(entry)
      BY <1>10, <3>2 DEF Claim, Naming, Knows
    <3> QED BY <3>1, <3>2
  <2> QED BY <2>1, <2>2 DEF Knows, ControlTypes, Promoting, With
<1>11. ASSUME NEW c \in Clients, RenameSession(c) PROVE Knows'
  BY <1>11 DEF ControlTypes, Knows, Promoting, RenameSession, At, Goto, Naming
<1>12. ASSUME NEW c \in Clients, Confirm(c) PROVE Knows'
  <2>1. With(c, "idle", NoCall) \/ Goto(c, "busy")
    BY <1>12 DEF Confirm, Answer
  <2>2. pc[c] = "confirm" /\ UNCHANGED <<namer, job>>
    BY <1>12 DEF Confirm, At, PromoteOnly, Naming
  <2>3. CASE With(c, "idle", NoCall)
    BY <2>2, <2>3 DEF Knows, ControlTypes, Promoting, With
  <2>4. CASE Goto(c, "busy")
    BY <2>2, <2>4 DEF Knows, ControlTypes, Promoting, Goto
  <2> QED BY <2>1, <2>3, <2>4
<1>13. ASSUME NEW c \in Clients, LookIdle(c) PROVE Knows'
  <2>1. With(c, "idle", NoCall) \/ Goto(c, "record")
    BY <1>13 DEF LookIdle, Answer
  <2>2. pc[c] = "busy" /\ UNCHANGED <<namer, job>>
    BY <1>13 DEF LookIdle, At, PromoteOnly, Naming
  <2>3. CASE With(c, "idle", NoCall)
    BY <2>2, <2>3 DEF Knows, ControlTypes, Promoting, With
  <2>4. CASE Goto(c, "record")
    BY <2>2, <2>4 DEF Knows, ControlTypes, Promoting, Goto
  <2> QED BY <2>1, <2>3, <2>4
<1>14. ASSUME NEW c \in Clients, RecordPromotion(c) PROVE Knows'
  BY <1>14 DEF ControlTypes, Knows, Promoting, RecordPromotion, At, Goto, Naming
<1>15. ASSUME NEW c \in Clients, SendFails(c) PROVE Knows'
  BY <1>15 DEF ControlTypes, Knows, Promoting, SendFails, At, Goto, Naming
<1>16. ASSUME NEW c \in Clients, CreateChange(c) PROVE Knows'
  BY <1>16 DEF ControlTypes, Knows, Promoting, CreateChange, Goto, Naming
<1>17. ASSUME NEW c \in Clients, Retitle(c) PROVE Knows'
  BY <1>17 DEF ControlTypes, Knows, Promoting, Retitle, Goto, Naming
<1>18. ASSUME NEW c \in Clients, RetitleFails(c) PROVE Knows'
  BY <1>18 DEF ControlTypes, Knows, Promoting, RetitleFails, Goto, Naming
<1>19. CASE Generate
  BY <1>19 DEF ControlTypes, Knows, Generate, NamerOnly
<1>20. CASE NamerLock
  BY <1>20 DEF Knows, NamerLock, NamerGoto, NamerOnly
<1>21. CASE NamerCheck
  <2>1. CASE StillPending(entry)
    BY <1>21, <2>1 DEF Knows, NamerCheck, NamerGoto, NamerOnly
  <2>2. CASE ~StillPending(entry)
    BY <1>21, <2>2 DEF Knows, NamerCheck, NamerDone, NamerOnly
  <2> QED BY <2>1, <2>2
<1>22. CASE Look
  <2>1. CASE live # job.original
    BY <1>22, <2>1 DEF Knows, Look, NamerDone, NamerOnly
  <2>2. CASE live = job.original
    BY <1>22, <2>2 DEF Knows, Look, NamerGoto, NamerOnly
  <2> QED BY <2>1, <2>2
<1>23. CASE LookSaveFails
  BY <1>23 DEF Knows, LookSaveFails, NamerDone
<1>24. CASE LookFails
  <2>1. CASE job.expired
    BY <1>24, <2>1 DEF Knows, LookFails, NamerGoto
  <2>2. CASE ~job.expired
    BY <1>24, <2>2 DEF Knows, LookFails, NamerGoto
  <2> QED BY <2>1, <2>2
<1>25. CASE Apply
  BY <1>25 DEF Knows, Apply, NamerGoto
<1>26. CASE ApplyFails
  <2>1. CASE job.expired
    BY <1>26, <2>1 DEF Knows, ApplyFails, NamerGoto
  <2>2. CASE ~job.expired
    BY <1>26, <2>2 DEF Knows, ApplyFails, NamerGoto
  <2> QED BY <2>1, <2>2
<1>27. CASE Record
  <2>1. CASE StillPending(entry)
    BY <1>27, <2>1 DEF Knows, Record, NamerDone, NamerOnly
  <2>2. CASE ~StillPending(entry)
    BY <1>27, <2>2 DEF NameInv, Record
  <2> QED BY <2>1, <2>2
<1>28. CASE RecordFails
  BY <1>28 DEF Knows, RecordFails, NamerDone
<1>29. CASE Restart
  BY <1>29 DEF Knows, Promoting, Restart
<1> QED BY <1>2, <1>4, <1>5, <1>6, <1>7, <1>8, <1>9, <1>10, <1>11, <1>12, <1>13, <1>14, <1>15,
  <1>16, <1>17, <1>18, <1>19, <1>20, <1>21, <1>22, <1>23, <1>24, <1>25, <1>26, <1>27, <1>28,
  <1>29 DEF Next, Arrives, Serves, Names, Service

(* The chosen title.                                                      *)
LEMMA KeepsNames ==
  ASSUME DataTypes, HistoryTypes, ControlTypes, Mutex, Knows, NameInv, ChosenTitleKept, [Next]_vars
  PROVE  (NameInv /\ ChosenTitleKept)'
<1>1. CASE UNCHANGED <<live, entry, namer, job, chosen, diverged>>
  BY <1>1 DEF NameInv, ChosenTitleKept, StillPending
<1>2. ASSUME NEW c \in Clients, Input(c) \/ Rename(c) \/ ListChats(c) \/ Promote(c) \/
         Scaffold(c) \/ ClaimFails(c) \/ Confirm(c) \/ LookIdle(c) \/
         ConfirmFails(c) \/ SendPromotion(c) \/ SendFails(c) \/ UnrecordFails(c) \/
         CreateChange(c) \/ CreateFails(c)
      PROVE  (NameInv /\ ChosenTitleKept)'
  <2>1. UNCHANGED <<live, entry, namer, job, chosen, diverged>>
    BY <1>2 DEF history, opencode, Input, Naming, Rename, ListChats, Promote, Scaffold,
      ClaimFails, Confirm, PromoteOnly, LookIdle, ConfirmFails, SendPromotion,
      SendFails, UnrecordFails, CreateChange, CreateFails
  <2> QED BY <2>1, <1>1
<1>3. CASE TurnBegins \/ TurnEnds \/ UNCHANGED vars
  <2>1. UNCHANGED <<live, entry, namer, job, chosen, diverged>>
    BY <1>3 DEF history, opencode, TurnBegins, Outside, Naming, TurnEnds, vars
  <2> QED BY <2>1, <1>1
<1>4. ASSUME NEW c \in Clients, Claim(c) PROVE (NameInv /\ ChosenTitleKept)'
  <2>1. CASE Claimed(entry)
    BY <1>4, <2>1 DEF DataTypes, Entries, NameInv, ChosenTitleKept, Claim, opencode, history
  <2>2. CASE ~Claimed(entry)
    BY <1>4, <2>2 DEF NameInv, ChosenTitleKept, Claim, Naming, opencode, history
  <2> QED BY <2>1, <2>2
<1>5. ASSUME NEW c \in Clients, Refresh(c) PROVE (NameInv /\ ChosenTitleKept)'
  <2>1. CASE entry.owner = "unassigned" /\ entry.state = ""
    BY <1>5, <2>1 DEF DataTypes, Entries, NameInv, ChosenTitleKept, StillPending, Refresh,
      opencode, history, Naming
  <2>2. CASE ~(entry.owner = "unassigned" /\ entry.state = "")
    BY <1>5, <2>2 DEF NameInv, ChosenTitleKept, Refresh, opencode, history, Naming
  <2> QED BY <2>1, <2>2
<1>6. ASSUME NEW c \in Clients, RenameSession(c) PROVE (NameInv /\ ChosenTitleKept)'
  BY <1>6, Apart DEF Mutex, Locked, Knows, NameInv, ChosenTitleKept, RenameSession, At, Naming
<1>7. ASSUME NEW c \in Clients, UpdateTitle(c) PROVE (NameInv /\ ChosenTitleKept)'
  <2>1. /\ UNCHANGED <<live, namer, job, chosen>> /\ entry'.state = "manual"
        /\ namer \notin {"look", "apply", "record"}
    BY <1>7, Apart DEF DataTypes, Mutex, Locked, Entries, UpdateTitle, At, opencode, Naming
  <2>2. live \in {"generated", "fallback"} => live # call[c].title
    BY <1>7, Apart DEF Knows, UpdateTitle, At
  <2>3. diverged' = (diverged /\ live # call[c].title)
    BY <1>7 DEF UpdateTitle
  <2> QED BY <2>1, <2>2, <2>3 DEF NameInv, ChosenTitleKept
<1>8. ASSUME NEW c \in Clients, UpdateTitleFails(c) PROVE (NameInv /\ ChosenTitleKept)'
  BY <1>8 DEF NameInv, ChosenTitleKept, UpdateTitleFails, opencode, Naming
<1>9. ASSUME NEW c \in Clients, RecordPromotion(c) PROVE (NameInv /\ ChosenTitleKept)'
  BY <1>9 DEF DataTypes, Entries, NameInv, ChosenTitleKept, StillPending, RecordPromotion,
    opencode, history, Naming
<1>10. ASSUME NEW c \in Clients, Unrecord(c) PROVE (NameInv /\ ChosenTitleKept)'
  BY <1>10 DEF DataTypes, Entries, NameInv, ChosenTitleKept, StillPending, Unrecord, opencode,
    history, Naming
<1>11. ASSUME NEW c \in Clients, Retitle(c) PROVE (NameInv /\ ChosenTitleKept)'
  BY <1>11, Apart DEF Mutex, Locked, NameInv, ChosenTitleKept, Retitle, At, Naming
<1>12. ASSUME NEW c \in Clients, RetitleFails(c) PROVE (NameInv /\ ChosenTitleKept)'
  <2>1. /\ UNCHANGED <<entry, namer, job>> /\ diverged' = TRUE
    BY <1>12 DEF RetitleFails, Naming
  <2>2. CASE UNCHANGED <<live, chosen>>
    BY <2>1, <2>2 DEF NameInv, ChosenTitleKept, StillPending
  <2>3. CASE live' = "change"
    BY <2>1, <2>3 DEF NameInv, ChosenTitleKept, StillPending
  <2> QED BY <1>12, <2>2, <2>3 DEF RetitleFails
<1>13. ASSUME NEW c \in Clients, MoveToChange(c) PROVE (NameInv /\ ChosenTitleKept)'
  <2>1. /\ UNCHANGED <<live, namer, job, chosen>> /\ entry'.state = "change"
        /\ namer \notin {"look", "apply", "record"}
        /\ diverged' = (diverged /\ live # "change")
    BY <1>13, Apart DEF DataTypes, Mutex, Locked, Entries, MoveToChange, At, opencode, Naming
  <2> QED BY <2>1 DEF NameInv, ChosenTitleKept
<1>14. ASSUME NEW c \in Clients, MoveFails(c) PROVE (NameInv /\ ChosenTitleKept)'
  BY <1>14 DEF NameInv, ChosenTitleKept, MoveFails, opencode, Naming
<1>15. CASE Generate
  BY <1>15 DEF NameInv, ChosenTitleKept, Generate, history, NamerOnly, opencode
<1>16. CASE NamerLock
  BY <1>16 DEF NameInv, ChosenTitleKept, NamerLock, NamerGoto, history, NamerOnly, opencode
<1>17. CASE NamerCheck
  <2>1. CASE StillPending(entry)
    BY <1>17, <2>1 DEF NameInv, ChosenTitleKept, NamerCheck, NamerGoto, history, NamerOnly,
      opencode
  <2>2. CASE ~StillPending(entry)
    BY <1>17, <2>2 DEF NameInv, ChosenTitleKept, NamerCheck, NamerDone, history, NamerOnly,
      opencode
  <2> QED BY <2>1, <2>2
<1>18. CASE Look
  <2>1. CASE live # job.original
    BY <1>18, <2>1 DEF DataTypes, Entries, NameInv, ChosenTitleKept, Look, NamerDone, history,
      NamerOnly, opencode
  <2>2. CASE live = job.original
    BY <1>18, <2>2 DEF Knows, NameInv, ChosenTitleKept, Look, history
  <2> QED BY <2>1, <2>2
<1>19. CASE LookSaveFails
  BY <1>19 DEF NameInv, ChosenTitleKept, LookSaveFails, NamerDone, opencode
<1>20. CASE LookFails
  <2>1. CASE job.expired
    BY <1>20, <2>1 DEF NameInv, ChosenTitleKept, LookFails, opencode
  <2>2. CASE ~job.expired
    BY <1>20, <2>2 DEF NameInv, ChosenTitleKept, LookFails, opencode
  <2> QED BY <2>1, <2>2
<1>21. CASE Apply
  BY <1>21 DEF Knows, NameInv, ChosenTitleKept, Apply, history
<1>22. CASE ApplyFails
  <2>1. /\ UNCHANGED <<entry, chosen>> /\ namer = "apply" /\ namer' = "record"
        /\ diverged' = TRUE /\ live' \in {live, job.title}
    BY <1>22 DEF ApplyFails, NamerGoto
  <2>2. job.title # "codebase chat"
    BY <2>1 DEF Knows
  <2> QED BY <2>1, <2>2 DEF NameInv, ChosenTitleKept, StillPending
<1>23. CASE Record
  <2>1. CASE StillPending(entry)
    BY <1>23, <2>1 DEF DataTypes, Entries, NameInv, ChosenTitleKept, Record, NamerDone, history,
      NamerOnly, opencode
  <2>2. CASE ~StillPending(entry)
    BY <1>23, <2>2 DEF NameInv, Record
  <2> QED BY <2>1, <2>2
<1>24. CASE RecordFails
  BY <1>24 DEF NameInv, ChosenTitleKept, RecordFails, NamerDone, opencode
<1>25. CASE ForeignRename
  BY <1>25 DEF NameInv, ChosenTitleKept, ForeignRename, Outside, Naming
<1>26. CASE Restart
  BY <1>26 DEF NameInv, ChosenTitleKept, Restart, opencode
<1>27. ASSUME NEW c \in Clients, RenameFails(c) PROVE (NameInv /\ ChosenTitleKept)'
  <2>1. CASE UNCHANGED <<live, chosen, diverged>>
    <3>1. UNCHANGED <<entry, namer, job>>
      BY <1>27 DEF RenameFails, Naming
    <3> QED BY <2>1, <3>1, <1>1
  <2>2. CASE live' = call[c].title /\ chosen' = TRUE
    <3>1. /\ call[c].title = c /\ UNCHANGED <<entry, namer, job>>
          /\ namer \notin {"look", "apply", "record"}
      BY <1>27, Apart DEF RenameFails, At, Naming, Knows, Mutex, Locked
    <3> QED BY <2>2, <3>1, Apart DEF NameInv, ChosenTitleKept
  <2> QED BY <1>27, <2>1, <2>2 DEF RenameFails
<1> QED BY <1>27, <1>2, <1>3, <1>4, <1>5, <1>6, <1>7, <1>8, <1>9, <1>10, <1>11, <1>12, <1>13, <1>14,
  <1>15, <1>16, <1>17, <1>18, <1>19, <1>20, <1>21, <1>22, <1>23, <1>24, <1>25, <1>26 DEF Next,
  Arrives, Serves, Names, Service

(* The stored title.                                                      *)
LEMMA KeepsTitles ==
  ASSUME DataTypes, ControlTypes, Mutex, HistoryTypes, Knows, NameInv, TitleInv, [Next]_vars
  PROVE  TitleInv'
<1>1. ASSUME NEW c \in Clients, Aside(c) PROVE TitleInv'
  BY <1>1 DEF Aside, TitleInv
<1>2. ASSUME NEW c \in Clients, Input(c) \/ Rename(c) \/ ListChats(c) \/ Scaffold(c) \/
         ClaimFails(c) \/ ConfirmFails(c) \/ SendPromotion(c) \/ SendFails(c)
         \/ UnrecordFails(c) \/ CreateChange(c) \/ CreateFails(c)
      PROVE  TitleInv'
  <2>1. Aside(c)
    BY <1>2 DEF Aside, ControlTypes, history, opencode, Input, Begin, Naming, At, With, Rename,
      BeginLocked, ListChats, Scaffold, ClaimFails, Answer, ConfirmFails,
      PromoteOnly, SendPromotion, SendFails, Goto, UnrecordFails, CreateChange, CreateFails
  <2> QED BY <2>1, <1>1
<1>3. CASE UNCHANGED <<live, entry, namer, job, pc, diverged>>
  BY <1>3 DEF TitleInv
<1>4. CASE TurnBegins \/ TurnEnds \/ UNCHANGED vars
  <2>1. UNCHANGED <<live, entry, namer, job, pc, diverged>>
    BY <1>4 DEF history, opencode, TurnBegins, Outside, Naming, TurnEnds, vars
  <2> QED BY <2>1, <1>3
<1>5. ASSUME NEW c \in Clients, Promote(c) PROVE TitleInv'
  <2>1. PICK n \in 1 .. revision : Promote(c)!(n)
    BY <1>5 DEF Promote
  <2>2. CASE entry.owner = "unassigned" /\ ~(entry.owner = "unassigned" /\ entry.promotion = n)
    BY <2>1, <2>2 DEF ControlTypes, TitleInv, BeginLocked, Begin, opencode, Naming, At, With
  <2>3. CASE ~(entry.owner = "unassigned" /\ ~(entry.owner = "unassigned" /\ entry.promotion = n))
    BY <2>1, <2>3 DEF ControlTypes, TitleInv, Begin, opencode, Naming, At, With
  <2> QED BY <2>2, <2>3
<1>6. ASSUME NEW c \in Clients, Claim(c) PROVE TitleInv'
  <2>1. pc' = [pc EXCEPT ![c] = "idle"] /\ UNCHANGED <<live, diverged>>
    BY <1>6 DEF Claim, Answer, With, opencode, history
  <2>2. \A d \in Clients : pc'[d] \in {"save", "move"} => pc'[d] = pc[d]
    BY <2>1 DEF ControlTypes
  <2>3. CASE Claimed(entry)
    <3>1. namer' = "generate" /\ entry'.state = "pending"
      BY <1>6, <2>3 DEF Claim, DataTypes, Entries
    <3> QED BY <2>1, <2>2, <3>1 DEF TitleInv
  <2>4. CASE ~Claimed(entry)
    <3>1. UNCHANGED <<entry, namer, job>> /\ pc[c] = "claim"
      BY <1>6, <2>4 DEF Claim, At, Naming
    <3> QED BY <2>1, <2>2, <3>1 DEF TitleInv, ControlTypes
  <2> QED BY <2>3, <2>4
<1>7. ASSUME NEW c \in Clients, Refresh(c) PROVE TitleInv'
  <2>1. CASE entry.owner = "unassigned" /\ entry.state = ""
    BY <1>7, <2>1 DEF DataTypes, ControlTypes, Entries, TitleInv, Refresh, Answer, opencode,
      history, Naming, With
  <2>2. CASE ~(entry.owner = "unassigned" /\ entry.state = "")
    BY <1>7, <2>2 DEF ControlTypes, TitleInv, Refresh, At, Answer, opencode, history, Naming, With
  <2> QED BY <2>1, <2>2
<1>8. ASSUME NEW c \in Clients, RenameSession(c) PROVE TitleInv'
  <2>1. pc[c] = "rename" /\ pc' = [pc EXCEPT ![c] = "save"] /\ live' = c /\ UNCHANGED <<entry, namer, diverged>>
    BY <1>8 DEF RenameSession, At, Goto, Naming, Knows
  <2>2. /\ pc'[c] = "save" /\ namer # "record"
        /\ \A d \in Clients \ {c} : pc'[d] = pc[d] /\ pc[d] \notin Locked
    BY <2>1, Apart DEF ControlTypes, Mutex, Locked
  <2> QED BY <2>1, <2>2 DEF TitleInv, Locked
<1>9. ASSUME NEW c \in Clients, UpdateTitle(c) PROVE TitleInv'
  <2>1. /\ pc[c] = "save" /\ pc' = [pc EXCEPT ![c] = "idle"] /\ UNCHANGED <<live, namer, job>>
        /\ entry'.title = c /\ diverged' = (diverged /\ live # c)
    BY <1>9 DEF UpdateTitle, At, Answer, With, opencode, Naming, Knows, DataTypes, Entries
  <2>2. /\ namer # "record" /\ pc'[c] = "idle"
        /\ \A d \in Clients \ {c} : pc'[d] = pc[d] /\ pc[d] \notin Locked
    BY <2>1, Apart DEF ControlTypes, Mutex, Locked
  <2>3. ~diverged' => live = c
    BY <2>1 DEF TitleInv
  <2> QED BY <2>1, <2>2, <2>3 DEF TitleInv, Locked
<1>10. ASSUME NEW c \in Clients, UpdateTitleFails(c) PROVE TitleInv'
  BY <1>10 DEF ControlTypes, TitleInv, StillPending, UpdateTitleFails, Answer, opencode, Naming,
    With
<1>11. ASSUME NEW c \in Clients, Confirm(c) PROVE TitleInv'
  <2>1. CASE call[c].revision = revision
    BY <1>11, <2>1 DEF ControlTypes, TitleInv, Confirm, At, history, PromoteOnly, Goto, opencode,
      Naming
  <2>2. CASE ~(call[c].revision = revision)
    BY <1>11, <2>2 DEF ControlTypes, TitleInv, Confirm, At, history, PromoteOnly, Answer,
      opencode, Naming, With
  <2> QED BY <2>1, <2>2
<1>12. ASSUME NEW c \in Clients, LookIdle(c) PROVE TitleInv'
  <2>1. CASE running
    BY <1>12, <2>1 DEF ControlTypes, TitleInv, LookIdle, At, history, PromoteOnly, Answer,
      opencode, Naming, With
  <2>2. CASE ~running
    BY <1>12, <2>2 DEF ControlTypes, TitleInv, LookIdle, At, history, PromoteOnly, Goto, opencode,
      Naming
  <2> QED BY <2>1, <2>2
<1>13. ASSUME NEW c \in Clients, RecordPromotion(c) PROVE TitleInv'
  BY <1>13 DEF TitleInv, RecordPromotion, At, Goto, opencode, history, Naming
<1>14. ASSUME NEW c \in Clients, Unrecord(c) PROVE TitleInv'
  BY <1>14 DEF TitleInv, Unrecord, At, Answer, opencode, history, Naming, With
<1>15. ASSUME NEW c \in Clients, Retitle(c) PROVE TitleInv'
  BY <1>15, Apart DEF ControlTypes, Mutex, Locked, TitleInv, Retitle, At, Goto, Naming
<1>16. ASSUME NEW c \in Clients, RetitleFails(c) PROVE TitleInv'
  <2>1. diverged' = TRUE
    BY <1>16 DEF RetitleFails
  <2> QED BY <2>1 DEF TitleInv
<1>17. ASSUME NEW c \in Clients, MoveToChange(c) PROVE TitleInv'
  <2>1. /\ pc[c] = "move" /\ pc' = [pc EXCEPT ![c] = "idle"] /\ UNCHANGED <<live, namer, job>>
        /\ entry'.title = "change" /\ diverged' = (diverged /\ live # "change")
    BY <1>17 DEF MoveToChange, At, Answer, With, opencode, Naming, DataTypes, Entries
  <2>2. /\ namer # "record" /\ pc'[c] = "idle"
        /\ \A d \in Clients \ {c} : pc'[d] = pc[d] /\ pc[d] \notin Locked
    BY <2>1, Apart DEF ControlTypes, Mutex, Locked
  <2>3. ~diverged' => live = "change"
    BY <2>1 DEF TitleInv
  <2> QED BY <2>1, <2>2, <2>3 DEF TitleInv, Locked
<1>18. ASSUME NEW c \in Clients, MoveFails(c) PROVE TitleInv'
  BY <1>18 DEF ControlTypes, TitleInv, MoveFails, Answer, MadeGood, opencode, Naming, With
<1>19. CASE Generate
  BY <1>19 DEF TitleInv, Generate, history, NamerOnly, opencode
<1>20. CASE NamerLock
  BY <1>20 DEF TitleInv, NamerLock, NamerGoto, history, NamerOnly, opencode
<1>21. CASE NamerCheck
  <2>1. CASE StillPending(entry)
    BY <1>21, <2>1 DEF TitleInv, NamerCheck, NamerGoto, history, NamerOnly, opencode
  <2>2. CASE ~StillPending(entry)
    BY <1>21, <2>2 DEF TitleInv, NamerCheck, NamerDone, history, NamerOnly, opencode
  <2> QED BY <2>1, <2>2
<1>22. CASE Look
  <2>1. CASE live # job.original
    BY <1>22, <2>1 DEF DataTypes, Entries, TitleInv, Look, NamerDone, history, NamerOnly, opencode
  <2>2. CASE live = job.original
    BY <1>22, <2>2 DEF TitleInv, Look, NamerGoto, history, NamerOnly, opencode
  <2> QED BY <2>1, <2>2
<1>23. CASE LookSaveFails
  BY <1>23 DEF TitleInv, LookSaveFails, NamerDone, opencode
<1>24. CASE LookFails
  <2>1. CASE job.expired
    BY <1>24, <2>1 DEF TitleInv, LookFails
  <2>2. CASE ~job.expired
    BY <1>24, <2>2 DEF TitleInv, LookFails
  <2> QED BY <2>1, <2>2
<1>25. CASE Apply
  BY <1>25, Apart DEF Mutex, Locked, NameInv, TitleInv, StillPending, Apply, NamerGoto
<1>26. CASE ApplyFails
  <2>1. diverged' = TRUE
    BY <1>26 DEF ApplyFails
  <2> QED BY <2>1 DEF TitleInv
<1>27. CASE Record
  <2>1. CASE StillPending(entry)
    BY <1>27, <2>1 DEF TitleInv, Record, NamerDone, history, NamerOnly, opencode
  <2>2. CASE ~StillPending(entry)
    BY <1>27, <2>2 DEF NameInv, Record
  <2> QED BY <2>1, <2>2
<1>28. CASE RecordFails
  BY <1>28 DEF TitleInv, RecordFails, NamerDone, opencode
<1>29. CASE ForeignRename
  BY <1>29 DEF TitleInv, ForeignRename, MadeGood, Outside, Naming
<1>30. CASE Restart
  BY <1>30 DEF TitleInv, Restart, MadeGood, opencode
<1>31. ASSUME NEW c \in Clients, RenameFails(c) PROVE TitleInv'
  <2>1. CASE UNCHANGED <<live, chosen, diverged>>
    <3>1. Aside(c)
      BY <1>31, <2>1 DEF Aside, ControlTypes, RenameFails, At, Answer, With, Naming
    <3> QED BY <3>1, <1>1
  <2>2. CASE live' = call[c].title /\ diverged' = (diverged \/ ~MadeGood)
    <3>1. /\ pc[c] = "rename" /\ pc' = [pc EXCEPT ![c] = "idle"] /\ UNCHANGED <<entry, namer, job>>
      BY <1>31 DEF RenameFails, At, Answer, With, Naming
    <3>2. /\ namer # "record" /\ pc'[c] = "idle"
          /\ \A d \in Clients \ {c} : pc'[d] = pc[d] /\ pc[d] \notin Locked
      BY <3>1, Apart DEF ControlTypes, Mutex, Locked
    <3> QED BY <2>2, <3>1, <3>2 DEF TitleInv, Locked, MadeGood
  <2> QED BY <1>31, <2>1, <2>2 DEF RenameFails
<1> QED BY <1>31, <1>2, <1>4, <1>5, <1>6, <1>7, <1>8, <1>9, <1>10, <1>11, <1>12, <1>13, <1>14, <1>15,
  <1>16, <1>17, <1>18, <1>19, <1>20, <1>21, <1>22, <1>23, <1>24, <1>25, <1>26, <1>27, <1>28,
  <1>29, <1>30 DEF Next, Arrives, Serves, Names, Service

(* The promotions.                                                        *)
LEMMA KeepsPromo ==
  ASSUME DataTypes, ControlTypes, HistoryTypes, Mutex, Knows, PromoInv, [Next]_vars
  PROVE  PromoInv'
<1>1. CASE entry'.promotion = entry.promotion /\ UNCHANGED <<revision, sent, unsure, acked, pc,
      call>>
  BY <1>1 DEF PromoInv, SentIsOlder, RecordedIsSent, PromotedOnce, Promotes, Uncertain
<1>2. CASE Generate \/ NamerLock \/ NamerCheck \/ Look \/ LookSaveFails \/ LookFails \/ Apply \/
         ApplyFails \/ Record \/ RecordFails \/ ForeignRename \/ UNCHANGED vars
  <2>1. entry'.promotion = entry.promotion /\ UNCHANGED <<revision, sent, unsure, acked, pc, call>>
    BY <1>2 DEF DataTypes, Entries, Generate, history, NamerOnly, opencode, NamerLock, NamerCheck,
      Look, LookSaveFails, LookFails, Apply, ApplyFails, Record, RecordFails, ForeignRename,
      Outside, vars
  <2> QED BY <2>1, <1>1
<1>3. ASSUME NEW c \in Clients, Elsewhere(c) PROVE PromoInv'
  <2>1. entry'.promotion = entry.promotion /\ UNCHANGED <<revision, sent, unsure, acked>>
    BY <1>3 DEF Elsewhere
  <2>2. /\ pc[c] \notin Promoting /\ pc'[c] \notin Promoting
        /\ \A d \in Clients \ {c} : pc'[d] = pc[d] /\ call'[d] = call[d]
    BY <1>3 DEF Elsewhere
  <2>3. SentIsOlder' /\ PromotedOnce'
    BY <2>1 DEF PromoInv, SentIsOlder, PromotedOnce, Uncertain
  <2>4. RecordedIsSent'
    BY <2>1, <2>2 DEF PromoInv, RecordedIsSent, Promoting
  <2>5. \A d \in Clients : Promotes(d)'
    BY <2>1, <2>2 DEF PromoInv, Promotes, Promoting, Uncertain
  <2> QED BY <2>3, <2>4, <2>5 DEF PromoInv
<1>4. ASSUME NEW c \in Clients, NEW label \in Labels \ Promoting, pc[c] \notin Promoting,
             Goto(c, label) \/ \E request : With(c, label, request),
             entry'.promotion = entry.promotion, UNCHANGED <<revision, sent, unsure, acked>>
      PROVE  PromoInv'
  <2>1. pc'[c] = label /\ \A d \in Clients \ {c} : pc'[d] = pc[d] /\ call'[d] = call[d]
    BY <1>4 DEF ControlTypes, Goto, With
  <2> QED BY <1>3, <1>4, <2>1 DEF Elsewhere
<1>5. ASSUME NEW c \in Clients, Input(c) \/ Rename(c) \/ ListChats(c) \/ Scaffold(c)
       PROVE  PromoInv'
  <2>1. pc[c] = "idle" /\ UNCHANGED <<entry, revision, sent, unsure, acked>>
    BY <1>5 DEF Input, Rename, ListChats, Scaffold, BeginLocked, Begin, At, opencode, history
  <2>2. \E label \in {"claim", "rename", "refresh", "create"} : \E request : With(c, label, request)
    BY <1>5 DEF Input, Rename, ListChats, Scaffold, BeginLocked, Begin
  <2> QED BY <1>4, <2>1, <2>2 DEF Labels, Promoting
<1>6. ASSUME NEW c \in Clients, RenameSession(c) \/ CreateChange(c) \/ Retitle(c) \/ RetitleFails(c)
       PROVE  PromoInv'
  <2>1. pc[c] \in {"rename", "create", "retitle"} /\ UNCHANGED <<entry, revision, sent, unsure, acked>>
    BY <1>6 DEF RenameSession, CreateChange, Retitle, RetitleFails, At, opencode, history
  <2>2. \E label \in {"save", "retitle", "move"} : Goto(c, label)
    BY <1>6 DEF RenameSession, CreateChange, Retitle, RetitleFails
  <2> QED BY <1>4, <2>1, <2>2 DEF Labels, Promoting
<1>7. ASSUME NEW c \in Clients,
              \/ Claim(c) \/ ClaimFails(c) \/ Refresh(c) \/ RenameFails(c) \/ UpdateTitle(c)
              \/ UpdateTitleFails(c) \/ CreateFails(c) \/ MoveToChange(c) \/ MoveFails(c)
       PROVE  PromoInv'
  <2>1. pc[c] \in {"claim", "refresh", "rename", "save", "create", "move"} /\ UNCHANGED <<revision, sent, unsure, acked>>
    BY <1>7 DEF Claim, ClaimFails, Refresh, RenameFails, UpdateTitle, UpdateTitleFails,
      CreateFails, MoveToChange, MoveFails, At, opencode, history
  <2>2. entry'.promotion = entry.promotion
    BY <1>7 DEF DataTypes, Entries, Claim, ClaimFails, Refresh, RenameFails, UpdateTitle,
      UpdateTitleFails, CreateFails, MoveToChange, MoveFails
  <2>3. With(c, "idle", NoCall)
    BY <1>7 DEF Claim, ClaimFails, Refresh, RenameFails, UpdateTitle, UpdateTitleFails,
      CreateFails, MoveToChange, MoveFails, Answer
  <2>4. "idle" \in Labels \ Promoting /\ pc[c] \notin Promoting /\ \E request : With(c, "idle", request)
    BY <2>1, <2>3 DEF Labels, Promoting
  <2> QED BY <1>4, <2>1, <2>2, <2>4
<1>8. ASSUME NEW c \in Clients, Promote(c) PROVE PromoInv'
  <2>1. PICK n \in 1 .. revision : Promote(c)!(n)
    BY <1>8 DEF Promote
  <2>2. /\ holder = None /\ UNCHANGED <<entry, revision, sent, unsure>>
        /\ \A d \in Clients : pc[d] \notin Promoting
    <3>1. holder = None /\ UNCHANGED <<entry, revision, sent, unsure>>
      BY <2>1 DEF BeginLocked, opencode
    <3> QED BY <3>1, Apart DEF Mutex, Locked, Promoting
  <2>3. n \in Revisions /\ n \in Nat /\ revision \in Nat /\ n <= revision
    BY RevisionsAreNumbers, Limits DEF DataTypes, Revisions
  <2>4. SentIsOlder'
    BY <2>2 DEF PromoInv, SentIsOlder, Uncertain
  <2>5. RecordedIsSent'
    BY <2>2 DEF PromoInv, RecordedIsSent, Promoting
  <2>6. PromotedOnce'
    <3>1. acked' = acked \/ (entry.promotion = n /\ acked' = acked \cup {n})
      BY <2>1
    <3>2. n \notin unsure /\ entry.promotion = n => sent[n] = 1
      BY <2>2, <2>3 DEF PromoInv, RecordedIsSent, Promoting
    <3> QED BY <2>2, <3>1, <3>2 DEF PromoInv, PromotedOnce
  <2>7. CASE entry.promotion # n /\ With(c, "confirm", [NoCall EXCEPT !.revision = n])
    <3>1. /\ pc'[c] = "confirm" /\ call'[c].revision = n
          /\ \A d \in Clients \ {c} : pc'[d] \notin Promoting
      BY <2>2, <2>7 DEF With, ControlTypes, NoCall
    <3>2. \A d \in Clients : Promotes(d)'
      BY <2>2, <2>7, <3>1 DEF Promotes, Promoting
    <3> QED BY <2>4, <2>5, <2>6, <3>2 DEF PromoInv
  <2>8. CASE With(c, "idle", NoCall)
    <3>1. \A d \in Clients : pc'[d] \notin Promoting
      BY <2>2, <2>8 DEF With, ControlTypes, Promoting
    <3>2. \A d \in Clients : Promotes(d)'
      BY <3>1 DEF Promotes, Promoting
    <3> QED BY <2>4, <2>5, <2>6, <3>2 DEF PromoInv
  <2> QED BY <2>1, <2>7, <2>8 DEF BeginLocked, Begin
<1>9. ASSUME NEW c \in Clients, Confirm(c) PROVE PromoInv'
  <2> DEFINE r == call[c].revision
  <2>1. /\ pc[c] = "confirm" /\ UNCHANGED <<entry, revision, sent, unsure, acked>>
        /\ \/ call[c].revision = revision /\ Goto(c, "busy")
           \/ Answer(c)
    BY <1>9 DEF Confirm, At, history, PromoteOnly, opencode
  <2>2. /\ r \in Revisions /\ revision \in Nat /\ entry.promotion \in Nat
        /\ sent \in [Revisions -> Nat] /\ Promotes(c)
    BY <2>1, Numbers DEF Knows, Promoting, HistoryTypes, PromoInv
  <2>3. SentIsOlder' /\ PromotedOnce'
    BY <2>1 DEF PromoInv, SentIsOlder, PromotedOnce, Uncertain
  <2>4. CASE call[c].revision = revision /\ Goto(c, "busy")
    <3>1. Onward(c, "busy") /\ UNCHANGED call
      BY <2>4 DEF Goto, Onward
    <3>2. /\ r \in Nat /\ pc'[c] = "busy"
          /\ \A d \in Clients \ {c} : pc[d] \notin Promoting /\ pc'[d] \notin Promoting
      BY <2>1, <3>1, OnePromotion DEF Promoting, Labels
    <3>3. RecordedIsSent'
      BY <2>1, <3>1, <3>2 DEF PromoInv, RecordedIsSent, Promoting
    <3>4. entry.promotion < r /\ r <= revision /\ Uncertain(r)
      BY <2>1, <2>2, <2>4, <3>2 DEF PromoInv, SentIsOlder, Promotes
    <3>5. \A d \in Clients : Promotes(d)'
      BY <2>1, <2>2, <3>1, <3>2, <3>4 DEF Promotes, Promoting, Uncertain
    <3> QED BY <2>3, <3>3, <3>5 DEF PromoInv
  <2>5. CASE Answer(c)
    <3>1. Onward(c, "idle")
      BY <2>5 DEF Answer, With, Onward, ControlTypes
    <3>2. /\ pc'[c] = "idle"
          /\ \A d \in Clients \ {c} : pc[d] \notin Promoting /\ pc'[d] \notin Promoting
      BY <2>1, <3>1, OnePromotion DEF Promoting, Labels
    <3>3. RecordedIsSent'
      BY <2>1, <3>2 DEF PromoInv, RecordedIsSent, Promoting
    <3>4. \A d \in Clients : Promotes(d)'
      BY <3>2 DEF Promotes, Promoting
    <3> QED BY <2>3, <3>3, <3>4 DEF PromoInv
  <2> QED BY <2>1, <2>4, <2>5
<1>10. ASSUME NEW c \in Clients, LookIdle(c) PROVE PromoInv'
  <2> DEFINE r == call[c].revision
  <2>1. /\ pc[c] = "busy" /\ UNCHANGED <<entry, revision, sent, unsure, acked>>
        /\ \/ ~running /\ Goto(c, "record")
           \/ Answer(c)
    BY <1>10 DEF LookIdle, At, history, PromoteOnly, opencode
  <2>2. /\ r \in Revisions /\ revision \in Nat /\ entry.promotion \in Nat
        /\ sent \in [Revisions -> Nat] /\ Promotes(c)
    BY <2>1, Numbers DEF Knows, Promoting, HistoryTypes, PromoInv
  <2>3. SentIsOlder' /\ PromotedOnce'
    BY <2>1 DEF PromoInv, SentIsOlder, PromotedOnce, Uncertain
  <2>4. CASE ~running /\ Goto(c, "record")
    <3>1. Onward(c, "record") /\ UNCHANGED call
      BY <2>4 DEF Goto, Onward
    <3>2. /\ r \in Nat /\ pc'[c] = "record"
          /\ \A d \in Clients \ {c} : pc[d] \notin Promoting /\ pc'[d] \notin Promoting
      BY <2>1, <3>1, OnePromotion DEF Promoting, Labels
    <3>3. RecordedIsSent'
      BY <2>1, <3>1, <3>2 DEF PromoInv, RecordedIsSent, Promoting
    <3>4. entry.promotion < r /\ r <= revision /\ Uncertain(r)
      BY <2>1, <2>2, <2>4, <3>2 DEF PromoInv, SentIsOlder, Promotes
    <3>5. \A d \in Clients : Promotes(d)'
      BY <2>1, <2>2, <3>1, <3>2, <3>4 DEF Promotes, Promoting, Uncertain
    <3> QED BY <2>3, <3>3, <3>5 DEF PromoInv
  <2>5. CASE Answer(c)
    <3>1. Onward(c, "idle")
      BY <2>5 DEF Answer, With, Onward, ControlTypes
    <3>2. /\ pc'[c] = "idle"
          /\ \A d \in Clients \ {c} : pc[d] \notin Promoting /\ pc'[d] \notin Promoting
      BY <2>1, <3>1, OnePromotion DEF Promoting, Labels
    <3>3. RecordedIsSent'
      BY <2>1, <3>2 DEF PromoInv, RecordedIsSent, Promoting
    <3>4. \A d \in Clients : Promotes(d)'
      BY <3>2 DEF Promotes, Promoting
    <3> QED BY <2>3, <3>3, <3>4 DEF PromoInv
  <2> QED BY <2>1, <2>4, <2>5
<1>11. ASSUME NEW c \in Clients, ConfirmFails(c) PROVE PromoInv'
  <2> DEFINE r == call[c].revision
  <2>1. pc[c] \in {"confirm", "busy", "record"} /\ Onward(c, "idle")
    BY <1>11 DEF ConfirmFails, Onward, Answer, With
  <2>2. /\ r \in Nat /\ pc'[c] = "idle"
        /\ \A d \in Clients \ {c} : pc[d] \notin Promoting /\ pc'[d] \notin Promoting
    BY <2>1, OnePromotion DEF Promoting, Labels
  <2>3. /\ r \in Revisions /\ revision \in Nat /\ entry.promotion \in Nat
        /\ sent \in [Revisions -> Nat] /\ Promotes(c)
    BY <2>1, Numbers DEF Knows, Promoting, HistoryTypes, PromoInv
  <2>4. UNCHANGED <<entry, revision, sent, unsure, acked>>
    BY <1>11 DEF ConfirmFails, history, PromoteOnly, opencode
  <2> HIDE DEF r
  <2>5. SentIsOlder'
    BY <2>1, <2>2, <2>3, <2>4 DEF PromoInv, SentIsOlder, Uncertain
  <2>6. RecordedIsSent'
    BY <2>1, <2>2, <2>3, <2>4 DEF PromoInv, RecordedIsSent, Promoting
  <2>7. PromotedOnce'
    BY <2>1, <2>2, <2>3, <2>4 DEF PromoInv, PromotedOnce
  <2>8. \A d \in Clients : Promotes(d)'
    BY <2>1, <2>2, <2>3, <2>4 DEF Promotes, Promoting
  <2> QED BY <2>5, <2>6, <2>7, <2>8 DEF PromoInv
<1>12. ASSUME NEW c \in Clients, RecordPromotion(c) PROVE PromoInv'
  <2> DEFINE r == call[c].revision
  <2>1. pc[c] = "record" /\ Onward(c, "send")
    BY <1>12 DEF RecordPromotion, Onward, At, Goto
  <2>2. /\ r \in Nat /\ pc'[c] = "send"
        /\ \A d \in Clients \ {c} : pc[d] \notin Promoting /\ pc'[d] \notin Promoting
    BY <2>1, OnePromotion DEF Promoting, Labels
  <2>3. /\ r \in Revisions /\ revision \in Nat /\ entry.promotion \in Nat
        /\ sent \in [Revisions -> Nat] /\ Promotes(c)
    BY <2>1, Numbers DEF Knows, Promoting, HistoryTypes, PromoInv
  <2>4. entry'.promotion = r /\ UNCHANGED <<call, revision, sent, unsure, acked>>
    BY <1>12 DEF RecordPromotion, Goto, opencode, history
  <2> HIDE DEF r
  <2>5. SentIsOlder'
    <3>1. entry.promotion < r /\ r <= revision
      BY <2>1, <2>3 DEF Promotes, r
    <3>2. \A n \in Revisions : n \in Nat
      BY RevisionsAreNumbers
    <3>3. \A n \in Revisions : ~Uncertain(n)' => n < revision
      BY <2>3, <2>4, <3>1, <3>2 DEF PromoInv, SentIsOlder, Uncertain
    <3> QED BY <2>4, <3>1, <3>3 DEF SentIsOlder
  <2>6. RecordedIsSent'
    BY <2>1, <2>2, <2>3, <2>4 DEF RecordedIsSent, r
  <2>7. PromotedOnce'
    BY <2>1, <2>2, <2>3, <2>4  DEF PromoInv, PromotedOnce
  <2>8. \A d \in Clients : Promotes(d)'
    BY <2>1, <2>2, <2>3, <2>4 DEF Promotes, Promoting, Uncertain, r
  <2> QED BY <2>5, <2>6, <2>7, <2>8 DEF PromoInv
<1>13. ASSUME NEW c \in Clients, SendPromotion(c) PROVE PromoInv'
  <2> DEFINE r == call[c].revision
  <2>1. pc[c] = "send" /\ Onward(c, "idle")
    BY <1>13 DEF SendPromotion, Onward, At, Answer, With
  <2>2. /\ r \in Nat /\ pc'[c] = "idle"
        /\ \A d \in Clients \ {c} : pc[d] \notin Promoting /\ pc'[d] \notin Promoting
    BY <2>1, OnePromotion DEF Promoting, Labels
  <2>3. /\ r \in Revisions /\ revision \in Nat /\ entry.promotion \in Nat
        /\ sent \in [Revisions -> Nat] /\ Promotes(c)
    BY <2>1, Numbers DEF Knows, Promoting, HistoryTypes, PromoInv
  <2>4. sent' = [sent EXCEPT ![r] = @ + 1] /\ UNCHANGED <<entry, revision, unsure, acked>>
    BY <1>13 DEF SendPromotion, Take
  <2> HIDE DEF r
  <2>5. SentIsOlder'
    BY <2>1, <2>2, <2>3, <2>4 DEF PromoInv, SentIsOlder, Promotes, Uncertain, r
  <2>6. RecordedIsSent'
    BY <2>1, <2>2, <2>3, <2>4 DEF RecordedIsSent, Promotes, Uncertain, r
  <2>7. PromotedOnce'
    BY <2>1, <2>2, <2>3, <2>4 DEF PromoInv, PromotedOnce, Promotes, Uncertain, r
  <2>8. \A d \in Clients : Promotes(d)'
    BY <2>1, <2>2, <2>3, <2>4 DEF Promotes, Promoting
  <2> QED BY <2>5, <2>6, <2>7, <2>8 DEF PromoInv
<1>14. ASSUME NEW c \in Clients, SendFails(c) PROVE PromoInv'
  <2> DEFINE r == call[c].revision
  <2>1. pc[c] = "send" /\ Onward(c, "unrecord")
    BY <1>14 DEF SendFails, Onward, At, Goto
  <2>2. /\ r \in Nat /\ pc'[c] = "unrecord"
        /\ \A d \in Clients \ {c} : pc[d] \notin Promoting /\ pc'[d] \notin Promoting
    BY <2>1, OnePromotion DEF Promoting, Labels
  <2>3. /\ r \in Revisions /\ revision \in Nat /\ entry.promotion \in Nat
        /\ sent \in [Revisions -> Nat] /\ Promotes(c)
    BY <2>1, Numbers DEF Knows, Promoting, HistoryTypes, PromoInv
  <2>4. /\ \/ UNCHANGED <<sent, unsure>>
           \/ sent' = [sent EXCEPT ![r] = @ + 1] /\ unsure' = unsure \cup {r}
        /\ UNCHANGED <<call, entry, revision, acked>>
    BY <1>14 DEF SendFails, Goto, Take
  <2> HIDE DEF r
  <2>5. SentIsOlder'
    BY <2>1, <2>2, <2>3, <2>4 DEF PromoInv, SentIsOlder, Uncertain
  <2>6. RecordedIsSent'
    BY <2>1, <2>2, <2>3, <2>4 DEF RecordedIsSent, Promotes
  <2>7. PromotedOnce'
    BY <2>1, <2>2, <2>3, <2>4 DEF PromoInv, PromotedOnce
  <2>8. \A d \in Clients : Promotes(d)'
    BY <2>1, <2>2, <2>3, <2>4 DEF Promotes, Promoting, Uncertain, r
  <2> QED BY <2>5, <2>6, <2>7, <2>8 DEF PromoInv
<1>15. ASSUME NEW c \in Clients, Unrecord(c) PROVE PromoInv'
  <2> DEFINE r == call[c].revision
  <2>1. pc[c] = "unrecord" /\ Onward(c, "idle")
    BY <1>15 DEF Unrecord, Onward, At, Answer, With
  <2>2. /\ r \in Nat /\ pc'[c] = "idle"
        /\ \A d \in Clients \ {c} : pc[d] \notin Promoting /\ pc'[d] \notin Promoting
    BY <2>1, OnePromotion DEF Promoting, Labels
  <2>3. /\ r \in Revisions /\ revision \in Nat /\ entry.promotion \in Nat
        /\ sent \in [Revisions -> Nat] /\ Promotes(c)
    BY <2>1, Numbers DEF Knows, Promoting, HistoryTypes, PromoInv
  <2>4. entry'.promotion = 0 /\ UNCHANGED <<revision, sent, unsure, acked>>
    BY <1>15 DEF Unrecord, opencode, history
  <2> HIDE DEF r
  <2>5. SentIsOlder'
    BY <2>1, <2>2, <2>3, <2>4 DEF PromoInv, SentIsOlder, Promotes, Uncertain
  <2>6. RecordedIsSent'
    BY <2>1, <2>2, <2>3, <2>4, RevisionsAreNumbers DEF RecordedIsSent
  <2>7. PromotedOnce'
    BY <2>1, <2>2, <2>3, <2>4 DEF PromoInv, PromotedOnce
  <2>8. \A d \in Clients : Promotes(d)'
    BY <2>1, <2>2, <2>3, <2>4 DEF Promotes, Promoting
  <2> QED BY <2>5, <2>6, <2>7, <2>8 DEF PromoInv
<1>16. ASSUME NEW c \in Clients, UnrecordFails(c) PROVE PromoInv'
  <2> DEFINE r == call[c].revision
  <2>1. pc[c] = "unrecord" /\ Onward(c, "idle")
    BY <1>16 DEF UnrecordFails, Onward, At, Answer, With
  <2>2. /\ r \in Nat /\ pc'[c] = "idle"
        /\ \A d \in Clients \ {c} : pc[d] \notin Promoting /\ pc'[d] \notin Promoting
    BY <2>1, OnePromotion DEF Promoting, Labels
  <2>3. /\ r \in Revisions /\ revision \in Nat /\ entry.promotion \in Nat
        /\ sent \in [Revisions -> Nat] /\ Promotes(c)
    BY <2>1, Numbers DEF Knows, Promoting, HistoryTypes, PromoInv
  <2>4. unsure' = unsure \cup {r} /\ UNCHANGED <<entry, revision, sent, acked>>
    BY <1>16 DEF UnrecordFails, PromoteOnly, opencode
  <2> HIDE DEF r
  <2>5. SentIsOlder'
    BY <2>1, <2>2, <2>3, <2>4 DEF PromoInv, SentIsOlder, Uncertain
  <2>6. RecordedIsSent'
    BY <2>1, <2>2, <2>3, <2>4 DEF RecordedIsSent, Promotes, r
  <2>7. PromotedOnce'
    BY <2>1, <2>2, <2>3, <2>4 DEF PromoInv, PromotedOnce
  <2>8. \A d \in Clients : Promotes(d)'
    BY <2>1, <2>2, <2>3, <2>4 DEF Promotes, Promoting
  <2> QED BY <2>5, <2>6, <2>7, <2>8 DEF PromoInv
<1>17. CASE TurnBegins
  <2>1. revision' = revision + 1 /\ UNCHANGED <<entry, sent, unsure, acked, pc, call>>
    BY <1>17 DEF TurnBegins, Outside
  <2>2. revision \in Nat /\ entry.promotion \in Nat /\ \A c \in Clients : call[c].revision \in Nat
    BY Numbers
  <2>3. SentIsOlder'
    <3>1. entry.promotion' <= revision'
      BY <2>1, <2>2 DEF PromoInv, SentIsOlder
    <3>2. ASSUME NEW n \in Revisions, ~Uncertain(n)' PROVE n < revision'
      <4>1. n \in Nat /\ (n < revision \/ n = revision)
        BY <2>1, <3>2, RevisionsAreNumbers DEF PromoInv, SentIsOlder, Uncertain
      <4> QED BY <2>1, <2>2, <4>1
    <3> QED BY <3>1, <3>2 DEF SentIsOlder
  <2>4. RecordedIsSent' /\ PromotedOnce'
    BY <2>1 DEF PromoInv, RecordedIsSent, PromotedOnce
  <2>5. \A c \in Clients : Promotes(c)'
    BY <2>1, <2>2 DEF PromoInv, Promotes, Uncertain
  <2> QED BY <2>3, <2>4, <2>5 DEF PromoInv
<1>18. CASE TurnEnds
  <2>1. revision' = revision + 1 /\ UNCHANGED <<entry, sent, unsure, acked, pc, call>>
    BY <1>18 DEF TurnEnds, Outside
  <2>2. revision \in Nat /\ entry.promotion \in Nat /\ \A c \in Clients : call[c].revision \in Nat
    BY Numbers
  <2>3. SentIsOlder'
    <3>1. entry.promotion' <= revision'
      BY <2>1, <2>2 DEF PromoInv, SentIsOlder
    <3>2. ASSUME NEW n \in Revisions, ~Uncertain(n)' PROVE n < revision'
      <4>1. n \in Nat /\ (n < revision \/ n = revision)
        BY <2>1, <3>2, RevisionsAreNumbers DEF PromoInv, SentIsOlder, Uncertain
      <4> QED BY <2>1, <2>2, <4>1
    <3> QED BY <3>1, <3>2 DEF SentIsOlder
  <2>4. RecordedIsSent' /\ PromotedOnce'
    BY <2>1 DEF PromoInv, RecordedIsSent, PromotedOnce
  <2>5. \A c \in Clients : Promotes(c)'
    BY <2>1, <2>2 DEF PromoInv, Promotes, Uncertain
  <2> QED BY <2>3, <2>4, <2>5 DEF PromoInv
<1>19. CASE Restart
  <2>1. /\ \A c \in Clients : pc'[c] = "idle"
        /\ unsure' = unsure \cup {call[c].revision : c \in {d \in Clients : pc[d] \in {"send", "unrecord"}}}
        /\ UNCHANGED <<entry, revision, sent, acked>>
    BY <1>19 DEF Restart, opencode
  <2>2. SentIsOlder' /\ PromotedOnce'
    BY <2>1 DEF PromoInv, SentIsOlder, PromotedOnce, Uncertain
  <2>3. RecordedIsSent'
    BY <2>1 DEF PromoInv, RecordedIsSent
  <2>4. \A c \in Clients : Promotes(c)'
    BY <2>1 DEF Promotes
  <2> QED BY <2>2, <2>3, <2>4 DEF PromoInv
<1> QED BY <1>2, <1>5, <1>6, <1>7, <1>8, <1>9, <1>10, <1>11, <1>12, <1>13, <1>14, <1>15, <1>16,
  <1>17, <1>18, <1>19 DEF Next, Arrives, Serves, Names, Service

-----------------------------------------------------------------------------
(* ChatNaming: the theorems                                                *)

NamingInv == TypeInv /\ NameInv /\ ChosenTitleKept /\ TitleInv /\ PromoInv

(* Every conjunct holds at first, and every step keeps it.                 *)
LEMMA NamingStarts == Init => NamingInv
<1> SUFFICES ASSUME Init PROVE NamingInv
  OBVIOUS
<1>0. entry \in [owner : {"unassigned"}, state : {"", "eligible"}, title : {"codebase chat"}, promotion : {0}]
  BY DEF Init
<1>1. DataTypes /\ BoundTypes
  <2>1. entry \in Entries
    BY <1>0 DEF Entries, States, Titles
  <2>2. "codebase chat" \in Titles /\ 1 \in Revisions
    BY RevisionsAreNumbers DEF Titles
  <2>3. 0 \in 0 .. MaxCalls /\ 0 \in 0 .. MaxFaults /\ 0 \in 0 .. MaxRestarts
    BY Limits
  <2> QED BY <2>1, <2>2, <2>3 DEF Init, DataTypes, BoundTypes
<1>2. ControlTypes /\ HistoryTypes
  BY DEF Init, ControlTypes, HistoryTypes, NoCall, NoJob, Labels
<1>3. Mutex /\ Knows
  BY Apart DEF Init, Mutex, Knows, Locked, Promoting
<1>4. NameInv /\ ChosenTitleKept /\ TitleInv
  BY DEF Init, NameInv, ChosenTitleKept, TitleInv
<1>5. PromoInv
  <2>1. /\ entry.promotion = 0 /\ revision = 1 /\ acked = {}
        /\ \A n \in Revisions : sent[n] = 0 /\ n # 0
        /\ \A c \in Clients : pc[c] = "idle"
    <3>1. \A n \in Revisions : n # 0
      BY DEF Revisions
    <3> QED BY <1>0, <3>1 DEF Init
  <2>2. SentIsOlder /\ RecordedIsSent
    BY <2>1 DEF SentIsOlder, RecordedIsSent, Uncertain
  <2>3. PromotedOnce /\ \A c \in Clients : Promotes(c)
    BY <2>1 DEF PromotedOnce, Promotes
  <2> QED BY <2>2, <2>3 DEF PromoInv
<1> QED BY <1>1, <1>2, <1>3, <1>4, <1>5 DEF NamingInv, TypeInv

(* One lemma above for each conjunct.                                      *)
LEMMA NamingKept == NamingInv /\ [Next]_vars => NamingInv'
<1> SUFFICES ASSUME NamingInv, [Next]_vars PROVE NamingInv'
  OBVIOUS
<1> USE DEF NamingInv, TypeInv
<1>1. DataTypes' /\ ControlTypes' /\ BoundTypes' /\ HistoryTypes'
  BY KeepsData, KeepsControl, KeepsBounds, KeepsHistory
<1>2. Mutex' /\ Knows'
  BY KeepsMutex, KeepsKnows
<1>3. NameInv' /\ ChosenTitleKept' /\ TitleInv'
  BY KeepsNames, KeepsTitles
<1>4. PromoInv'
  BY KeepsPromo
<1> QED BY <1>1, <1>2, <1>3, <1>4

(* The invariant of the specification.                                     *)
LEMMA NamingHolds == Spec => []NamingInv
BY NamingStarts, NamingKept, PTL DEF Spec

(* The type invariant: the labels, the holder of sessionOps and the claim  *)
(* of a naming stay consistent.                                            *)
THEOREM NamingTypeCorrect == Spec => []TypeOK
<1>1. NamingInv => TypeOK
  <2> SUFFICES ASSUME NamingInv PROVE TypeOK
    OBVIOUS
  <2>1. DataTypes /\ ControlTypes /\ BoundTypes /\ HistoryTypes /\ Mutex
    BY DEF NamingInv, TypeInv
  <2>2. holder \in Clients => pc[holder] # "idle"
    BY <2>1 DEF Mutex, Locked
  <2> QED BY <2>1, <2>2 DEF TypeOK, DataTypes, ControlTypes, BoundTypes, HistoryTypes, Mutex
<1> QED BY <1>1, NamingHolds, PTL

(* A title somebody chose is never overwritten by the generated one or the *)
(* fallback (finishNaming compares under sessionOps), unless the naming    *)
(* could not look or opencode's own client renamed right after it did.     *)
THEOREM ChosenTitlesStay == Spec => []ChosenTitleKept
<1>1. NamingInv => ChosenTitleKept
  BY DEF NamingInv
<1> QED BY <1>1, NamingHolds, PTL

(* The title the server stored is opencode's, whenever no rename is under  *)
(* way (sessionRename, scaffoldChange and the naming write both under      *)
(* sessionOps).                                                            *)
THEOREM StoredTitlesAgree == Spec => []TitlesAgree
<1>1. NamingInv => TitlesAgree
  <2> SUFFICES ASSUME NamingInv, holder = None,
                      entry.state \in {"auto", "manual", "change"}, ~diverged
               PROVE  entry.title = live
    BY DEF TitlesAgree
  <2>1. \A c \in Clients : pc[c] \notin {"save", "move"}
    BY Apart DEF NamingInv, TypeInv, Mutex, Locked
  <2> QED BY <2>1 DEF NamingInv, TitleInv
<1> QED BY <1>1, NamingHolds, PTL

(* An instruction is sent at most once for a revision, and whoever was     *)
(* told that its promotion is recorded may count on it (promoteSession     *)
(* records before it sends).                                               *)
THEOREM InstructionsAreSentOnce == Spec => []PromotedOnce
<1>1. NamingInv => PromotedOnce
  BY DEF NamingInv, PromoInv
<1> QED BY <1>1, NamingHolds, PTL

-----------------------------------------------------------------------------
(* ChatPoll: the invariant                                                 *)

Served(p) == poll[p].flight
(* A view that polls holds a flight that is closed, or is its key's. What  *)
(* the flight has read is no older than what was shown when it was joined. *)
PollOf(p) ==
  /\ step[p] = "idle" <=> Served(p) = 0
  /\ Served(p) # 0 =>
       /\ \/ flights[Served(p)].state = "closed"
          \/ /\ flights[Served(p)].state = "reading" /\ step[p] \in {"lead", "wait"}
             /\ flightOf[poll[p].key] = Served(p)
       /\ flights[Served(p)].version = 0 \/ poll[p].floor <= flights[Served(p)].version
  /\ step[p] = "lead" => flightOf[poll[p].key] = Served(p)
  /\ poll[p].floor <= version
OneLead == \A p, q \in Views : step[p] = "lead" /\ step[q] = "lead" /\ Served(p) = Served(q) => p = q
Led == \A k \in Keys : flightOf[k] # 0 =>
  \E p \in Views : step[p] = "lead" /\ poll[p].key = k /\ Served(p) = flightOf[k]
(* A key's flight has read no less than any other flight of the key has,   *)
(* and no less than was shown.                                             *)
Newest(k) == flightOf[k] # 0 /\ flights[flightOf[k]].version # 0 =>
  /\ shown[k] <= flights[flightOf[k]].version
  /\ \A p \in Views : poll[p].key = k /\ Served(p) # 0 =>
       flights[Served(p)].version <= flights[flightOf[k]].version
Reached == (\A f \in Flights : flights[f].version <= version) /\ \A k \in Keys : shown[k] <= version
(* There is one read of the active sessions, and who joins joins a flight. *)
OneRead == \A f \in Flights : /\ flights[f].active \in {"reading", "sending"} => inflight = f
                              /\ flights[f].active = "joined" => flights[f].joined # 0
PollInv ==
  /\ PollTypeOK /\ (\A p \in Views : PollOf(p)) /\ OneLead /\ Led
  /\ (\A k \in Keys : Newest(k)) /\ Reached /\ OneRead /\ NeverBackwards

-----------------------------------------------------------------------------
(* ChatPoll: types                                                         *)

Asks == [key : Keys, flight : Flights \cup {0}, floor : Versions]
FanOuts ==
  [state : {"free", "reading", "closed"}, page : Results \cup {"begin"}, version : Versions \cup {0},
   active : Results \cup {"begin", "joined", "reading", "sending", "none"},
   joined : Flights \cup {0}, result : Results \cup {"none"}, buffered : BOOLEAN]

LEMMA PollTypes ==
  PollTypeOK <=>
    /\ version \in Versions /\ step \in [Views -> {"idle", "lead", "wait", "answer"}]
    /\ poll \in [Views -> Asks] /\ flights \in [Flights -> FanOuts]
    /\ flightOf \in [Keys -> Flights \cup {0}] /\ inflight \in Flights \cup {0} /\ cached \in BOOLEAN
    /\ memo \subseteq Latest /\ shown \in [Keys -> Versions] /\ backwards \in BOOLEAN
BY DEF PollTypeOK, Asks, FanOuts

LEMMA FreshType ==
  ASSUME PollAssumption
  PROVE  /\ Free \in FanOuts /\ Free.version = 0 /\ Free.active = "none"
         /\ \A k \in Keys : /\ Flight(k) \in FanOuts /\ Flight(k).version = 0 /\ Flight(k).state = "reading"
                            /\ Flight(k).active \in {"begin", "none"}
         /\ NoPoll \in Asks /\ NoPoll.flight = 0 /\ NoPoll.floor = 1
         /\ 0 \notin Flights /\ 0 \notin Versions /\ Versions \subseteq Nat /\ 1 \in Versions
<1>1. 0 \notin Flights /\ 0 \notin Versions /\ Versions \subseteq Nat /\ 1 \in Versions
  BY DEF Flights, Versions, PollAssumption
<1>2. Free \in FanOuts /\ Free.version = 0 /\ Free.active = "none"
  BY <1>1 DEF Free, FanOuts, Results
<1>3. ASSUME NEW k \in Keys
      PROVE  /\ Flight(k) \in FanOuts /\ Flight(k).version = 0 /\ Flight(k).state = "reading"
             /\ Flight(k).active \in {"begin", "none"}
  <2> DEFINE active == IF k \in Latest THEN "begin" ELSE "none"
  <2>1. active \in {"begin", "none"}
    OBVIOUS
  <2>2. Flight(k) = [Free EXCEPT !.state = "reading", !.active = active]
    BY DEF Flight
  <2> HIDE DEF active
  <2> QED BY <1>2, <2>1, <2>2 DEF FanOuts
<1>4. NoPoll \in Asks /\ NoPoll.flight = 0 /\ NoPoll.floor = 1
  <2> DEFINE any == CHOOSE k \in Keys : TRUE
  <2>1. any \in Keys
    BY DEF PollAssumption
  <2>2. NoPoll = [key |-> any, flight |-> 0, floor |-> 1]
    BY DEF NoPoll
  <2> HIDE DEF any
  <2> QED BY <1>1, <2>1, <2>2 DEF Asks
<1> QED BY <1>1, <1>2, <1>3, <1>4

(* A flight's own step: it changes nothing but what flights have read.     *)
LEMMA ReadsFrame ==
  ASSUME NEW f \in Flights, Reads(f)
  PROVE  UpstreamOnly
BY DEF Reads, ReadPage, GetActive, ActiveReturns, ActiveSettles, Receive, GiveUp, Close

Progress(f) ==
  /\ flights' \in [Flights -> FanOuts] /\ inflight' \in Flights \cup {0} /\ cached' \in BOOLEAN
  /\ \A g \in Flights :
       /\ flights'[g].state = flights[g].state
          \/ (flights[g].state = "reading" /\ flights'[g].state = "closed")
       /\ flights'[g].version = flights[g].version
          \/ (flights[g].state = "reading" /\ flights'[g].version = version)
  /\ OneRead'

(* One flight's record, with its active read as the invariant wants it.    *)
LEMMA PutOne ==
  ASSUME PollInv, NEW f \in Flights, NEW flight \in FanOuts, Put(f, flight),
         flight.state = flights[f].state \/ (flights[f].state = "reading" /\ flight.state = "closed"),
         flight.version = flights[f].version \/ (flights[f].state = "reading" /\ flight.version = version),
         flight.active \in {"reading", "sending"} => inflight' = f,
         flight.active = "joined" => flight.joined # 0,
         inflight' = inflight \/ inflight' = f \/ (inflight' = 0 /\ flights[f].active \in {"reading", "sending"}),
         inflight' = f => inflight \in {0, f} \/ inflight' = inflight,
         inflight' \in Flights \cup {0}, cached' \in BOOLEAN
  PROVE  Progress(f)
<1>1. flights \in [Flights -> FanOuts] /\ OneRead
  BY PollTypes DEF PollInv
<1>2. /\ flights' \in [Flights -> FanOuts] /\ flights'[f] = flight
      /\ \A g \in Flights \ {f} : flights'[g] = flights[g]
  BY <1>1 DEF Put
<1>3. ASSUME NEW g \in Flights, flights'[g].active \in {"reading", "sending"}
      PROVE  inflight' = g
  <2>1. CASE g = f
    BY <1>2, <1>3, <2>1
  <2>2. CASE g # f
    <3>1. flights[g].active \in {"reading", "sending"} /\ inflight = g
      BY <1>1, <1>2, <1>3, <2>2 DEF OneRead
    <3>2. flights[f].active \notin {"reading", "sending"}
      BY <1>1, <2>2, <3>1 DEF OneRead
    <3>3. g # 0 /\ inflight # 0
      BY <3>1 DEF Flights
    <3> QED BY <2>2, <3>1, <3>2, <3>3
  <2> QED BY <2>1, <2>2
<1>4. ASSUME NEW g \in Flights, flights'[g].active = "joined"
      PROVE  flights'[g].joined # 0
  BY <1>1, <1>2, <1>4 DEF OneRead
<1>5. OneRead'
  BY <1>3, <1>4 DEF OneRead
<1> QED BY <1>2, <1>5 DEF Progress

LEMMA ReadsProgress ==
  ASSUME PollAssumption, PollInv, NEW f \in Flights, Reads(f)
  PROVE  Progress(f)
<1>0. /\ flights \in [Flights -> FanOuts] /\ inflight \in Flights \cup {0} /\ cached \in BOOLEAN /\ OneRead
      /\ version \in Versions /\ flights[f] \in FanOuts /\ 0 \notin Flights
  BY PollTypes, FreshType DEF PollInv
<1>1. CASE ReadPage(f)
  <2> DEFINE read == [flights[f] EXCEPT !.page = "ok", !.version = version]
             failed == [flights[f] EXCEPT !.page = "err"]
  <2>1. /\ read \in FanOuts /\ read.state = flights[f].state /\ read.active = flights[f].active
        /\ read.version = version /\ read.joined = flights[f].joined
    BY <1>0 DEF FanOuts, Results
  <2>2. /\ failed \in FanOuts /\ failed.state = flights[f].state /\ failed.active = flights[f].active
        /\ failed.version = flights[f].version /\ failed.joined = flights[f].joined
    BY <1>0 DEF FanOuts, Results
  <2>3. flights[f].state = "reading" /\ UNCHANGED <<inflight, cached>> /\ (Put(f, read) \/ Put(f, failed))
    BY <1>1 DEF ReadPage
  <2> HIDE DEF read, failed
  <2>4. PICK x \in {read, failed} : Put(f, x)
    BY <2>3
  <2> QED BY <1>0, <2>1, <2>2, <2>3, <2>4, PutOne DEF OneRead
<1>2. CASE GetActive(f)
  <2>1. /\ flights[f].active = "begin" /\ cached' = cached
        /\ \/ Put(f, [flights[f] EXCEPT !.active = "ok"]) /\ inflight' = inflight
           \/ /\ inflight # 0 /\ inflight' = inflight
              /\ Put(f, [flights[f] EXCEPT !.active = "joined", !.joined = inflight])
           \/ /\ inflight = 0 /\ inflight' = f
              /\ Put(f, [flights[f] EXCEPT !.active = "reading"])
    BY <1>2 DEF GetActive
  <2> DEFINE told == [flights[f] EXCEPT !.active = "ok"]
             joins == [flights[f] EXCEPT !.active = "joined", !.joined = inflight]
             reads == [flights[f] EXCEPT !.active = "reading"]
             SameButActive(x) == x \in FanOuts /\ x.state = flights[f].state /\ x.version = flights[f].version
  <2>2. SameButActive(told) /\ told.active = "ok"
    BY <1>0 DEF FanOuts, Results
  <2>3. SameButActive(joins) /\ joins.active = "joined" /\ joins.joined = inflight
    BY <1>0 DEF FanOuts, Results
  <2>4. SameButActive(reads) /\ reads.active = "reading"
    BY <1>0 DEF FanOuts, Results
  <2>5. /\ cached' \in BOOLEAN
        /\ \/ Put(f, told) /\ inflight' = inflight
           \/ Put(f, joins) /\ inflight' = inflight /\ inflight # 0
           \/ Put(f, reads) /\ inflight = 0 /\ inflight' = f
    BY <1>0, <2>1
  <2> HIDE DEF told, joins, reads
  <2>6. CASE Put(f, told) /\ inflight' = inflight
    BY <1>0, <2>2, <2>5, <2>6, PutOne
  <2>7. CASE Put(f, joins) /\ inflight' = inflight /\ inflight # 0
    BY <1>0, <2>3, <2>5, <2>7, PutOne
  <2>8. CASE Put(f, reads) /\ inflight = 0 /\ inflight' = f
    BY <1>0, <2>4, <2>5, <2>8, PutOne
  <2> QED BY <2>5, <2>6, <2>7, <2>8
<1>3. CASE ActiveReturns(f)
  <2>1. PICK r \in Results : Put(f, [flights[f] EXCEPT !.active = "sending", !.result = r, !.buffered = TRUE])
    BY <1>3 DEF ActiveReturns
  <2> DEFINE flight == [flights[f] EXCEPT !.active = "sending", !.result = r, !.buffered = TRUE]
  <2>2. /\ flight \in FanOuts /\ flight.state = flights[f].state /\ flight.version = flights[f].version
        /\ flight.active = "sending"
    BY <1>0 DEF FanOuts, Results
  <2> HIDE DEF flight
  <2>3. flights[f].active = "reading" /\ UNCHANGED <<inflight, cached>> /\ inflight = f
    BY <1>0, <1>3 DEF ActiveReturns, OneRead
  <2>4. Put(f, flight)
    BY <2>1 DEF flight
  <2> QED BY <1>0, <2>2, <2>3, <2>4, PutOne
<1>4. CASE ActiveSettles(f)
  <2> DEFINE done == [flights[f] EXCEPT !.active = flights[f].result]
             last == [done EXCEPT !.result = "none", !.buffered = FALSE]
  <2>1. flights[f].result \in Results \cup {"none"}
    BY <1>0 DEF FanOuts
  <2>2. /\ done \in FanOuts /\ done.state = flights[f].state /\ done.version = flights[f].version
        /\ done.active \notin {"reading", "sending", "joined"}
    BY <1>0, <2>1 DEF FanOuts, Results
  <2>3. flights[f].active = "sending" /\ inflight' = 0 /\ cached' \in BOOLEAN /\ \E x \in {done, last} : Put(f, x)
    BY <1>0, <1>4 DEF ActiveSettles
  <2> HIDE DEF done
  <2>4. /\ last \in FanOuts /\ last.state = done.state /\ last.version = done.version /\ last.active = done.active
    BY <2>2 DEF FanOuts
  <2> HIDE DEF last
  <2>5. PICK x \in {done, last} : Put(f, x)
    BY <2>3
  <2>6. /\ x \in FanOuts /\ x.state = flights[f].state /\ x.version = flights[f].version
        /\ x.active \notin {"reading", "sending", "joined"}
    BY <2>2, <2>4
  <2> QED BY <1>0, <2>3, <2>5, <2>6, PutOne
<1>5. CASE Receive(f)
  <2> DEFINE g == flights[f].joined
             r == flights[g].result
  <2>1. flights[f].active = "joined" /\ UNCHANGED <<inflight, cached>>
    BY <1>5 DEF Receive
  <2>2. flights' = [flights EXCEPT ![f].active = r, ![f].joined = 0, ![g].buffered = FALSE]
    BY <1>5 DEF Receive
  <2>3. g \in Flights /\ r \in Results \cup {"none"}
    <3>1. g \in Flights \cup {0} /\ g # 0
      BY <1>0, <2>1 DEF FanOuts, OneRead
    <3>2. flights[g] \in FanOuts
      BY <1>0, <3>1
    <3> QED BY <3>1, <3>2 DEF FanOuts
  <2> HIDE DEF g, r
  <2>4. /\ flights' \in [Flights -> FanOuts]
        /\ \A h \in Flights : /\ flights'[h].state = flights[h].state /\ flights'[h].version = flights[h].version
                              /\ flights'[h].active \in {flights[h].active, r}
                              /\ flights'[h].active = flights[h].active => flights'[h].joined = flights[h].joined
    <3> DEFINE mine == [flights[f] EXCEPT !.active = r, !.joined = 0]
               left == [flights EXCEPT ![f] = mine]
    <3>1. mine \in FanOuts /\ mine.state = flights[f].state /\ mine.version = flights[f].version /\ mine.active = r
      BY <1>0, <2>3 DEF FanOuts
    <3>2. flights' = [left EXCEPT ![g].buffered = FALSE]
      BY <1>0, <2>2, <2>3
    <3> HIDE DEF mine
    <3>3. left \in [Flights -> FanOuts] /\ left[f] = mine /\ \A h \in Flights \ {f} : left[h] = flights[h]
      BY <1>0, <3>1
    <3> HIDE DEF left
    <3>4. ASSUME NEW h \in Flights
          PROVE  /\ flights'[h] \in FanOuts /\ flights'[h].state = left[h].state
                 /\ flights'[h].version = left[h].version /\ flights'[h].active = left[h].active
                 /\ flights'[h].joined = left[h].joined
      <4>1. CASE h = g
        <5>1. flights'[h] = [left[h] EXCEPT !.buffered = FALSE] /\ left[h] \in FanOuts
          BY <2>3, <3>2, <3>3, <4>1
        <5> QED BY <5>1 DEF FanOuts
      <4>2. CASE h # g
        BY <3>2, <3>3, <4>2
      <4> QED BY <4>1, <4>2
    <3>5. flights' \in [Flights -> FanOuts]
      BY <2>3, <3>2, <3>3, <3>4
    <3>6. r # "joined"
      BY <2>3 DEF Results
    <3> QED BY <1>0, <2>1, <3>1, <3>3, <3>4, <3>5, <3>6
  <2>5. r \notin {"reading", "sending", "joined"}
    BY <2>3 DEF Results
  <2>6. OneRead'
    BY <1>0, <2>1, <2>4, <2>5 DEF OneRead
  <2> QED BY <1>0, <2>1, <2>4, <2>6 DEF Progress
<1>6. CASE GiveUp(f)
  <2> DEFINE flight == [flights[f] EXCEPT !.active = "err", !.joined = 0]
  <2>1. /\ flight \in FanOuts /\ flight.state = flights[f].state /\ flight.version = flights[f].version
        /\ flight.active = "err"
    BY <1>0 DEF FanOuts, Results
  <2>2. Put(f, flight) /\ UNCHANGED <<inflight, cached>>
    BY <1>6 DEF GiveUp
  <2> HIDE DEF flight
  <2> QED BY <1>0, <2>1, <2>2, PutOne
<1>7. CASE Close(f)
  <2> DEFINE flight == [flights[f] EXCEPT !.state = "closed"]
  <2>1. /\ flight \in FanOuts /\ flight.state = "closed" /\ flight.version = flights[f].version
        /\ flight.active = flights[f].active /\ flight.joined = flights[f].joined
    BY <1>0 DEF FanOuts
  <2>2. Put(f, flight) /\ UNCHANGED <<inflight, cached>> /\ flights[f].state = "reading"
    BY <1>7 DEF Close
  <2> HIDE DEF flight
  <2> QED BY <1>0, <2>1, <2>2, PutOne DEF OneRead
<1> QED BY <1>1, <1>2, <1>3, <1>4, <1>5, <1>6, <1>7 DEF Reads

-----------------------------------------------------------------------------
(* ChatPoll: each action keeps the invariant                               *)

LEMMA PollTyping ==
  ASSUME PollAssumption, PollInv
  PROVE  /\ \A p \in Views : /\ poll[p] \in Asks /\ poll[p].key \in Keys /\ poll[p].floor \in Versions
                             /\ Served(p) \in Flights \cup {0} /\ step[p] \in {"idle", "lead", "wait", "answer"}
         /\ \A f \in Flights : flights[f] \in FanOuts /\ flights[f].version \in Versions \cup {0}
         /\ \A k \in Keys : flightOf[k] \in Flights \cup {0} /\ shown[k] \in Versions
         /\ version \in Versions /\ Versions \subseteq Nat /\ 0 \notin Flights
<1>1. /\ version \in Versions /\ step \in [Views -> {"idle", "lead", "wait", "answer"}]
      /\ poll \in [Views -> Asks] /\ flights \in [Flights -> FanOuts]
      /\ flightOf \in [Keys -> Flights \cup {0}] /\ shown \in [Keys -> Versions]
  BY PollTypes DEF PollInv
<1>2. \A p \in Views : poll[p] \in Asks
  BY <1>1
<1>3. \A p \in Views : poll[p].key \in Keys /\ poll[p].floor \in Versions /\ Served(p) \in Flights \cup {0}
  BY <1>2 DEF Asks, Served
<1>4. \A f \in Flights : flights[f] \in FanOuts
  BY <1>1
<1>5. \A f \in Flights : flights[f].version \in Versions \cup {0}
  BY <1>4 DEF FanOuts
<1> QED BY <1>1, <1>2, <1>3, <1>4, <1>5, FreshType

(* A read brings a flight to where opencode is, and no flight but its     *)
(* key's is still to read.                                                 *)
LEMMA ReadsKeepPollInv ==
  ASSUME PollAssumption, PollInv, NEW f \in Flights, Reads(f)
  PROVE  PollInv'
<1>1. Progress(f) /\ UNCHANGED <<version, step, poll, flightOf, memo, shown, backwards>>
  BY ReadsProgress, ReadsFrame DEF UpstreamOnly
<1>2. PollTypeOK'
  BY <1>1, PollTypes DEF PollInv, Progress, PollTypeOK, FanOuts
<1>3. \A p \in Views : PollOf(p) /\ Served(p)' = Served(p)
  BY <1>1 DEF PollInv, Served
<1>4. \A g \in Flights :
        /\ flights'[g].state \in {flights[g].state, "closed"}
        /\ flights[g].version <= flights'[g].version /\ flights'[g].version <= version
        /\ \/ flights'[g].version = flights[g].version
           \/ flights[g].state = "reading" /\ flights'[g].version = version
  BY <1>1, PollTyping DEF Progress, PollInv, Reached
<1>5. ASSUME NEW p \in Views
      PROVE  PollOf(p)'
  <2>1. Served(p) # 0 =>
          /\ \/ flights'[Served(p)].state = "closed"
             \/ /\ flights'[Served(p)].state = "reading" /\ step[p] \in {"lead", "wait"}
                /\ flightOf[poll[p].key] = Served(p)
          /\ flights'[Served(p)].version = 0 \/ poll[p].floor <= flights'[Served(p)].version
    BY <1>3, <1>4, PollTyping DEF PollOf
  <2> QED BY <1>1, <1>3, <2>1 DEF PollOf
<1>6. ASSUME NEW k \in Keys, flightOf[k] # 0, flights'[flightOf[k]].version # 0
      PROVE  /\ shown[k] <= flights'[flightOf[k]].version
             /\ \A p \in Views : poll[p].key = k /\ Served(p) # 0 =>
                  flights'[Served(p)].version <= flights'[flightOf[k]].version
  <2>1. flightOf[k] \in Flights /\ Newest(k) /\ Reached
    BY <1>6, PollTyping DEF PollInv
  <2>2. shown[k] <= flights'[flightOf[k]].version
    BY <1>4, <1>6, <2>1, PollTyping DEF Newest, Reached
  <2>3. ASSUME NEW p \in Views, poll[p].key = k, Served(p) # 0
        PROVE  flights'[Served(p)].version <= flights'[flightOf[k]].version
    <3>1. Served(p) \in Flights
      BY <2>3, PollTyping
    <3>2. CASE flights[Served(p)].state = "reading"
      <4>1. Served(p) = flightOf[k]
        BY <1>3, <2>3, <3>2 DEF PollOf
      <4> QED BY <1>4, <2>1, <4>1, PollTyping
    <3>3. CASE flights[Served(p)].state # "reading"
      <4>1. flights'[Served(p)].version = flights[Served(p)].version
        BY <1>4, <3>1, <3>3
      <4>2. CASE flights'[flightOf[k]].version = version
        BY <2>1, <3>1, <4>1, <4>2 DEF Reached
      <4>3. CASE flights'[flightOf[k]].version = flights[flightOf[k]].version
        BY <1>6, <2>1, <2>3, <4>1, <4>3 DEF Newest
      <4> QED BY <1>4, <2>1, <4>2, <4>3
    <3> QED BY <3>2, <3>3
  <2> QED BY <2>2, <2>3
<1>7. ASSUME NEW k \in Keys
      PROVE  Newest(k)'
  <2>1. /\ flightOf' = flightOf /\ shown' = shown /\ \A p \in Views : poll'[p] = poll[p] /\ Served(p)' = Served(p)
    BY <1>1, <1>3
  <2> QED BY <1>6, <2>1 DEF Newest
<1>8. Reached'
  BY <1>1, <1>4, PollTyping DEF Reached, PollInv
<1>9. OneLead' /\ Led'
  BY <1>1 DEF PollInv, OneLead, Led, Served
<1>10. OneRead' /\ NeverBackwards'
  BY <1>1 DEF Progress, PollInv, NeverBackwards
<1> QED BY <1>2, <1>5, <1>7, <1>8, <1>9, <1>10 DEF PollInv

(* A view that joins finds a flight that has read nothing, or no less than *)
(* was shown.                                                              *)
LEMMA JoinKeepsPollInv ==
  ASSUME PollAssumption, PollInv, NEW p \in Views, NEW k \in Keys, step[p] = "idle", Join(p, k),
         UNCHANGED <<version, inflight, cached, memo, shown, backwards>>
  PROVE  PollInv'
<1> DEFINE F == flightOf[k]
<1>1. F \in Flights /\ F # 0
  BY PollTyping DEF Join
<1>2. /\ step' = [step EXCEPT ![p] = "wait"] /\ poll' = [poll EXCEPT ![p] = Asked(k, F)]
      /\ UNCHANGED <<version, flights, flightOf, inflight, cached, memo, shown, backwards>>
  BY DEF Join, Reach
<1>3. Asked(k, F) \in Asks /\ Asked(k, F).key = k /\ Asked(k, F).flight = F /\ Asked(k, F).floor = shown[k]
  BY <1>1, PollTyping DEF Asked, Asks
<1>4. PollTypeOK'
  BY <1>2, <1>3, PollTypes DEF PollInv, PollTypeOK, Asks
<1>5. /\ step'[p] = "wait" /\ poll'[p].key = k /\ Served(p)' = F /\ poll'[p].floor = shown[k]
      /\ \A q \in Views \ {p} : step'[q] = step[q] /\ poll'[q] = poll[q] /\ Served(q)' = Served(q)
  BY <1>2, <1>3, PollTypes DEF PollInv, Served
<1>6. PICK q \in Views : step[q] = "lead" /\ poll[q].key = k /\ Served(q) = F
  BY <1>1 DEF PollInv, Led
<1> HIDE DEF F
<1>7. flights[F].state = "closed" \/ (flights[F].state = "reading" /\ flightOf[k] = F)
  BY <1>1, <1>6 DEF PollInv, PollOf
<1>8. flights[F].version = 0 \/ shown[k] <= flights[F].version
  BY <1>1 DEF PollInv, Newest, F
<1>9. PollOf(p)'
  <2>1. shown[k] <= version
    BY DEF PollInv, Reached
  <2> QED BY <1>1, <1>2, <1>5, <1>7, <1>8, <2>1 DEF PollOf
<1>10. ASSUME NEW r \in Views \ {p}
       PROVE  PollOf(r)'
  BY <1>2, <1>5 DEF PollInv, PollOf
<1>11. OneLead'
  BY <1>5 DEF PollInv, OneLead
<1>12. ASSUME NEW j \in Keys, flightOf'[j] # 0
       PROVE  \E r \in Views : step'[r] = "lead" /\ poll'[r].key = j /\ Served(r)' = flightOf'[j]
  <2>1. PICK r \in Views : step[r] = "lead" /\ poll[r].key = j /\ Served(r) = flightOf[j]
    BY <1>2, <1>12 DEF PollInv, Led
  <2>2. r # p
    BY <2>1
  <2> QED BY <1>2, <1>5, <2>1, <2>2
<1>13. Led'
  BY <1>12 DEF Led
<1>14. ASSUME NEW j \in Keys
       PROVE  Newest(j)'
  <2>1. \A r \in Views : poll'[r].key = j /\ Served(r)' # 0 => 
          Served(r)' = flightOf[j] \/ (poll[r].key = j /\ Served(r)' = Served(r))
    BY <1>5 DEF F
  <2>2. flightOf[j] # 0 => flights[flightOf[j]].version \in Nat
    BY PollTyping
  <2>3. Newest(j)
    BY DEF PollInv
  <2> QED BY <1>2, <2>1, <2>2, <2>3 DEF Newest
<1>15. Reached' /\ OneRead' /\ NeverBackwards'
  BY <1>2 DEF PollInv, Reached, OneRead, NeverBackwards
<1> QED BY <1>4, <1>9, <1>10, <1>11, <1>13, <1>14, <1>15 DEF PollInv

(* A view that leads takes a flight nobody knows of.                       *)
LEMMA LeadKeepsPollInv ==
  ASSUME PollAssumption, PollInv, NEW p \in Views, NEW k \in Keys, step[p] = "idle", Lead(p, k),
         UNCHANGED <<version, inflight, cached, memo, shown, backwards>>
  PROVE  PollInv'
<1>1. PICK f \in NextFree : /\ Put(f, Flight(k)) /\ flightOf' = [flightOf EXCEPT ![k] = f]
                            /\ poll' = [poll EXCEPT ![p] = Asked(k, f)]
  BY DEF Lead
<1>2. /\ flightOf[k] = 0 /\ step' = [step EXCEPT ![p] = "lead"] /\ flights' = [flights EXCEPT ![f] = Flight(k)]
      /\ f \in Flights /\ f # 0 /\ (\A q \in Views : Served(q) # f) /\ \A j \in Keys : flightOf[j] # f
  BY <1>1, PollTyping DEF Lead, Reach, Put, NextFree, Unused, Served
<1>3. Asked(k, f) \in Asks /\ Asked(k, f).key = k /\ Asked(k, f).flight = f /\ Asked(k, f).floor = shown[k]
  BY <1>2, PollTyping DEF Asked, Asks
<1>4. /\ Flight(k) \in FanOuts /\ Flight(k).version = 0 /\ Flight(k).state = "reading"
      /\ Flight(k).active \in {"begin", "none"}
  BY FreshType
<1>5. PollTypeOK'
  <2>1. flights' \in [Flights -> FanOuts] /\ flightOf' \in [Keys -> Flights \cup {0}]
    BY <1>1, <1>2, <1>4, PollTypes DEF PollInv
  <2>2. poll' \in [Views -> Asks] /\ step' \in [Views -> {"idle", "lead", "wait", "answer"}]
    BY <1>1, <1>2, <1>3, PollTypes DEF PollInv
  <2> QED BY <2>1, <2>2, PollTypes DEF PollInv, PollTypeOK, Asks, FanOuts
<1>6. /\ step'[p] = "lead" /\ poll'[p].key = k /\ Served(p)' = f /\ poll'[p].floor = shown[k]
      /\ \A q \in Views \ {p} : step'[q] = step[q] /\ poll'[q] = poll[q] /\ Served(q)' = Served(q)
      /\ flights'[f] = Flight(k) /\ \A g \in Flights \ {f} : flights'[g] = flights[g]
      /\ flightOf'[k] = f /\ \A j \in Keys \ {k} : flightOf'[j] = flightOf[j]
  BY <1>1, <1>2, <1>3, PollTypes DEF PollInv, Served
<1>7. PollOf(p)'
  <2>1. shown[k] <= version /\ version' = version
    BY DEF PollInv, Reached
  <2> QED BY <1>2, <1>4, <1>6, <2>1 DEF PollOf
<1>8. ASSUME NEW q \in Views \ {p}
      PROVE  PollOf(q)'
  <2>1. PollOf(q) /\ Served(q) # f /\ Served(q) \in Flights \cup {0} /\ poll[q].key \in Keys
    BY <1>2, PollTyping DEF PollInv
  <2>2. Served(q) # 0 => flights'[Served(q)] = flights[Served(q)]
    BY <1>6, <2>1
  <2>3. Served(q) # 0 /\ flightOf[poll[q].key] = Served(q) => flightOf'[poll[q].key] = Served(q)
    BY <1>2, <1>6, <2>1
  <2>4. step[q] = "lead" => Served(q) # 0
    BY <2>1 DEF PollOf
  <2> QED BY <1>6, <2>1, <2>2, <2>3, <2>4 DEF PollOf
<1>9. OneLead'
  BY <1>2, <1>6 DEF PollInv, OneLead
<1>10. ASSUME NEW j \in Keys, flightOf'[j] # 0
       PROVE  \E r \in Views : step'[r] = "lead" /\ poll'[r].key = j /\ Served(r)' = flightOf'[j]
  <2>1. CASE j = k
    BY <1>6, <2>1
  <2>2. CASE j # k
    <3>1. PICK r \in Views : step[r] = "lead" /\ poll[r].key = j /\ Served(r) = flightOf[j]
      BY <1>6, <1>10, <2>2 DEF PollInv, Led
    <3>2. r # p
      BY <3>1
    <3> QED BY <1>6, <2>2, <3>1, <3>2
  <2> QED BY <2>1, <2>2
<1>11. Led'
  BY <1>10 DEF Led
<1>12. ASSUME NEW j \in Keys
       PROVE  Newest(j)'
  <2>1. CASE j = k
    BY <1>4, <1>6, <2>1 DEF Newest
  <2>2. CASE j # k
    <3>1. flightOf'[j] = flightOf[j] /\ (flightOf[j] # 0 => flights'[flightOf[j]] = flights[flightOf[j]])
      BY <1>2, <1>6, <2>2, PollTyping
    <3>2. \A r \in Views : poll'[r].key = j => poll[r].key = j /\ Served(r)' = Served(r)
      BY <1>6, <2>2
    <3>3. \A r \in Views : Served(r) # 0 => flights'[Served(r)] = flights[Served(r)]
      BY <1>2, <1>6, PollTyping
    <3>4. Newest(j)
      BY DEF PollInv
    <3> QED BY <3>1, <3>2, <3>3, <3>4 DEF Newest
  <2> QED BY <2>1, <2>2
<1>13. Reached'
  BY <1>4, <1>6, PollTyping DEF PollInv, Reached
<1>14. OneRead' /\ NeverBackwards'
  BY <1>4, <1>6 DEF PollInv, OneRead, NeverBackwards
<1> QED BY <1>5, <1>7, <1>8, <1>9, <1>11, <1>12, <1>13, <1>14 DEF PollInv

(* A flight that is closed and led by this view is no other key's.         *)
LEMMA ForgetKeepsPollInv ==
  ASSUME PollAssumption, PollInv, NEW p \in Views, Forget(p)
  PROVE  PollInv'
<1> DEFINE k == poll[p].key
<1>1. /\ step[p] = "lead" /\ flights[Served(p)].state = "closed" /\ step' = [step EXCEPT ![p] = "answer"]
      /\ flightOf' = [flightOf EXCEPT ![k] = 0]
      /\ UNCHANGED <<version, poll, flights, inflight, cached, memo, shown, backwards>>
  BY DEF Forget, Reach, Served
<1>2. k \in Keys /\ PollOf(p) /\ flightOf[k] = Served(p)
  BY <1>1, PollTyping DEF PollInv, PollOf
<1> HIDE DEF k
<1>3. PollTypeOK'
  BY <1>1, <1>2, PollTypes DEF PollInv, PollTypeOK, Asks, FanOuts
<1>4. /\ step'[p] = "answer" /\ (\A q \in Views \ {p} : step'[q] = step[q])
      /\ (\A q \in Views : poll'[q] = poll[q] /\ Served(q)' = Served(q))
      /\ flightOf'[k] = 0 /\ \A j \in Keys \ {k} : flightOf'[j] = flightOf[j]
  BY <1>1, <1>2, PollTypes DEF PollInv, Served
<1>5. PollOf(p)'
  BY <1>1, <1>2, <1>4 DEF PollOf
<1>6. ASSUME NEW q \in Views \ {p}
      PROVE  PollOf(q)'
  <2>1. PollOf(q) /\ poll[q].key \in Keys /\ Served(q) \in Flights \cup {0}
    BY PollTyping DEF PollInv
  <2>2. flights[Served(q)].state = "reading" /\ flightOf[poll[q].key] = Served(q) => flightOf'[poll[q].key] = Served(q)
    BY <1>1, <1>2, <1>4, <2>1
  <2>3. step[q] = "lead" => poll[q].key # k
    BY <1>1, <1>2, <2>1 DEF PollInv, OneLead, PollOf
  <2> QED BY <1>1, <1>4, <2>1, <2>2, <2>3 DEF PollOf
<1>7. OneLead'
  BY <1>4 DEF PollInv, OneLead
<1>8. ASSUME NEW j \in Keys, flightOf'[j] # 0
      PROVE  \E r \in Views : step'[r] = "lead" /\ poll'[r].key = j /\ Served(r)' = flightOf'[j]
  <2>1. PICK r \in Views : step[r] = "lead" /\ poll[r].key = j /\ Served(r) = flightOf[j]
    BY <1>4, <1>8 DEF PollInv, Led
  <2>2. r # p
    BY <1>4, <1>8, <2>1 DEF k
  <2> QED BY <1>4, <1>8, <2>1, <2>2
<1>9. Led'
  BY <1>8 DEF Led
<1>10. ASSUME NEW j \in Keys
       PROVE  Newest(j)'
  BY <1>1, <1>4 DEF PollInv, Newest
<1>11. Reached' /\ OneRead' /\ NeverBackwards'
  BY <1>1 DEF PollInv, Reached, OneRead, NeverBackwards
<1> QED BY <1>3, <1>5, <1>6, <1>7, <1>9, <1>10, <1>11 DEF PollInv

(* What a view that has its answer, or goes away, leaves behind: a flight   *)
(* is let go only when nobody else has it.                                 *)
LEMMA ReleasedType ==
  ASSUME PollAssumption, PollInv, NEW p \in Views
  PROVE  /\ Released(p) \in [Flights -> FanOuts]
         /\ \A f \in Flights : \/ Released(p)[f] = flights[f]
                               \/ /\ Released(p)[f] = Free
                                  /\ \A q \in Views \ {p} : Served(q) # f
<1>1. ASSUME NEW f \in Flights
      PROVE  /\ Released(p)[f] \in {Free, flights[f]} /\ Released(p)[f] \in FanOuts
             /\ Released(p)[f] = flights[f] \/ (\A q \in Views \ {p} : Served(q) # f)
  BY FreshType, PollTyping DEF Released, Served
<1>2. Released(p) \in [Flights -> FanOuts]
  BY <1>1 DEF Released
<1> QED BY <1>1, <1>2

LEMMA DepartureKeepsPollInv ==
  ASSUME PollAssumption, PollInv, NEW p \in Views, step[p] \in {"answer", "wait"},
         Reach(p, "idle"), poll' = [poll EXCEPT ![p] = NoPoll], flights' = Released(p),
         UNCHANGED <<version, flightOf, inflight, cached>>,
         memo' \subseteq Latest, backwards' = FALSE, shown' \in [Keys -> Versions],
         \A k \in Keys : \/ shown'[k] = shown[k]
                         \/ k = poll[p].key /\ Served(p) # 0 /\ shown'[k] = flights[Served(p)].version
  PROVE  PollInv'
<1>1. NoPoll \in Asks /\ NoPoll.flight = 0 /\ NoPoll.floor = 1 /\ Free.version = 0 /\ Free.active = "none"
  BY FreshType
<1>2. flights' \in [Flights -> FanOuts] /\ step' = [step EXCEPT ![p] = "idle"]
  BY ReleasedType DEF Reach
<1>3. PollTypeOK'
  <2>1. poll' \in [Views -> Asks] /\ step' \in [Views -> {"idle", "lead", "wait", "answer"}]
    BY <1>1, <1>2, PollTypes DEF PollInv
  <2>2. backwards' \in BOOLEAN
    OBVIOUS
  <2> QED BY <1>2, <2>1, <2>2, PollTypes DEF PollInv, PollTypeOK, Asks, FanOuts
<1>4. /\ step'[p] = "idle" /\ poll'[p] = NoPoll /\ Served(p)' = 0
      /\ \A q \in Views \ {p} : step'[q] = step[q] /\ poll'[q] = poll[q] /\ Served(q)' = Served(q)
  BY <1>1, <1>2, PollTypes DEF PollInv, Served
<1>5. \A f \in Flights : flights'[f] = flights[f] \/ (flights'[f] = Free /\ \A q \in Views \ {p} : Served(q) # f)
  BY ReleasedType
<1>6. \A q \in Views \ {p} : Served(q) # 0 => flights'[Served(q)] = flights[Served(q)]
  BY <1>5, PollTyping
<1>7. PollOf(p)'
  <2>1. 1 <= version /\ version' = version
    BY PollTyping DEF Versions
  <2> QED BY <1>1, <1>4, <2>1 DEF PollOf
<1>8. ASSUME NEW q \in Views \ {p}
      PROVE  PollOf(q)'
  BY <1>4, <1>6 DEF PollInv, PollOf
<1>9. OneLead'
  BY <1>4 DEF PollInv, OneLead
<1>10. ASSUME NEW j \in Keys, flightOf[j] # 0
       PROVE  \E r \in Views \ {p} : step[r] = "lead" /\ poll[r].key = j /\ Served(r) = flightOf[j]
  <2>1. PICK r \in Views : step[r] = "lead" /\ poll[r].key = j /\ Served(r) = flightOf[j]
    BY <1>10 DEF PollInv, Led
  <2>2. r # p
    BY <2>1
  <2> QED BY <2>1, <2>2
<1>11. Led'
  <2>1. ASSUME NEW j \in Keys, flightOf'[j] # 0
        PROVE  \E r \in Views : step'[r] = "lead" /\ poll'[r].key = j /\ Served(r)' = flightOf'[j]
    <3>1. PICK r \in Views \ {p} : step[r] = "lead" /\ poll[r].key = j /\ Served(r) = flightOf[j]
      BY <1>10, <2>1
    <3> QED BY <1>4, <3>1
  <2> QED BY <2>1 DEF Led
<1>12. ASSUME NEW j \in Keys
       PROVE  Newest(j)'
  <2>1. SUFFICES ASSUME flightOf[j] # 0, flights'[flightOf[j]].version # 0
        PROVE  /\ shown'[j] <= flights'[flightOf[j]].version
               /\ \A q \in Views : poll'[q].key = j /\ Served(q)' # 0 =>
                    flights'[Served(q)'].version <= flights'[flightOf[j]].version
    BY DEF Newest, Served
  <2>2. flights'[flightOf[j]] = flights[flightOf[j]]
    BY <1>6, <1>10, <2>1
  <2>3. Newest(j)
    BY DEF PollInv
  <2>4. shown'[j] <= flights'[flightOf[j]].version
    BY <2>1, <2>2, <2>3 DEF Newest
  <2>5. ASSUME NEW q \in Views, poll'[q].key = j, Served(q)' # 0
        PROVE  flights'[Served(q)'].version <= flights'[flightOf[j]].version
    <3>1. q # p
      BY <1>4, <2>5
    <3> QED BY <1>4, <1>6, <2>1, <2>2, <2>3, <2>5, <3>1 DEF Newest
  <2> QED BY <2>4, <2>5
<1>13. Reached'
  <2>1. \A f \in Flights : flights'[f].version <= version
    BY <1>1, <1>5, PollTyping DEF PollInv, Reached
  <2>2. \A k \in Keys : shown'[k] <= version
    BY PollTyping DEF PollInv, Reached
  <2> QED BY <2>1, <2>2 DEF Reached
<1>14. OneRead' /\ NeverBackwards'
  BY <1>1, <1>5 DEF PollInv, OneRead, NeverBackwards
<1> QED BY <1>3, <1>7, <1>8, <1>9, <1>11, <1>12, <1>13, <1>14 DEF PollInv

LEMMA LeaveKeepsPollInv ==
  ASSUME PollAssumption, PollInv, NEW p \in Views, Leave(p)
  PROVE  PollInv'
<1>1. memo \subseteq Latest /\ backwards = FALSE /\ shown \in [Keys -> Versions]
  BY PollTypes DEF PollInv, NeverBackwards, PollTypeOK
<1> QED BY <1>1, DepartureKeepsPollInv DEF Leave

(* What is answered from the memo is marked, so what is shown as fresh is  *)
(* what the flight has read.                                               *)
LEMMA AnswerKeepsPollInv ==
  ASSUME PollAssumption, PollInv, NEW p \in Views, AnswerPoll(p)
  PROVE  PollInv'
<1> DEFINE k == poll[p].key
           flight == flights[Served(p)]
<1>1. /\ step[p] \in {"answer", "wait"} /\ Reach(p, "idle") /\ poll' = [poll EXCEPT ![p] = NoPoll]
      /\ flights' = Released(p) /\ UNCHANGED <<version, flightOf, inflight, cached>>
      /\ memo' = IF flight.page = "ok" /\ k \in Latest THEN memo \cup {k} ELSE memo
  BY DEF AnswerPoll, Served
<1>2. PICK fromMemo \in Memos(k, flight) : \E degraded \in Marks(k, flight, fromMemo) :
        \E page \in (IF fromMemo THEN 1 .. version ELSE {flight.version}) :
          LET fresh == page # 0 /\ ~degraded
          IN /\ backwards' = (backwards \/ (fresh /\ page < poll[p].floor))
             /\ shown' = IF fresh /\ page > shown[k] THEN [shown EXCEPT ![k] = page] ELSE shown
  BY DEF AnswerPoll, Served
<1>3. PICK degraded \in Marks(k, flight, fromMemo) :
        \E page \in (IF fromMemo THEN 1 .. version ELSE {flight.version}) :
          /\ backwards' = (backwards \/ ((page # 0 /\ ~degraded) /\ page < poll[p].floor))
          /\ shown' = IF (page # 0 /\ ~degraded) /\ page > shown[k] THEN [shown EXCEPT ![k] = page] ELSE shown
  BY <1>2
<1>4. PICK page \in (IF fromMemo THEN 1 .. version ELSE {flight.version}) :
        /\ backwards' = (backwards \/ ((page # 0 /\ ~degraded) /\ page < poll[p].floor))
        /\ shown' = IF (page # 0 /\ ~degraded) /\ page > shown[k] THEN [shown EXCEPT ![k] = page] ELSE shown
  BY <1>3
<1>5. k \in Keys /\ memo \subseteq Latest /\ backwards = FALSE /\ shown \in [Keys -> Versions]
  BY PollTypes, PollTyping DEF PollInv, NeverBackwards, PollTypeOK
<1>6. Served(p) # 0 /\ Served(p) \in Flights /\ flight.version \in Versions \cup {0}
  <2>1. PollOf(p)
    BY DEF PollInv
  <2> QED BY <1>1, <2>1, PollTyping DEF PollOf
<1>7. page # 0 /\ ~degraded => page = flight.version
  <2>1. fromMemo => degraded
    BY <1>5 DEF Memos, Marks
  <2> QED BY <1>4, <2>1
<1>8. flight.version = 0 \/ poll[p].floor <= flight.version
  BY <1>6 DEF PollInv, PollOf
<1>9. backwards' = FALSE
  <2>1. ~((page # 0 /\ ~degraded) /\ page < poll[p].floor)
    BY <1>6, <1>7, <1>8, PollTyping
  <2> QED BY <1>4, <1>5, <2>1
<1>10. /\ shown' \in [Keys -> Versions]
      /\ \A j \in Keys : shown'[j] = shown[j] \/ (j = k /\ Served(p) # 0 /\ shown'[j] = flight.version)
  <2>1. CASE shown' = shown
    BY <1>5, <2>1
  <2>2. CASE shown' = [shown EXCEPT ![k] = page] /\ page # 0 /\ ~degraded
    <3>1. page = flight.version /\ page \in Versions
      BY <1>6, <1>7, <2>2
    <3> QED BY <1>5, <1>6, <2>2, <3>1
  <2> QED BY <1>4, <2>1, <2>2
<1>11. memo' \subseteq Latest
  BY <1>1, <1>5
<1> QED BY <1>1, <1>9, <1>10, <1>11, DepartureKeepsPollInv

LEMMA UpstreamKeepsPollInv ==
  ASSUME PollAssumption, PollInv, Upstream
  PROVE  PollInv'
<1>1. /\ version < MaxVersion /\ version' = version + 1 /\ version \in Versions
      /\ UNCHANGED <<step, poll, flights, flightOf, inflight, cached, memo, shown, backwards>>
  BY PollTyping DEF Upstream
<1>2. version' \in Versions /\ version \in Nat /\ version' = version + 1
  BY <1>1 DEF PollAssumption, Versions
<1>3. PollTypeOK'
  BY <1>1, <1>2 DEF PollInv, PollTypeOK
<1>4. \A p \in Views : PollOf(p)'
  <2>1. ASSUME NEW p \in Views
        PROVE  PollOf(p)'
    <3>1. PollOf(p) /\ poll[p].floor <= version
      BY DEF PollInv, PollOf
    <3>2. poll[p].floor <= version'
      <4>1. poll[p].floor \in Nat
        BY PollTyping
      <4> QED BY <1>1, <1>2, <3>1, <4>1
    <3>3. Served(p)' = Served(p)
      BY <1>1 DEF Served
    <3> QED BY <1>1, <3>1, <3>2, <3>3 DEF PollOf
  <2> QED BY <2>1
<1>5. Reached'
  <2>1. ASSUME NEW f \in Flights
        PROVE  flights[f].version <= version'
    <3>1. flights[f].version \in Nat /\ flights[f].version <= version
      BY PollTyping DEF PollInv, Reached
    <3> QED BY <1>1, <1>2, <3>1
  <2>2. ASSUME NEW k \in Keys
        PROVE  shown[k] <= version'
    <3>1. shown[k] \in Nat /\ shown[k] <= version
      BY PollTyping DEF PollInv, Reached
    <3> QED BY <1>1, <1>2, <3>1
  <2> QED BY <1>1, <2>1, <2>2 DEF Reached
<1>6. OneLead' /\ Led' /\ (\A k \in Keys : Newest(k)')
  BY <1>1 DEF PollInv, OneLead, Led, Newest, Served
<1>7. OneRead' /\ NeverBackwards'
  BY <1>1 DEF PollInv, OneRead, NeverBackwards
<1> QED BY <1>3, <1>4, <1>5, <1>6, <1>7 DEF PollInv

-----------------------------------------------------------------------------
(* ChatPoll: the theorems                                                  *)

LEMMA PollBegins ==
  ASSUME PollAssumption, PollInit
  PROVE  PollInv
<1>1. /\ NoPoll \in Asks /\ NoPoll.flight = 0 /\ NoPoll.floor = 1
      /\ Free \in FanOuts /\ Free.version = 0 /\ Free.active = "none" /\ 1 \in Versions
  BY FreshType
<1>2. PollTypeOK
  BY <1>1 DEF PollInit, PollTypeOK, Asks, FanOuts
<1>3. \A p \in Views : PollOf(p)
  <2>1. ASSUME NEW p \in Views
        PROVE  step[p] = "idle" /\ Served(p) = 0 /\ poll[p].floor = 1 /\ version = 1
    BY <1>1 DEF PollInit, Served
  <2>2. 1 <= 1
    OBVIOUS
  <2> QED BY <2>1, <2>2 DEF PollOf
<1>4. OneLead /\ Led /\ (\A k \in Keys : Newest(k))
  BY DEF PollInit, OneLead, Led, Newest
<1>5. Reached /\ OneRead /\ NeverBackwards
  BY <1>1 DEF PollInit, Reached, OneRead, NeverBackwards
<1> QED BY <1>2, <1>3, <1>4, <1>5 DEF PollInv

LEMMA PollStep ==
  ASSUME PollAssumption, PollInv, [PollNext]_pollVars
  PROVE  PollInv'
<1>1. CASE \E p \in Views : Poll(p)
  <2>1. PICK p \in Views, k \in Keys :
          /\ step[p] = "idle" /\ (Join(p, k) \/ Lead(p, k))
          /\ UNCHANGED <<version, inflight, cached, memo, shown, backwards>>
    BY <1>1 DEF Poll
  <2>2. CASE Join(p, k)
    BY <2>1, <2>2, JoinKeepsPollInv
  <2>3. CASE Lead(p, k)
    BY <2>1, <2>3, LeadKeepsPollInv
  <2> QED BY <2>1, <2>2, <2>3
<1>2. CASE \E p \in Views : Forget(p)
  BY <1>2, ForgetKeepsPollInv
<1>3. CASE \E p \in Views : AnswerPoll(p)
  BY <1>3, AnswerKeepsPollInv
<1>4. CASE \E p \in Views : Leave(p)
  BY <1>4, LeaveKeepsPollInv
<1>5. CASE \E f \in Flights : Reads(f)
  BY <1>5, ReadsKeepPollInv
<1>6. CASE Upstream
  BY <1>6, UpstreamKeepsPollInv
<1>7. CASE UNCHANGED pollVars
  BY <1>7 DEF pollVars, PollInv, PollTypeOK, PollOf, Served, OneLead, Led, Newest, Reached, OneRead, NeverBackwards
<1> QED BY <1>1, <1>2, <1>3, <1>4, <1>5, <1>6, <1>7 DEF PollNext, Responds

(* The invariant that carries the theorems below.                          *)
THEOREM PollInvariant == PollSpec => []PollInv
<1>1. PollInit => PollInv
  BY PollBegins, PollAssumption
<1>2. PollInv /\ [PollNext]_pollVars => PollInv'
  BY PollStep, PollAssumption
<1> QED BY <1>1, <1>2, PTL DEF PollSpec

(* snapshotFlight and activeCache keep to their types, for any number of   *)
(* views, sessions and flights.                                            *)
THEOREM PollTypeCorrect == PollSpec => []PollTypeOK
<1>1. PollInv => PollTypeOK
  BY DEF PollInv
<1> QED BY <1>1, PollInvariant, PTL

(* chatcache.go, snapshotFlight.do and activeCache.get: however many views *)
(* poll a session, one fan-out reads it, and one read of the active        *)
(* sessions serves every fan-out.                                          *)
THEOREM OneFetchAtATime == PollSpec => []OneFetch
<1>1. ASSUME PollInv
      PROVE  OneFetch
  <2>1. ASSUME NEW p \in Views, NEW q \in Views, Polling(p), Polling(q), poll[p].key = poll[q].key, Served(p) # Served(q)
        PROVE  "closed" \in {flights[Served(p)].state, flights[Served(q)].state}
    <3>1. PollOf(p) /\ PollOf(q) /\ Served(p) # 0 /\ Served(q) # 0
      BY <1>1, <2>1 DEF PollInv, Polling, PollOf
    <3> QED BY <2>1, <3>1 DEF PollOf
  <2>2. \A f, g \in Flights : flights[f].active = "reading" /\ flights[g].active = "reading" => f = g
    BY <1>1 DEF PollInv, OneRead
  <2> QED BY <2>1, <2>2 DEF OneFetch, Served
<1> QED BY <1>1, PollInvariant, PTL

(* chatSnapshot and its memo: a poll that shows its page unmarked never    *)
(* shows less than its key's polls had shown when it began.                *)
THEOREM ViewsNeverGoBack == PollSpec => []NeverBackwards
<1>1. PollInv => NeverBackwards
  BY DEF PollInv
<1> QED BY <1>1, PollInvariant, PTL
=============================================================================
